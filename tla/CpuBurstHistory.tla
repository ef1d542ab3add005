-------------------------- MODULE CpuBurstHistory --------------------------
(***************************************************************************)
(* CpuBurst with a history variable, to compare what the kernel measures   *)
(* with what happened.  It is written in every step and read in none.      *)
(***************************************************************************)
EXTENDS CpuBurst

VARIABLE
  used     \* the time a task of testp has had the CPU, until do_exit logs it

hvars == <<vars, used>>

HInit ==
  /\ Init
  /\ used = [t \in Testp |-> 0]

HNext ==
  /\ Next
  /\ used' = [t \in Testp |->
                used[t] + IF t = curr /\ pc[t] \in {"user", "wait", "exit", "row"}
                            THEN now' - now ELSE 0]

HSpec == HInit /\ [][HNext]_hvars

\* The burst that do_exit logs for a task is the CPU time the task has used, all
\* of it (README.md, assignment 3: "CPU 점유 시간 (CPU burst: 할당 받은 CPU로
\* 연산을 수행하는 시간) 누적값").
LoggedIsCpuTime == \A i \in 1 .. Len(Rows) : Rows[i].burst = used[Rows[i].task]
=============================================================================
