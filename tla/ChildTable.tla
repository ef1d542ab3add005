----------------------------- MODULE ChildTable -----------------------------
(***************************************************************************)
(* What exit and wait promise together, for one task.  It lives, may be a  *)
(* zombie until somebody claims it, and is freed by the one who claimed    *)
(* it; a debugger may hand a zombie it claimed on to the real parent.      *)
(***************************************************************************)
CONSTANTS Task, None

VARIABLES
    life,        \* "alive", "zombie", "claimed" or "gone"
    collector    \* the task that claimed it, or None

vars == <<life, collector>>

Init == life \in {"alive", "gone"} /\ collector = None

\* The death leaves a zombie, or is collected at once by the dying task.
Die ==
    /\ life = "alive"
    /\ \/ life' = "zombie" /\ collector' = None
       \/ life' = "claimed" /\ collector' \in Task

Claim ==
    /\ life = "zombie"
    /\ life' = "claimed" /\ collector' \in Task

HandOn ==
    /\ life = "claimed"
    /\ life' = "zombie" /\ collector' = None

Free ==
    /\ life = "claimed"
    /\ life' = "gone" /\ collector' = None

Next == Die \/ Claim \/ HandOn \/ Free

Spec == Init /\ [][Next]_vars
=============================================================================
