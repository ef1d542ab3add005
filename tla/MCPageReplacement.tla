------------------------- MODULE MCPageReplacement -------------------------
(***************************************************************************)
(* Instances of the simulator: all address strings of length NUM_ADDRESSES *)
(* over a few addresses, and the least number of faults any replacement    *)
(* policy can reach on a string, against which Optimal is checked.         *)
(***************************************************************************)
EXTENDS PageReplacement

CONSTANT Addresses   (* the addresses a full input file is made of *)

FullStrings == [Index -> Addresses]

(* One string for each way of repeating pages: page p appears only after    *)
(* page p - 1 has.  The simulator only compares page numbers with = and     *)
(* indexes with them, so a renaming of the pages renames its runs.  Page 0  *)
(* is read at its second address only at the end of the string.             *)
PageOrderedStrings ==
  {s \in FullStrings : \A n \in Index :
     /\ s[n] \div pageSizeByte \in
       {0} \union {1 + s[m] \div pageSizeByte : m \in 0 .. n - 1}
           \union {s[m] \div pageSizeByte : m \in 0 .. n - 1}
     /\ s[n] = 1 => n = NUM_ADDRESSES - 1}

(* A file with fewer addresses leaves the rest of the array at -1.         *)
ShortStrings ==
  {s \in [Index -> Addresses \union {-1}] :
     \A n \in Index : s[n] = -1 => \A m \in n .. NUM_ADDRESSES - 1 : s[m] = -1}

RECURSIVE MinFaults(_, _)
(* The least number of faults from address n on, with the given pages in   *)
(* memory, over all choices of victims.                                    *)
MinFaults(n, resident) ==
  IF n = NUM_ADDRESSES THEN 0
  ELSE LET p == infos[n].pageNum
       IN  IF p \in resident THEN MinFaults(n + 1, resident)
           ELSE IF Cardinality(resident) < totalFrame
                THEN 1 + MinFaults(n + 1, resident \union {p})
                ELSE 1 + Min({MinFaults(n + 1, (resident \ {v}) \union {p}) :
                                v \in resident})

(* Optimal has the fewest faults any policy can have on the string, and no *)
(* algorithm has fewer (as4.c:202-341).                                    *)
OptimalIsOptimal ==
  pc = "done" =>
    /\ pageFaults >= MinFaults(0, {})
    /\ algorithm = "Optimal" => pageFaults = MinFaults(0, {})

=============================================================================
