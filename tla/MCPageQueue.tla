---- MODULE MCPageQueue ----
(* The page queue on a ring of four slots.                                 *)
EXTENDS PageQueueSpec
====
