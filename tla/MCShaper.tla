--------------------------------- MODULE MCShaper ---------------------------------
(* Instances of Shaper, and its properties.                                      *)
EXTENDS Shaper

(* Unless the thread is at work, the slot table that shaping goes by belongs  *)
(* to the circuits there are: every active one has a slot, no other has, and  *)
(* from any slot the pointers lead to all of them in as many tries as         *)
(* FrATMShGetCell makes.                                                      *)
Chain(i) == LET n[k \in 1 .. active] == IF k = 1 THEN i ELSE table[n[k - 1]].next
            IN {table[n[k]].vc : k \in 1 .. active}
TableServes ==
  flag /\ pc = "idle" =>
    /\ {table[i].vc : i \in 0 .. end - 1} = ActiveOf(vc)
    /\ \A i \in 0 .. end - 1 : Chain(i) = ActiveOf(vc)

(* A cell the AAL layer has for an open circuit is sent some time while the   *)
(* line stays up, however circuits come and go and the line's rate changes.   *)
EveryCellSent == \A v \in Vcs \cap (0 .. MaxOpen - 1) : queue[v] ~> (~queue[v] \/ line = 0)
===============================================================================
