---------------------------------- MODULE MCOam ----------------------------------
(* Instances of Oam, and its properties.                                          *)
EXTENDS Oam

(* The one counter of circuits that owe their first cell is never too small for *)
(* those that do: below it, a first cell would wait for ever, since the circuits *)
(* are not looked at once it is zero.  It may be too large, for circuits closed *)
(* before they have sent theirs, or cleared while a circuit is opened, but for  *)
(* the one circuit that has its cell and is about to be counted.                *)
FirstCellsCounted ==
  Cardinality(First) <= inits + IF pc = "count" THEN 1 ELSE 0

(* While the line stays up, every cell the ATM layer owes it goes out: each    *)
(* loopback cell that was taken into the one buffer there is, the first cell   *)
(* of each circuit, although one counter stands for all of them and circuits   *)
(* are closed before they have sent theirs, and the cell that announces the    *)
(* link, which that counter must not keep back.                                *)
EveryOamCellSent ==
  /\ owed > 0 ~> (owed = 0 \/ ~line)
  /\ \A v \in Vcs : vc[v].init ~> (~vc[v].init \/ ~line)
  /\ linkCell ~> (~linkCell \/ ~line)
-------------------------------------------------------------------------------
(* What the comments of the code say.                                          *)

(* FrameALATM.c: a cell is got from one of the active VCs.                     *)
CellOfActiveVc == [][reply' = NoReply /\ reply \in Vcs => Context(reply)]_vars
===============================================================================
