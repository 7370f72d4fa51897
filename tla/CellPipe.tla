------------------------------- MODULE CellPipe -------------------------------
(* What a DMA channel of the driver promises to both of its ends, whatever    *)
(* ring, command register and interrupts it is built from: the cells handed   *)
(* in come out on the other side in the order they went in, none of them      *)
(* twice.  Until the channel is stopped, or the hardware fails it, it loses   *)
(* none either.  The cells are numbered 1, 2, 3, ... in the order they are    *)
(* handed in.                                                                 *)
EXTENDS Integers, Sequences

CONSTANT Cells     \* the number of cells handed in, a natural number

VARIABLES taken,   \* number of cells handed in so far
          out,     \* the cells that came out, oldest first
          lossy    \* TRUE once the channel may have dropped cells

vars == <<taken, out, lossy>>

Newest(s) == IF s = <<>> THEN 0 ELSE s[Len(s)]

Init == taken = 0 /\ out = <<>> /\ lossy \in BOOLEAN

(* The near end hands in the next cells.                                      *)
Take == taken' \in (taken + 1) .. Cells /\ UNCHANGED <<out, lossy>>

(* Some of the cells that are inside come out, oldest first.                  *)
Emit ==
  /\ Len(out') > Len(out)
  /\ SubSeq(out', 1, Len(out)) = out
  /\ \A i \in Len(out) + 1 .. Len(out') :
       /\ out'[i] <= taken
       /\ out'[i] > Newest(SubSeq(out', 1, i - 1))
       /\ ~lossy => out'[i] = i
  /\ UNCHANGED <<taken, lossy>>

(* From here on cells may be missing.                                         *)
Lose == lossy' = TRUE /\ UNCHANGED <<taken, out>>

Next == Take \/ Emit \/ Lose

Spec == Init /\ [][Next]_vars
===============================================================================
