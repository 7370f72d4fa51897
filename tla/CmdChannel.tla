------------------------------ MODULE CmdChannel ------------------------------
(* What the command path of the driver promises to the layers above it,       *)
(* whatever register, queue and interrupts it is built from: the ARM gets the *)
(* commands that were accepted, each of them once, in the order in which they *)
(* were accepted.  The DMA channels rely on it: the segments they hand over   *)
(* with one command each have to reach the ARM in ring order.                 *)
EXTENDS Integers, Sequences

CONSTANT Cmds     \* the commands

VARIABLES sent,   \* the commands accepted from callers, oldest first
          got     \* the commands the ARM has taken, oldest first

vars == <<sent, got>>

Init == sent = <<>> /\ got = <<>>

(* A caller's command is accepted.                                            *)
Send == \E c \in Cmds : sent' = Append(sent, c) /\ UNCHANGED got

(* The ARM takes the oldest command it does not have yet.                     *)
Deliver ==
  /\ Len(got) < Len(sent)
  /\ got' = Append(got, sent[Len(got) + 1])
  /\ UNCHANGED sent

Next == Send \/ Deliver

Spec == Init /\ [][Next]_vars
===============================================================================
