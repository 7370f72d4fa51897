------------------------------- MODULE MCBufMgmt -------------------------------
(* Instances of BufMgmt, and the properties that need sequences.              *)
EXTENDS BufMgmt, SequencesExt

(* A packet goes back to Linux once and a buffer is pushed once: neither is   *)
(* in two queues, or in a queue after it left the driver.  This holds on any  *)
(* number of processors, and whatever happens while the circuit is opened or  *)
(* closed.                                                                    *)
EachBufferOnce ==
  /\ IsInjective(released \o txInuse \o txRdy)
  /\ IsInjective(pushed \o rxInuse \o rxRdy)

(* The cells copied to the transmit channel are, packet after packet, those   *)
(* of each packet in order, the last one alone carrying the end-of-frame bit. *)
(* A packet is followed by the next one only after that cell, unless the      *)
(* circuit was closed and opened again in between: nothing but a close cuts a *)
(* packet short, and no packet goes on after one.                             *)
FramesOnWire ==
  \A i \in DOMAIN wire :
    IF i > 1 /\ wire[i].id = wire[i - 1].id
    THEN /\ wire[i].nr = wire[i - 1].nr + 1
         /\ ~wire[i - 1].auu /\ wire[i - 1].open = wire[i].open
    ELSE /\ wire[i].nr = 1
         /\ i > 1 => /\ wire[i].id > wire[i - 1].id
                     /\ wire[i - 1].auu \/ wire[i - 1].open < wire[i].open

(* While the circuit is open a packet goes back to Linux, to be freed or      *)
(* written again, only after its last cell has been copied.                   *)
ReleasedAfterLastCell ==
  [][released' # released /\ stage = "open" =>
       Last(wire).auu /\ Last(wire).id = Last(released').id]_vars

(* A circuit that has been closed leaves nothing behind: neither context is   *)
(* left, and every packet Linux sent through it has gone back.                *)
ClosedLeavesNothing ==
  stage = "closed" => /\ ~bm /\ ~fal
                      /\ txRdy \o txInuse = <<>> /\ rxRdy \o rxInuse = <<>>
                      /\ Len(released) = Len(accepted)

(* Every packet that BufMgmtSend accepts goes back to Linux some time.        *)
EveryPacketReleased ==
  \A n \in 1 .. Packets : (Len(accepted) >= n) ~> (Len(released) >= n)
===============================================================================
