--------------------------------- MODULE MCAal5 --------------------------------
(* An instance of Aal5, and what segmentation and reassembly achieve          *)
(* together, whatever the line loses between them.                            *)
EXTENDS Aal5

(* Whatever cells are lost, a frame that is passed up is one that was sent,   *)
(* with all of its payload in place and the trailer in its last cell, and     *)
(* frames are passed up in the order they were sent.                          *)
FramesIntact ==
  \A i \in DOMAIN pushed :
    LET f == pushed[i] IN
    /\ i > 1 => f.id > pushed[i - 1].id
    /\ f.len = cut[f.id].len
    /\ f.cells[1].first = 0 /\ f.cells[Len(f.cells)].trailer
    /\ \A j \in DOMAIN f.cells :
         /\ f.cells[j].id = f.id
         /\ f.cells[j].first + f.cells[j].n =
              IF j = Len(f.cells) THEN f.len ELSE f.cells[j + 1].first

(* A frame arrives if none of its cells is lost, nor the last cell of the     *)
(* frame before it, and it does not fill the receive buffer: a loss, a frame  *)
(* that is too long or a bad CRC harms no later frame.                        *)
Ended(k) == k < Len(cut) \/ (k = Len(cut) /\ pkt = NoPacket)
GoodFramesArrive ==
  \A k \in DOMAIN cut :
    /\ Ended(k) /\ \A i \in DOMAIN line : line[i].bytes.id # k
    /\ \A j \in DOMAIN cut[k].crc : <<k, j>> \notin lost
    /\ k > 1 => <<k - 1, Len(cut[k - 1].crc)>> \notin lost
    /\ Size(cut[k].crc) < rxEnd
    => \E i \in DOMAIN pushed : pushed[i].id = k
===============================================================================
