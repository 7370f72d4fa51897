-------------------------------- MODULE MCDmaRx --------------------------------
(* Instances of DmaRx and of the pipe it implements, and its properties.      *)
EXTENDS DmaRx

(* Several processors over a line that stays up, and one processor with a     *)
(* link that goes down once and an ARM that refuses a segment once.           *)
MCSettings ==
  {[smp |-> TRUE, max |-> 2, reject |-> 0, fail |-> 0, lost |-> 1, stop |-> 0],
   [smp |-> FALSE, max |-> 1, reject |-> 1, fail |-> 1, lost |-> 0, stop |-> 1]}

TypeOK ==
  /\ state \in {"uninitialized", "enabled", "disabled"}
  /\ next \in Segments /\ cur \in Segments
  /\ seg \in [Segments -> [state : {"ready", "arm"}, count : 0 .. Max]]
  /\ mem \in [Segments -> [1 .. Max -> 0 .. Cells]]
  /\ lock \in Handlers \cup {"free"} /\ ix \in [Handlers -> Segments]
  /\ pc \in [Handlers -> {"idle", "lock", "look", "post", "advance"}]
  /\ stopPc \in {"no", "stop", "reset"}
  /\ taken \in 0 .. Cells
  /\ \A i \in DOMAIN hw : hw[i].cmd.op = "start" /\ hw[i].filled < hw[i].cmd.count

(* The commands of the segments the ARM has not reported on yet: where they   *)
(* are, and what they say.                                                    *)
InFlight == {<<"hw", i>> : i \in DOMAIN hw}
            \cup {<<"armq", i>> : i \in {i \in DOMAIN armq : armq[i].op = "start"}}
CommandOf(p) == IF p[1] = "hw" THEN hw[p[2]].cmd ELSE armq[p[2]]

(* The ARM never holds a segment the host believes to be its own, and no      *)
(* segment is handed out twice.                                               *)
ArmOwnsSegments ==
  state = "enabled" /\ rejects = 0 =>
    /\ \A p \in InFlight : seg[CommandOf(p).addr].state = "arm"
    /\ \A p, q \in InFlight : p # q => CommandOf(p).addr # CommandOf(q).addr

(* The ARM reports segments in the order the host handed them out: what is    *)
(* queued, being filled or reported are consecutive segments of the ring, the *)
(* first of them CurrentSegment unless a report was lost.                     *)
Outstanding == [i \in DOMAIN resp |-> resp[i].handle]
               \o ([i \in DOMAIN hw |-> hw[i].cmd.handle] \o [i \in DOMAIN armq |-> armq[i].handle])
RingOrder ==
  state = "enabled" /\ rejects = 0 =>
    /\ \A i \in 1 .. Len(Outstanding) - 1 : Outstanding[i + 1] = After(Outstanding[i])
    /\ Outstanding # <<>> /\ losses = 0 => Outstanding[1] = cur

(* While the channel runs, no cell is stored into memory that is being passed *)
(* up, and the host finds the segments the ARM has filled where it looks for  *)
(* them next.                                                                 *)
RingSound == ArmOwnsSegments /\ RingOrder

(* Every cell of a segment the ARM has handed over is passed up: it is not    *)
(* left waiting for a DPC that does not come.  Left out are a lost report, a  *)
(* link that goes down, a refused command and a rejected segment.             *)
HandedOver == taken - (IF hw = <<>> THEN 0 ELSE Head(hw).filled)
EveryCellDelivered ==
  \A c \in 1 .. Cells : (HandedOver >= c) ~>
    (losses + stops + fails + rejects > 0 \/ \E i \in DOMAIN out : out[i] = c)

(* The ARM does not run out of segments for good: while the channel is up,    *)
(* it has one to fill, or has no more cells to store.                         *)
NeverStarved == []<>(state # "enabled" \/ hw # <<>> \/ taken = Cells)

(* What is passed up was received: a segment the ARM rejected comes back      *)
(* empty, and so does one the host gives up because its report was lost.      *)
(* Refused commands and stops are left out, after which the code takes the    *)
(* size of a segment for a count of new cells.  Nor is a cell passed up a     *)
(* second time; left out here are rejected segments, too, after which a       *)
(* segment the ARM has again can be taken for one whose report was lost.      *)
OnlyNewCells ==
  fails = 0 /\ stops = 0 =>
    /\ \A i \in DOMAIN out : out[i] \in 1 .. taken
    /\ rejects = 0 => \A i, j \in DOMAIN out : i # j => out[i] # out[j]

(* Cells are passed up in order and once, and all of them unless a lost       *)
(* report loses some; checked where the link stays up and no command is       *)
(* refused or rejected, which is where a count is a count of new cells.       *)
Steady == env.fail = 0 /\ env.stop = 0 /\ env.reject = 0
Pipe   == INSTANCE CellPipe WITH taken <- IF Steady THEN taken ELSE 0,
                                out   <- IF Steady THEN out ELSE <<>>,
                                lossy <- (losses > 0)
CellsInOrder == Pipe!Spec
===============================================================================
