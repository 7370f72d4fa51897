-------------------------------- MODULE MCDmaTx --------------------------------
(* Instances of DmaTx and of the pipe it implements, and its properties.      *)
EXTENDS DmaTx

(* Several processors over a line that stays up, and one processor with a     *)
(* link that goes down once and an ARM that refuses a segment once.           *)
MCSettings ==
  {[smp |-> TRUE, max |-> 2, reject |-> 0, fail |-> 1, lost |-> 1, stop |-> 0],
   [smp |-> FALSE, max |-> 1, reject |-> 1, fail |-> 1, lost |-> 1, stop |-> 1]}

(* The link stayed up and the ARM took every segment. *)
Smooth == stops = 0 /\ rejects = 0

TypeOK ==
  /\ state \in {"uninitialized", "enabled", "disabled"}
  /\ next \in Segments /\ cur \in Segments
  /\ seg \in [Segments -> [state : SegState, handle : Segments, count : 0 .. 255,
                           addr : Segments, off : 0 .. Max]]
  /\ mem \in [Segments -> [1 .. Max -> 0 .. Cells]]
  /\ lock \in Handlers \cup {"free"}
  /\ pc \in [Handlers -> {"idle", "lock", "look", "mark", "post", "advance"}]
  /\ \A h \in Handlers : loc[h].ix \in Segments
  /\ timerOn \in BOOLEAN /\ stopPc \in {"no", "stop", "reset"}
  /\ supplied \in 0 .. Cells
  /\ \A i \in DOMAIN hw : hw[i].cmd.op = "start" /\ hw[i].sent < hw[i].cmd.count

(* The commands of the segments handed to the ARM and not yet sent: where     *)
(* they are, and what they say.                                               *)
InFlight == {<<"hw", i>> : i \in DOMAIN hw}
            \cup {<<"armq", i>> : i \in {i \in DOMAIN armq : armq[i].op = "start"}}
CommandOf(p) == IF p[1] = "hw" THEN hw[p[2]].cmd ELSE armq[p[2]]

(* Every segment whose command is with the ARM is marked so, holds the        *)
(* command it was sent with, and was sent only once.                          *)
ArmOwnsSegments ==
  state = "enabled" =>
    /\ \A p \in InFlight : LET c == CommandOf(p) IN
         seg[c.addr].state = "arm" /\ Command(c.addr) = c
    /\ \A p, q \in InFlight : p # q => CommandOf(p).addr # CommandOf(q).addr

(* The segments marked as the ARM's are exactly one window of the ring, from  *)
(* CurrentSegment up to NextSegment, counting the one a data handler has just *)
(* marked or posted and not yet stepped over.                                 *)
At(step)   == \E h \in Handlers : pc[h] = step
RingWindow ==
  state = "enabled" =>
    LET owned == {s \in Segments : seg[s].state = "arm"}
        top   == IF At("advance") THEN After(next) ELSE next
        ring  == {(cur + i) % N : i \in 0 .. ((top - cur) % N) - 1}
    IN IF At("post") THEN owned = ring \cup {next}
       ELSE owned = ring \/ (cur = top /\ owned = Segments)

(* While the channel runs, the data handler can neither refill nor resend a   *)
(* segment under the ARM's hands, and the two counters of the ring, which     *)
(* wrap, and of which the interrupt handler moves one while a data handler    *)
(* moves the other, enclose exactly the segments that are the ARM's.          *)
RingSound == ArmOwnsSegments /\ RingWindow

(* Every cell taken from the protocol stack gets onto the line, unless the    *)
(* link goes down or the ARM rejects a segment.                               *)
EveryCellSent ==
  \A c \in 1 .. Cells : (supplied >= c) ~> (~Smooth \/ \E i \in DOMAIN line : line[i] = c)

(* While the channel is enabled the segment the data handler waits for comes  *)
(* back from the ARM: the ring does not wedge.                                *)
NeverWedged == []<>(state # "enabled" \/ seg[next].state # "arm")

(* Cells reach the line in order and once, and none is lost unless a stop or  *)
(* a rejected segment loses it.                                               *)
Pipe == INSTANCE CellPipe WITH taken <- supplied, out <- line,
                              lossy <- ~Smooth
CellsInOrder == Pipe!Spec
===============================================================================
