------------------------------ MODULE DmaTxProofs ------------------------------
(* The transmit ring for every number of segments, cells and handlers: the    *)
(* invariants of MCDmaTx and the pipe it implements.                          *)
EXTENDS MCDmaTx, SequenceTheorems, TLAPS
--------------------------------------------------------------------------------
(* A queue is its head and the rest.                                          *)
LEMMA HeadAndTail ==
  ASSUME NEW S, NEW q \in Seq(S), q # <<>>
  PROVE  /\ Head(q) \in S /\ Tail(q) \in Seq(S) /\ <<Head(q)>> \in Seq(S)
         /\ <<Head(q)>> \o Tail(q) = q
<1>1. Head(q) \in S /\ Tail(q) \in Seq(S)
  OBVIOUS
<1>2. <<Head(q)>> \in Seq(S)
  BY <1>1
<1>3. <<Head(q)>> \o Tail(q) = q
  <2>1. Len(<<Head(q)>> \o Tail(q)) = Len(q)
    OBVIOUS
  <2>2. \A i \in 1 .. Len(q) : (<<Head(q)>> \o Tail(q))[i] = q[i]
    OBVIOUS
  <2>3. <<Head(q)>> \o Tail(q) \in Seq(S)
    BY <1>1, <1>2
  <2>. QED
    BY <2>1, <2>2, <2>3, SeqEqual
<1>. QED
  BY <1>1, <1>2, <1>3

(* Where things are in a queue that lost its head, or got a new last element. *)
LEMMA TailIs ==
  ASSUME NEW S, NEW q \in Seq(S), q # <<>>
  PROVE  /\ \A i \in DOMAIN Tail(q) : i + 1 \in DOMAIN q /\ Tail(q)[i] = q[i + 1] /\ i + 1 > 1
         /\ \A i, j \in DOMAIN Tail(q) : i < j => i + 1 < j + 1
         /\ \A i \in DOMAIN q : i # 1 => i > 1
         /\ Head(q) = q[1] /\ 1 \in DOMAIN q
OBVIOUS

LEMMA AppendIs ==
  ASSUME NEW S, NEW q \in Seq(S), NEW e
  PROVE  /\ \A i \in DOMAIN Append(q, e) :
              \/ i \in DOMAIN q /\ Append(q, e)[i] = q[i]
              \/ i = Len(q) + 1 /\ Append(q, e)[i] = e
         /\ \A i, j \in DOMAIN Append(q, e) : i < j => i \in DOMAIN q
OBVIOUS

(* How many steps s is ahead of c on a ring of n places.                      *)
Ahead(c, s, n) == IF c <= s THEN s - c ELSE s - c + n

(* The modulus of the code counts just that.                                  *)
LEMMA AheadMod ==
  ASSUME NEW n \in Nat, n > 1, NEW c \in 0 .. n - 1, NEW s \in 0 .. n - 1
  PROVE  (s - c) % n = Ahead(c, s, n) /\ Ahead(c, s, n) \in 0 .. n - 1
  BY DEF Ahead

(* The next place of the ring.                                                *)
LEMMA NextMod ==
  ASSUME NEW n \in Nat, n > 1, NEW s \in 0 .. n - 1
  PROVE  (s + 1) % n = (IF s + 1 < n THEN s + 1 ELSE 0) /\ (s + 1) % n \in 0 .. n - 1
  OBVIOUS

(* The k places from c on are those less than k steps ahead of it.            *)
LEMMA RingStretch ==
  ASSUME NEW n \in Nat, n > 1, NEW c \in 0 .. n - 1, NEW k \in 0 .. n
  PROVE  {(c + i) % n : i \in 0 .. k - 1} = {s \in 0 .. n - 1 : Ahead(c, s, n) < k}
<1>1. ASSUME NEW i \in 0 .. k - 1
      PROVE  (c + i) % n \in 0 .. n - 1 /\ Ahead(c, (c + i) % n, n) < k
  <2>1. CASE c + i < n
    <3>1. (c + i) % n = c + i
      BY <2>1
    <3>. QED
      BY <2>1, <3>1 DEF Ahead
  <2>2. CASE c + i >= n
    <3>1. (c + i) % n = c + i - n
      BY <2>2
    <3>. QED
      BY <2>2, <3>1 DEF Ahead
  <2>. QED
    BY <2>1, <2>2
<1>2. ASSUME NEW s \in 0 .. n - 1, Ahead(c, s, n) < k
      PROVE  \E i \in 0 .. k - 1 : s = (c + i) % n
  <2>1. Ahead(c, s, n) \in 0 .. k - 1
    BY <1>2 DEF Ahead
  <2>2. (c + Ahead(c, s, n)) % n = s
    <3>1. CASE c <= s
      BY <3>1 DEF Ahead
    <3>2. CASE c > s
      <4>1. c + Ahead(c, s, n) = s + n
        BY <3>2 DEF Ahead
      <4>. QED
        BY <4>1
    <3>. QED
      BY <3>1, <3>2
  <2>. QED
    BY <2>1, <2>2
<1>. QED
  BY <1>1, <1>2
--------------------------------------------------------------------------------
(* The link never went down, or it does so on one processor and only comes    *)
(* back when the ARM has nothing left: elsewhere what was queued before the   *)
(* reset of the ring is taken for what is queued after it.                    *)
Calm == stops = 0 \/ (~Smp /\ Settle)
-------------------------------------------------------------------------------
(* The inductive invariant: types,                                            *)
Commands    == [op : {"start", "stop", "none"}, handle : Segments, count : 0 .. 255,
                addr : Segments, off : {0}]
Descriptors == [cmd : Commands, sent : 0 .. 255]
Responses   == [kind : {"complete", "full"}, handle : Segments, count : 0 .. 255]
SegRecords  == [state : SegState, handle : Segments, count : 0 .. 255,
                addr : Segments, off : {0}]
ControlType == /\ env \in Settings /\ stops \in Nat
               /\ timerOn \in BOOLEAN /\ stopPc \in {"no", "stop", "reset"}
ChannelType == /\ state \in {"uninitialized", "enabled", "disabled"}
               /\ next \in Segments /\ cur \in Segments
               /\ seg \in [Segments -> SegRecords]
CallerType  == /\ lock \in Handlers \cup {"free"}
               /\ pc \in [Handlers -> {"idle", "lock", "look", "mark", "post", "advance"}]
               /\ loc \in [Handlers -> [ix : Segments, cmd : Commands]]
DataType    == /\ supplied \in 0 .. Cells /\ line \in Seq(0 .. Cells)
               /\ mem \in [Segments -> [1 .. Max -> 0 .. Cells]]
QueueType   == armq \in Seq(Commands) /\ hw \in Seq(Descriptors) /\ resp \in Seq(Responses)
Types == ControlType /\ ChannelType /\ CallerType /\ DataType /\ QueueType

(* what a segment and the command stored with it say,                         *)
SegmentsOK ==
  \A s \in Segments :
    /\ seg[s].addr = s /\ seg[s].count <= Max
    /\ seg[s].state # "ready" => seg[s].handle = s /\ seg[s].count > 0

(* what the commands on their way say; the ARM works on the oldest,           *)
Proper(c) == c.op = "start" => c.handle = c.addr /\ c.count > 0 /\ c.count <= Max
QueuesOK ==
  /\ \A i \in DOMAIN armq : Proper(armq[i]) /\ armq[i].op # "none"
  /\ \A i \in DOMAIN hw : /\ hw[i].cmd.op = "start" /\ Proper(hw[i].cmd)
                          /\ hw[i].sent < hw[i].cmd.count
                          /\ i > 1 => hw[i].sent = 0

(* who holds the lock, and what for,                                          *)
Holding == {"look", "mark", "post", "advance"}
Loading == At("mark") \/ At("post")
CallersOK ==
  /\ \A h \in Handlers : pc[h] \in Holding <=> lock = h
  /\ lock # "free" => loc[lock].ix = next
  /\ Loading => loc[lock].cmd = Command(next) /\ seg[next].handle = next /\ seg[next].count > 0
  /\ At("mark") => seg[next].state # "arm"

(* what the channel is like when it is not enabled, and when it never was,    *)
StopOK ==
  /\ state # "enabled" => \A h \in Handlers : Idle(h)
  /\ stopPc # "no" => state = "disabled"
  /\ stops = 0 => state # "disabled"
  /\ state = "uninitialized" => armq = <<>> /\ hw = <<>> /\ resp = <<>>
  /\ state # "enabled" /\ stopPc = "no" =>
       cur = next /\ \A s \in Segments : seg[s].state = "ready"
  /\ state = "enabled" => \A i \in DOMAIN armq : armq[i].op = "start"

Local == Types /\ SegmentsOK /\ QueuesOK /\ CallersOK /\ StopOK

(* and, while the channel is enabled, the ring: w segments from CurrentSegment *)
(* on are the ARM's, and NextSegment is the one that follows them,             *)
Dist(c, s) == Ahead(c, s, N)
Top == IF At("advance") THEN After(next) ELSE next
Ring(w) ==
  /\ (w < N /\ Dist(cur, Top) = w) \/ (w = N /\ Top = cur)
  /\ At("post") => w < N
  /\ \A s \in Segments :
       seg[s].state = "arm" <=> Dist(cur, s) < w \/ (At("post") /\ s = next)
  /\ \A s \in Segments : seg[s].state = "pending" => s = next /\ ~At("advance") /\ ~At("post")

(* the commands and responses on their way are about those w segments,        *)
Inside(w) ==
  /\ \A i \in DOMAIN armq : Dist(cur, armq[i].addr) < w /\ armq[i] = Command(armq[i].addr)
  /\ \A i \in DOMAIN hw : Dist(cur, hw[i].cmd.addr) < w /\ hw[i].cmd = Command(hw[i].cmd.addr)
  /\ \A i \in DOMAIN resp : Dist(cur, resp[i].handle) < w
                           /\ resp[i].count = seg[resp[i].handle].count

(* and follow each other in the order of the ring.                            *)
Before(a, b) == Dist(cur, a) < Dist(cur, b)
InOrder ==
  /\ \A i, j \in DOMAIN armq : i < j => Before(armq[i].addr, armq[j].addr)
  /\ \A i \in DOMAIN hw :
       /\ \A j \in DOMAIN hw : i < j => Before(hw[i].cmd.addr, hw[j].cmd.addr)
       /\ \A j \in DOMAIN armq : Before(hw[i].cmd.addr, armq[j].addr)
  /\ \A i \in DOMAIN resp : resp[i].kind = "complete" =>
       /\ \A j \in DOMAIN resp : i < j => Before(resp[i].handle, resp[j].handle)
       /\ \A j \in DOMAIN hw : Before(resp[i].handle, hw[j].cmd.addr)
       /\ \A j \in DOMAIN armq : Before(resp[i].handle, armq[j].addr)

RingOK == state = "enabled" => \E w \in 0 .. N : Ring(w) /\ Inside(w) /\ InOrder
-------------------------------------------------------------------------------
(* A response leaves the queue, whatever is done about it.                    *)
Popped == resp # <<>> /\ resp' = Tail(resp)

LEMMA PopType ==
  ASSUME Types, Popped
  PROVE  resp' \in Seq(Responses) /\ Head(resp) \in Responses
  BY HeadAndTail DEF Types, QueueType, Popped

(* The bounds of the numbers of a setting.                                    *)
LEMMA SettingType ==
  ASSUME Types
  PROVE  /\ Max \in 1 .. 255 /\ Smp \in BOOLEAN /\ N \in Nat /\ N > 1 /\ 0 \in Segments
         /\ \A s \in Segments : After(s) \in Segments
<1>1. Max \in 1 .. 255 /\ Smp \in BOOLEAN
  BY TxAssumption DEF Types, ControlType, Max, Smp
<1>2. \A s \in Segments : After(s) \in Segments
  BY TxAssumption, NextMod DEF Segments, After
<1>. QED
  BY <1>1, <1>2, TxAssumption DEF Segments

(* What the first command, and the segment being sent, are.                   *)
LEMMA CommandHead ==
  ASSUME Types, QueuesOK, armq # <<>>
  PROVE  /\ Head(armq) \in Commands /\ Tail(armq) \in Seq(Commands) /\ Head(armq) = armq[1]
         /\ Proper(Head(armq)) /\ 1 \in DOMAIN armq
  BY HeadAndTail DEF Types, QueueType, QueuesOK

LEMMA SegmentHead ==
  ASSUME Types, QueuesOK, hw # <<>>
  PROVE  LET d == Head(hw) IN
         /\ d \in Descriptors /\ Tail(hw) \in Seq(Descriptors) /\ d = hw[1] /\ 1 \in DOMAIN hw
         /\ d.cmd \in Commands /\ d.cmd.op = "start"
         /\ d.cmd.handle = d.cmd.addr /\ d.cmd.addr \in Segments /\ d.cmd.off = 0
         /\ d.cmd.count \in 1 .. Max /\ d.cmd.count \in 0 .. 255
         /\ d.sent \in Nat /\ d.sent + 1 <= d.cmd.count /\ d.sent + 1 \in 1 .. Max
<1> DEFINE d == Head(hw)
<1>1. d \in Descriptors /\ Tail(hw) \in Seq(Descriptors) /\ d = hw[1] /\ 1 \in DOMAIN hw
  BY HeadAndTail DEF Types, QueueType
<1>2. d.cmd.op = "start" /\ Proper(d.cmd) /\ d.sent < d.cmd.count
  BY <1>1 DEF QueuesOK
<1>3. d.cmd \in Commands /\ d.sent \in 0 .. 255
  BY <1>1 DEF Descriptors
<1>4. d.cmd.count \in 0 .. 255 /\ d.cmd.addr \in Segments /\ d.cmd.off = 0
  BY <1>3 DEF Commands
<1>5. d.cmd.handle = d.cmd.addr /\ d.cmd.count > 0 /\ d.cmd.count <= Max
  BY <1>2 DEF Proper
<1>6. Max \in 1 .. 255
  BY SettingType
<1>7. d.cmd.count \in 1 .. Max /\ d.sent \in Nat /\ d.sent + 1 <= d.cmd.count
      /\ d.sent + 1 \in 1 .. Max
  <2> DEFINE n == d.sent
             k == d.cmd.count
  <2>1. n \in 0 .. 255 /\ k \in 0 .. 255 /\ n < k /\ k > 0 /\ k <= Max
    BY <1>2, <1>3, <1>4, <1>5
  <2> HIDE DEF n, k
  <2>2. k \in 1 .. Max /\ n \in Nat /\ n + 1 <= k /\ n + 1 \in 1 .. Max
    BY <1>6, <2>1
  <2>. QED
    BY <2>2 DEF n, k
<1>. QED
  BY <1>1, <1>2, <1>3, <1>4, <1>5, <1>7, Zenon

LEMMA InitLocal == Init => Local
<1> SUFFICES ASSUME Init PROVE Local
  OBVIOUS
<1> USE TxAssumption DEF Init
<1>1. Types
  <2>1. Max \in 1 .. 255 /\ 0 \in Segments /\ NoCommand \in Commands
    BY DEF Max, Segments, NoCommand, Commands
  <2>2. seg \in [Segments -> SegRecords]
    BY <2>1, SMTT(30) DEF NoSegment, SegState, SegRecords
  <2>3. mem \in [Segments -> [1 .. Max -> 0 .. Cells]]
    BY <2>1
  <2>4. pc \in [Handlers -> {"idle", "lock", "look", "mark", "post", "advance"}]
        /\ loc \in [Handlers -> [ix : Segments, cmd : Commands]]
    BY <2>1
  <2>5. armq \in Seq(Commands) /\ hw \in Seq(Descriptors) /\ resp \in Seq(Responses)
        /\ line \in Seq(0 .. Cells)
    OBVIOUS
  <2>6. stops \in Nat /\ supplied \in 0 .. Cells /\ next \in Segments /\ cur \in Segments
    BY <2>1
  <2>. QED
    BY <2>2, <2>3, <2>4, <2>5, <2>6 DEF Types, ControlType, ChannelType, CallerType,
       DataType, QueueType
<1>2. SegmentsOK
  <2>1. Max \in 1 .. 255
    BY DEF Max
  <2>2. ASSUME NEW s \in Segments
        PROVE  seg[s].addr = s /\ seg[s].count = 0 /\ seg[s].state = "ready"
    BY DEF NoSegment
  <2>. HIDE DEF Init
  <2>. QED
    BY <2>1, <2>2 DEF SegmentsOK
<1>3. QueuesOK
  BY DEF QueuesOK
<1>4. CallersOK
  BY DEF CallersOK, Holding, Loading, At
<1>5. StopOK
  BY DEF StopOK, Idle, NoSegment
<1>. QED
  BY <1>1, <1>2, <1>3, <1>4, <1>5 DEF Local
-------------------------------------------------------------------------------
(* How far apart places of the ring are, seen from CurrentSegment.            *)
LEMMA Distances ==
  ASSUME Types
  PROVE  /\ \A c, s \in Segments : Dist(c, s) \in 0 .. N - 1 /\ (Dist(c, s) = 0 <=> s = c)
         /\ \A c, s, r \in Segments : Dist(c, s) = Dist(c, r) => s = r
         /\ \A c, s \in Segments :
              Dist(c, After(s)) = (IF Dist(c, s) + 1 < N THEN Dist(c, s) + 1 ELSE 0)
         /\ \A c, h, s \in Segments :
              Dist(After(h), s) = (IF Dist(c, s) > Dist(c, h) THEN Dist(c, s) - Dist(c, h) - 1
                                   ELSE Dist(c, s) - Dist(c, h) - 1 + N)
<1>1. \A s \in Segments : After(s) = IF s + 1 < N THEN s + 1 ELSE 0
  BY TxAssumption, NextMod DEF Segments, After
<1>. QED
  BY <1>1, TxAssumption DEF Segments, Dist, Ahead

(* The segments the completion handler skips are those of the window before   *)
(* the one that was sent.                                                     *)
LEMMA SkippedIs ==
  ASSUME Types, NEW h \in Segments
  PROVE  Skipped(h) = {s \in Segments : Dist(cur, s) < Dist(cur, h)}
<1>1. cur \in 0 .. N - 1 /\ h \in 0 .. N - 1 /\ N \in Nat /\ N > 1
  BY TxAssumption DEF Types, ChannelType, Segments
<1>2. (h - cur) % N = Ahead(cur, h, N) /\ Ahead(cur, h, N) \in 0 .. N
  BY <1>1, AheadMod
<1>3. {(cur + i) % N : i \in 0 .. Ahead(cur, h, N) - 1}
        = {s \in 0 .. N - 1 : Ahead(cur, s, N) < Ahead(cur, h, N)}
  BY <1>1, <1>2, RingStretch
<1>. QED
  BY <1>2, <1>3 DEF Skipped, Dist, Segments

(* A response that changes nothing but the queue it leaves.                   *)
Discard == Popped /\ UNCHANGED <<chan, mem, caller, ctl, supplied, armq, hw, line, rejects, env>>

(* A completion that is taken: the segments up to the one that was sent are   *)
(* ready again.                                                               *)
Acknowledge ==
  LET h == Head(resp).handle IN
  /\ Popped /\ state = "enabled" /\ Head(resp).kind = "complete"
  /\ seg' = [s \in Segments |-> IF Dist(cur, s) <= Dist(cur, h)
                                  THEN [seg[s] EXCEPT !.state = "ready"] ELSE seg[s]]
  /\ cur' = After(h)
  /\ UNCHANGED <<state, next, mem, caller, ctl, supplied, armq, hw, line, rejects, env>>

(* While the ring is sound there is nothing else to a response: no segment    *)
(* comes back short, and one the ARM refused is left as it is.                *)
LEMMA ResponseSteps ==
  ASSUME Local, RingOK, DmaTxCompleteHandler \/ DmaTxFullHandler \/ LoseAck
  PROVE  Discard \/ Acknowledge
<1> DEFINE r == Head(resp)
           h == r.handle
<1>1. Popped
  BY DEF Popped, DmaTxCompleteHandler, DmaTxFullHandler, LoseAck, Interrupt
<1>2. r \in Responses /\ r = resp[1] /\ h \in Segments /\ Types /\ 1 \in DOMAIN resp
  BY <1>1, PopType DEF Local, Responses, Popped, Types, QueueType
<1>3. CASE LoseAck \/ (state # "enabled" /\ (DmaTxCompleteHandler \/ DmaTxFullHandler))
  BY <1>1, <1>3 DEF LoseAck, DmaTxCompleteHandler, DmaTxFullHandler, Interrupt, Discard
<1>4. ASSUME state = "enabled"
      PROVE  r.count = seg[h].count /\ seg[h].handle = h
  <2>1. PICK w \in 0 .. N : Ring(w) /\ Inside(w)
    BY <1>4 DEF RingOK
  <2>2. Dist(cur, h) < w /\ r.count = seg[h].count
    BY <1>2, <2>1 DEF Inside
  <2>3. seg[h].state = "arm"
    BY <1>2, <2>1, <2>2 DEF Ring
  <2>. QED
    BY <1>2, <2>2, <2>3 DEF Local, SegmentsOK
<1>5. CASE state = "enabled" /\ DmaTxFullHandler
  BY <1>1, <1>4, <1>5 DEF DmaTxFullHandler, Interrupt, Discard
<1>6. CASE state = "enabled" /\ DmaTxCompleteHandler
  <2> DEFINE freed == [s \in Segments |-> IF s \in Skipped(h)
                                     THEN [seg[s] EXCEPT !.state = "ready"] ELSE seg[s]]
  <2>1. seg' = [freed EXCEPT ![h].state = "ready"] /\ cur' = After(h) /\ UNCHANGED <<state, next>>
    BY <1>4, <1>6 DEF DmaTxCompleteHandler
  <2>2. \A s \in Segments : s \in Skipped(h) <=> Dist(cur, s) < Dist(cur, h)
    BY <1>2, SkippedIs
  <2>0. cur \in Segments
    BY <1>2 DEF Types, ChannelType
  <2>3. \A s \in Segments : Dist(cur, s) = Dist(cur, h) <=> s = h
    BY <1>2, <2>0, Distances
  <2>4. \A s \in Segments : Dist(cur, s) \in 0 .. N - 1
    BY <1>2, <2>0, Distances
  <2>5. ASSUME NEW s \in Segments
        PROVE  seg'[s] = IF Dist(cur, s) <= Dist(cur, h)
                         THEN [seg[s] EXCEPT !.state = "ready"] ELSE seg[s]
    <3>1. seg[s] = [seg[s] EXCEPT !.state = seg[s].state]
      BY <1>2 DEF Types, ChannelType, SegRecords
    <3>2. Dist(cur, s) <= Dist(cur, h) <=> s \in Skipped(h) \/ s = h
      BY <1>2, <2>2, <2>3, <2>4
    <3>. QED
      BY <1>2, <2>1, <2>2, <3>2
  <2>6. DOMAIN seg' = Segments /\ seg' = [s \in DOMAIN seg' |-> seg'[s]]
    BY <2>1
  <2>7. seg' = [s \in Segments |-> IF Dist(cur, s) <= Dist(cur, h)
                                    THEN [seg[s] EXCEPT !.state = "ready"] ELSE seg[s]]
    BY <2>5, <2>6
  <2>. QED
    BY <1>1, <1>6, <2>1, <2>7 DEF DmaTxCompleteHandler, Interrupt, Acknowledge
<1>. QED
  BY <1>3, <1>5, <1>6
-------------------------------------------------------------------------------
(* The setting of a run stays.                                                *)
LEMMA SettingStep == [Next]_vars => env' = env /\ Max' = Max /\ Smp' = Smp
<1> SUFFICES ASSUME [Next]_vars PROVE env' = env
  BY DEF Max, Smp
<1>1. ASSUME NEW h \in Handlers, DataHandler(h) PROVE env' = env
  BY <1>1 DEF DataHandler, Enter, Lock, Fill, Resend, Leave, Mark, Post, PostFails, Advance
<1>. QED
  BY <1>1 DEF Next, vars, Enable, Disable, DisableMark, DisableStop, DisableReset, Arm,
     DmaTxCompleteHandler, DmaTxFullHandler, Interrupt, ArmTake, ArmStop, ArmSend, LoseAck

(* A segment record keeps its type when its state changes.                    *)
LEMMA SegRecordState ==
  ASSUME NEW r \in SegRecords, NEW t \in SegState
  PROVE  [r EXCEPT !.state = t] \in SegRecords
  BY DEF SegRecords

LEMMA ControlTypeStep ==
  ASSUME Local, RingOK, [Next]_vars
  PROVE  ControlType'
<1>. USE DEF ControlType
<1>0. ControlType /\ env' = env
  BY SettingStep DEF Local, Types
<1>1. CASE Enable \/ Disable
  <2>1. CASE Enable
    BY <1>0, <2>1 DEF Enable
  <2>2. CASE DisableMark
    <3>1. stops' = stops + 1 /\ stopPc' = "stop" /\ timerOn' \in BOOLEAN
      BY <2>2 DEF DisableMark
    <3>. QED
      BY <1>0, <3>1
  <2>3. CASE DisableStop
    BY <1>0, <2>3 DEF DisableStop
  <2>4. CASE DisableReset
    BY <1>0, <2>4 DEF DisableReset
  <2>. QED
    BY <1>1, <2>1, <2>2, <2>3, <2>4 DEF Disable
<1>2. CASE UNCHANGED ctl
  BY <1>0, <1>2 DEF ctl
<1>3. ASSUME NEW h \in Handlers, DataHandler(h) PROVE UNCHANGED ctl
  BY <1>3 DEF DataHandler, Enter, Lock, Fill, Resend, Leave, Mark, Post, PostFails, Advance
<1>4. CASE Arm \/ DmaTxCompleteHandler \/ DmaTxFullHandler
  BY <1>2, <1>4 DEF Arm, DmaTxCompleteHandler, DmaTxFullHandler, Interrupt,
     ArmTake, ArmStop, ArmSend, LoseAck
<1>. QED
  BY <1>1, <1>2, <1>3, <1>4 DEF Next, vars

LEMMA ChannelTypeStep ==
  ASSUME Local, RingOK, [Next]_vars
  PROVE  ChannelType'
<1>. USE DEF ChannelType
<1>0. ChannelType /\ 0 \in Segments /\ \A s \in Segments : After(s) \in Segments
  BY SettingType DEF Local, Types
<1>1. ASSUME NEW h \in Handlers, NEW k \in 1 .. Max, Fill(h, k) PROVE ChannelType'
  <2> DEFINE s == loc[h].ix
             f == [state |-> "ready", handle |-> next, count |-> k, addr |-> s, off |-> 0]
  <2>1. s \in Segments /\ k \in 0 .. 255
    BY SettingType DEF Local, Types, CallerType
  <2>2. f \in SegRecords
    BY <1>0, <2>1 DEF SegState, SegRecords
  <2>. QED
    BY <1>0, <1>1, <2>1, <2>2 DEF Fill
<1>2. ASSUME NEW h \in Handlers, Mark(h) \/ PostFails(h) PROVE ChannelType'
  <2>1. loc[h].ix \in Segments
    BY DEF Local, Types, CallerType
  <2>2. PICK t \in SegState : seg' = [seg EXCEPT ![loc[h].ix].state = t]
    BY <1>2 DEF Mark, PostFails, SegState
  <2>3. [seg[loc[h].ix] EXCEPT !.state = t] \in SegRecords
    BY <1>0, <2>1, SegRecordState
  <2>. QED
    BY <1>0, <1>2, <2>1, <2>2, <2>3 DEF Mark, PostFails
<1>3. ASSUME NEW h \in Handlers, Advance(h) PROVE ChannelType'
  BY <1>0, <1>3 DEF Advance
<1>4. CASE Enable \/ DisableMark
  BY <1>0, <1>4 DEF Enable, DisableMark
<1>5. CASE DisableReset
  <2>1. \A s \in Segments : [seg[s] EXCEPT !.state = "ready"] \in SegRecords
    BY <1>0, SegRecordState DEF SegState
  <2>. QED
    BY <1>0, <1>5, <2>1 DEF DisableReset
<1>6. CASE Acknowledge
  <2>1. Head(resp).handle \in Segments
    BY <1>6, PopType DEF Acknowledge, Responses, Local
  <2>2. \A s \in Segments : [seg[s] EXCEPT !.state = "ready"] \in SegRecords
    BY <1>0, SegRecordState DEF SegState
  <2>. QED
    BY <1>0, <1>6, <2>1, <2>2 DEF Acknowledge
<1>7. CASE UNCHANGED chan
  BY <1>0, <1>7 DEF chan
<1>8. ASSUME NEW h \in Handlers, Enter(h) \/ Lock(h) \/ Resend(h) \/ Leave(h) \/ Post(h)
      PROVE  UNCHANGED chan
  BY <1>8 DEF Enter, Lock, Resend, Leave, Post
<1>9. CASE DisableStop \/ Arm \/ Discard
  BY <1>7, <1>9 DEF DisableStop, Arm, ArmTake, ArmStop, ArmSend, LoseAck, Discard
<1>. QED
  BY <1>1, <1>2, <1>3, <1>4, <1>5, <1>6, <1>7, <1>8, <1>9, ResponseSteps
  DEF Next, vars, DataHandler, Disable

LEMMA CallerTypeStep ==
  ASSUME Local, RingOK, [Next]_vars
  PROVE  CallerType'
<1>. USE DEF CallerType
<1>0. CallerType /\ next \in Segments /\ 0 \in Segments /\ NoCommand \in Commands
      /\ After(next) \in Segments
  BY SettingType DEF Local, Types, ChannelType, NoCommand, Commands
<1>1. ASSUME NEW h \in Handlers, Enter(h) \/ Mark(h) \/ Post(h) PROVE CallerType'
  BY <1>0, <1>1 DEF Enter, Mark, Post
<1>2. ASSUME NEW h \in Handlers, Lock(h) PROVE CallerType'
  BY <1>0, <1>2 DEF Lock
<1>3. ASSUME NEW h \in Handlers, Unlock(h) PROVE CallerType'
  BY <1>0, <1>3 DEF Unlock
<1>4. ASSUME NEW h \in Handlers, NEW c \in Commands, loc' = [loc EXCEPT ![h].cmd = c],
             pc' = [pc EXCEPT ![h] = "mark"], lock' = lock
      PROVE  CallerType'
  BY <1>0, <1>4
<1>5. ASSUME NEW h \in Handlers, NEW k \in 1 .. Max, Fill(h, k) PROVE CallerType'
  <2> DEFINE c == [op |-> "start", handle |-> next, count |-> k, addr |-> loc[h].ix, off |-> 0]
  <2>1. k \in 0 .. 255
    BY SettingType DEF Local
  <2>2. c \in Commands
    BY <1>0, <2>1 DEF Commands
  <2>3. loc' = [loc EXCEPT ![h].cmd = c] /\ pc' = [pc EXCEPT ![h] = "mark"] /\ lock' = lock
    BY <1>5 DEF Fill
  <2>. QED
    BY <1>4, <2>2, <2>3
<1>6. ASSUME NEW h \in Handlers, Resend(h) PROVE CallerType'
  <2> DEFINE s == loc[h].ix
  <2>1. Command(s) \in Commands
    <3>1. s \in Segments
      BY <1>0
    <3>2. seg[s] \in SegRecords
      BY <3>1 DEF Local, Types, ChannelType
    <3>3. seg[s].handle \in Segments /\ seg[s].addr \in Segments
          /\ seg[s].count \in 0 .. 255 /\ seg[s].off = 0
      BY <3>2 DEF SegRecords
    <3> HIDE DEF s
    <3>. QED
      BY <3>3 DEF Command, Commands
  <2>. QED
    BY <1>4, <1>6, <2>1 DEF Resend
<1>7. ASSUME NEW h \in Handlers, Advance(h) PROVE CallerType'
  <2>1. CASE Unlock(h)
    BY <1>3, <2>1
  <2>2. CASE ~Unlock(h)
    BY <1>0, <1>7, <2>2 DEF Advance
  <2>. QED
    BY <2>1, <2>2
<1>8. CASE UNCHANGED caller
  BY <1>0, <1>8 DEF caller
<1>9. CASE Arm \/ DmaTxCompleteHandler \/ DmaTxFullHandler
  BY <1>8, <1>9 DEF Arm, DmaTxCompleteHandler, DmaTxFullHandler, Interrupt,
     ArmTake, ArmStop, ArmSend, LoseAck
<1>10. CASE Enable \/ Disable
  BY <1>8, <1>10 DEF Enable, Disable, DisableMark, DisableStop, DisableReset
<1>. QED
  BY <1>1, <1>2, <1>3, <1>5, <1>6, <1>7, <1>8, <1>9, <1>10
  DEF Next, vars, DataHandler, Leave, PostFails

LEMMA DataTypeStep ==
  ASSUME Local, RingOK, [Next]_vars
  PROVE  DataType'
<1>. USE DEF DataType
<1>0. DataType /\ Max \in 1 .. 255 /\ Max' = Max
  BY SettingType, SettingStep DEF Local, Types
<1>1. ASSUME NEW h \in Handlers, NEW k \in 1 .. Max, Fill(h, k) PROVE DataType'
  <2> DEFINE s == loc[h].ix
             cells == [i \in 1 .. Max |-> IF i <= k THEN supplied + i ELSE mem[s][i]]
  <2>1. s \in Segments
    BY DEF Local, Types, CallerType
  <2>2. supplied' \in 0 .. Cells /\ \A i \in 1 .. k : supplied + i \in 0 .. Cells
    BY <1>0, <1>1, TxAssumption DEF Fill
  <2>3. cells \in [1 .. Max -> 0 .. Cells]
    <3>1. \A i \in 1 .. Max : mem[s][i] \in 0 .. Cells
      BY <1>0, <2>1
    <3>2. \A i \in 1 .. Max : i <= k => i \in 1 .. k
      BY <1>0
    <3>. QED
      BY <2>2, <3>1, <3>2
  <2>4. mem' = [mem EXCEPT ![s] = cells] /\ line' = line
    BY <1>1 DEF Fill, arm
  <2>. QED
    BY <1>0, <2>1, <2>2, <2>3, <2>4
<1>2. CASE ArmSend
  <2> DEFINE d == Head(hw)
             n == d.sent + 1
  <2>2. d.cmd.addr \in Segments /\ d.cmd.off = 0 /\ n \in 1 .. Max
    BY <1>0, <1>2, SegmentHead DEF ArmSend, Local
  <2> DEFINE c == mem[d.cmd.addr][d.cmd.off + n]
  <2>3. c \in 0 .. Cells
    BY <1>0, <2>2
  <2>4. line' = Append(line, c) /\ mem' = mem /\ supplied' = supplied
    BY <1>2 DEF ArmSend
  <2> HIDE DEF c
  <2>. QED
    BY <1>0, <2>3, <2>4
<1>3. CASE UNCHANGED <<mem, supplied, line>>
  BY <1>0, <1>3
<1>4. ASSUME NEW h \in Handlers,
             Enter(h) \/ Lock(h) \/ Resend(h) \/ Leave(h) \/ Mark(h) \/ Post(h) \/ PostFails(h)
               \/ Advance(h)
      PROVE  DataType'
  BY <1>3, <1>4 DEF Enter, Lock, Resend, Leave, Mark, Post, PostFails, Advance, arm
<1>5. CASE ArmTake \/ ArmStop \/ LoseAck \/ DmaTxCompleteHandler \/ DmaTxFullHandler
  BY <1>3, <1>5 DEF DmaTxCompleteHandler, DmaTxFullHandler, Interrupt, ArmTake, ArmStop, LoseAck
<1>6. CASE Enable \/ Disable
  BY <1>3, <1>6 DEF Enable, Disable, DisableMark, DisableStop, DisableReset, arm
<1>7. CASE UNCHANGED vars
  BY <1>3, <1>7 DEF vars, arm
<1>. QED
  BY <1>1, <1>2, <1>4, <1>5, <1>6, <1>7 DEF Next, DataHandler, Arm

LEMMA QueueTypeStep ==
  ASSUME Local, RingOK, [Next]_vars
  PROVE  QueueType'
<1>. USE DEF QueueType
<1>0. QueueType /\ Types /\ QueuesOK
  BY DEF Local, Types
<1>1. ASSUME NEW h \in Handlers, Post(h) PROVE QueueType'
  <2>1. loc[h].cmd \in Commands
    BY <1>0 DEF Types, CallerType
  <2>. QED
    BY <1>0, <1>1, <2>1 DEF Post
<1>2. CASE DisableStop
  <2>1. StopCmd \in Commands
    BY SettingType DEF Local, StopCmd, Commands
  <2>2. (armq' = Append(armq, StopCmd) \/ armq' = armq) /\ UNCHANGED <<hw, resp>>
    BY <1>2 DEF DisableStop
  <2>3. armq \in Seq(Commands)
    BY <1>0
  <2>4. Append(armq, StopCmd) \in Seq(Commands)
    BY <2>1, <2>3
  <2>. QED
    BY <1>0, <2>2, <2>3, <2>4
<1>3. CASE DmaTxCompleteHandler \/ DmaTxFullHandler \/ LoseAck
  BY <1>0, <1>3, PopType DEF DmaTxCompleteHandler, DmaTxFullHandler, Interrupt, LoseAck, Popped
<1>4. CASE ArmTake
  <2>1. Head(armq) \in Commands /\ Tail(armq) \in Seq(Commands)
    BY <1>0, <1>4, CommandHead DEF ArmTake
  <2>2. [cmd |-> Head(armq), sent |-> 0] \in Descriptors
    BY <2>1 DEF Descriptors
  <2>3. [kind |-> "full", handle |-> Head(armq).handle, count |-> Head(armq).count] \in Responses
    BY <2>1 DEF Commands, Responses
  <2>4. armq' = Tail(armq)
    BY <1>4 DEF ArmTake
  <2>5. \/ hw' = Append(hw, [cmd |-> Head(armq), sent |-> 0]) /\ resp' = resp
        \/ hw' = hw /\ resp' = Append(resp, [kind |-> "full", handle |-> Head(armq).handle,
                                             count |-> Head(armq).count])
    BY <1>4 DEF ArmTake
  <2>6. CASE hw' = Append(hw, [cmd |-> Head(armq), sent |-> 0]) /\ resp' = resp
    BY <1>0, <2>1, <2>2, <2>4, <2>6
  <2>7. CASE hw' = hw /\ resp' = Append(resp, [kind |-> "full", handle |-> Head(armq).handle,
                                              count |-> Head(armq).count])
    BY <1>0, <2>1, <2>3, <2>4, <2>7
  <2>. QED
    BY <2>5, <2>6, <2>7
<1>5. CASE ArmStop
  <2>1. Tail(armq) \in Seq(Commands)
    BY <1>0, <1>5, CommandHead DEF ArmStop
  <2>2. ASSUME hw # <<>>
        PROVE [kind |-> "complete", handle |-> Head(hw).cmd.handle, count |-> Head(hw).sent]
                \in Responses
    <3>1. Head(hw).cmd.handle \in Segments /\ Head(hw) \in Descriptors
      BY <1>0, <2>2, SegmentHead
    <3>. QED
      BY <3>1 DEF Descriptors, Responses
  <2>. QED
    BY <1>0, <1>5, <2>1, <2>2 DEF ArmStop
<1>6. CASE ArmSend
  <2> DEFINE d == Head(hw)
             n == d.sent + 1
  <2>1. d \in Descriptors /\ d = hw[1] /\ Tail(hw) \in Seq(Descriptors)
    BY <1>0, <1>6, SegmentHead DEF ArmSend
  <2>2. n \in 0 .. 255 /\ d.cmd.handle \in Segments
    <3>1. n \in 1 .. Max /\ d.cmd.handle \in Segments
      BY <1>0, <1>6, SegmentHead DEF ArmSend
    <3>2. Max \in 1 .. 255
      BY <1>0, SettingType
    <3>. QED
      BY <3>1, <3>2
  <2>3. [kind |-> "complete", handle |-> d.cmd.handle, count |-> n] \in Responses
    BY <2>2 DEF Responses
  <2>4. [d EXCEPT !.sent = n] \in Descriptors
    BY <2>1, <2>2 DEF Descriptors
  <2>5. [hw EXCEPT ![1].sent = n] \in Seq(Descriptors)
    BY <1>0, <1>6, <2>1, <2>4 DEF ArmSend
  <2>. QED
    <3>1. armq' = armq
      BY <1>6 DEF ArmSend
    <3>2. \/ hw' = [hw EXCEPT ![1].sent = n] /\ resp' = resp
          \/ hw' = Tail(hw) /\ resp' = Append(resp, [kind |-> "complete",
                                                    handle |-> d.cmd.handle, count |-> n])
      BY <1>6 DEF ArmSend
    <3>3. \/ hw' \in Seq(Descriptors) /\ resp' = resp
          \/ hw' \in Seq(Descriptors) /\ resp' \in Seq(Responses)
      <4> DEFINE a == [kind |-> "complete", handle |-> d.cmd.handle, count |-> n]
      <4>1. a \in Responses
        BY <2>3
      <4> HIDE DEF a
      <4>2. Append(resp, a) \in Seq(Responses)
        BY <1>0, <4>1
      <4>. QED
        BY <2>1, <2>5, <3>2, <4>2 DEF a
    <3>. QED
      BY <1>0, <3>1, <3>3
<1>7. CASE UNCHANGED <<armq, hw, resp>>
  BY <1>0, <1>7
<1>8. ASSUME NEW h \in Handlers, NEW k \in 1 .. Max,
             Enter(h) \/ Lock(h) \/ Resend(h) \/ Leave(h) \/ Mark(h) \/ PostFails(h)
               \/ Advance(h) \/ Fill(h, k)
      PROVE  QueueType'
  BY <1>7, <1>8 DEF Enter, Lock, Resend, Leave, Mark, PostFails, Advance, Fill, arm
<1>9. CASE Enable \/ DisableMark \/ DisableReset
  BY <1>7, <1>9 DEF Enable, DisableMark, DisableReset, arm
<1>10. CASE UNCHANGED vars
  BY <1>7, <1>10 DEF vars, arm
<1>11. 1 \in 1 .. Max
  BY SettingType DEF Local
<1>. QED
  BY <1>1, <1>2, <1>3, <1>4, <1>5, <1>6, <1>8, <1>9, <1>10, <1>11
  DEF Next, DataHandler, Disable, Arm
-------------------------------------------------------------------------------
(* The handler that is in the locked part of DmaTxDataHandler: it alone is,   *)
(* and it works on NextSegment.                                               *)
LEMMA Holder ==
  ASSUME Local, NEW h \in Handlers, pc[h] \in Holding
  PROVE  /\ lock = h /\ lock # "free" /\ loc[h].ix = next
         /\ \A g \in Handlers : pc[g] \in Holding => g = h
         /\ \A step \in Holding : At(step) <=> pc[h] = step
         /\ pc[h] \in {"mark", "post"} =>
              loc[h].cmd = Command(next) /\ seg[next].handle = next /\ seg[next].count > 0
         /\ pc[h] = "mark" => seg[next].state # "arm"
<1>1. lock = h /\ lock # "free" /\ \A g \in Handlers : pc[g] \in Holding => g = h
  BY TxAssumption DEF Local, CallersOK
<1>2. \A step \in Holding : At(step) <=> pc[h] = step
  BY <1>1 DEF At
<1>3. pc[h] \in {"mark", "post"} => Loading
  BY DEF Loading, At
<1>. QED
  BY <1>1, <1>2, <1>3 DEF Local, CallersOK, At

(* Nobody is, while the lock is free.                                         *)
LEMMA NoHolder ==
  ASSUME Local, lock = "free"
  PROVE  /\ \A g \in Handlers : pc[g] \notin Holding
         /\ \A step \in Holding : ~At(step)
<1>1. \A g \in Handlers : pc[g] \notin Holding
  BY TxAssumption DEF Local, CallersOK
<1>. QED
  BY <1>1 DEF At

(* Where the handlers are after a step of one of them.                        *)
LEMMA AtStep ==
  ASSUME Local, NEW h \in Handlers, pc[h] \in Holding \/ lock = "free",
         NEW x, pc' = [pc EXCEPT ![h] = x]
  PROVE  /\ \A step \in Holding : At(step)' <=> x = step
         /\ \A g \in Handlers : pc'[g] \in Holding <=> g = h /\ x \in Holding
<1>1. \A g \in Handlers : pc[g] \in Holding => g = h
  BY Holder, NoHolder
<1>2. pc'[h] = x /\ \A g \in Handlers : g # h => pc'[g] = pc[g]
  BY DEF Local, Types, CallerType
<1>3. \A step \in Holding : (\E g \in Handlers : pc'[g] = step) <=> x = step
  BY <1>1, <1>2
<1>. QED
  BY <1>1, <1>2, <1>3 DEF At

(* The handlers are idle when the channel is not enabled.                     *)
LEMMA DownIsIdle ==
  ASSUME Local, state # "enabled"
  PROVE  lock = "free" /\ \A h \in Handlers : pc[h] = "idle" /\ pc[h] \notin Holding
<1>1. \A h \in Handlers : pc[h] = "idle"
  BY DEF Local, StopOK, Idle
<1>2. \A h \in Handlers : pc[h] \notin Holding
  BY <1>1 DEF Holding
<1>3. lock \notin Handlers
  BY <1>2 DEF Local, CallersOK
<1>. QED
  BY <1>1, <1>2, <1>3 DEF Local, Types, CallerType

(* Steps that leave the segments, or the locked part of the handlers, alone.  *)
LEMMA SegmentsSame ==
  ASSUME [Next]_vars
  PROVE  \/ \E h \in Handlers : Mark(h) \/ PostFails(h) \/ \E k \in 1 .. Max : Fill(h, k)
         \/ DisableReset \/ DmaTxCompleteHandler \/ DmaTxFullHandler \/ seg' = seg
<1>1. ASSUME NEW h \in Handlers, Enter(h) \/ Lock(h) \/ Resend(h) \/ Leave(h) \/ Post(h) \/ Advance(h)
      PROVE  seg' = seg
  BY <1>1 DEF Enter, Lock, Resend, Leave, Post, Advance, chan
<1>2. CASE Enable \/ DisableMark \/ DisableStop \/ Arm
  BY <1>2 DEF Enable, DisableMark, DisableStop, Arm, ArmTake, ArmStop, ArmSend, LoseAck, chan
<1>3. CASE UNCHANGED vars
  BY <1>3 DEF vars, chan
<1>. QED
  BY <1>1, <1>2, <1>3 DEF Next, DataHandler, Disable

LEMMA SegmentsStep ==
  ASSUME Local, RingOK, [Next]_vars
  PROVE  SegmentsOK'
<1>0. SegmentsOK /\ Max' = Max /\ Max \in 1 .. 255 /\ next \in Segments
      /\ seg \in [Segments -> SegRecords]
  BY SettingStep, SettingType DEF Local, Types, ChannelType
<1>1. ASSUME NEW h \in Handlers, Mark(h) \/ PostFails(h) PROVE SegmentsOK'
  <2>1. pc[h] \in Holding /\ pc[h] \in {"mark", "post"}
    BY <1>1 DEF Mark, PostFails, Holding
  <2>2. loc[h].ix = next /\ seg[next].handle = next /\ seg[next].count > 0
    BY <2>1, Holder
  <2>3. PICK t : seg' = [seg EXCEPT ![next].state = t]
    BY <1>1, <2>2 DEF Mark, PostFails
  <2>4. \A s \in Segments : /\ seg'[s].addr = seg[s].addr /\ seg'[s].count = seg[s].count
                            /\ seg'[s].handle = seg[s].handle
                            /\ s # next => seg'[s].state = seg[s].state
    BY <1>0, <2>3 DEF SegRecords
  <2>. QED
    BY <1>0, <2>2, <2>4 DEF SegmentsOK
<1>2. ASSUME NEW h \in Handlers, NEW k \in 1 .. Max, Fill(h, k) PROVE SegmentsOK'
  <2>1. loc[h].ix = next
    BY <1>2, Holder DEF Fill, Holding
  <2>2. seg' = [seg EXCEPT ![next] = [state |-> "ready", handle |-> next,
                                     count |-> k, addr |-> next, off |-> 0]]
    BY <1>2, <2>1 DEF Fill
  <2>. QED
    BY <1>0, <2>2 DEF SegmentsOK
<1>3. CASE DisableReset \/ Acknowledge
  <2>1. \A s \in Segments : /\ seg'[s].addr = seg[s].addr /\ seg'[s].count = seg[s].count
                            /\ seg'[s].handle = seg[s].handle
                            /\ seg'[s].state \in {"ready", seg[s].state}
    BY <1>0, <1>3 DEF DisableReset, Acknowledge, SegRecords
  <2>. QED
    BY <1>0, <2>1 DEF SegmentsOK
<1>4. CASE seg' = seg
  BY <1>0, <1>4 DEF SegmentsOK
<1>. QED
  BY <1>1, <1>2, <1>3, <1>4, SegmentsSame, ResponseSteps DEF Discard, chan

LEMMA QueuesStep ==
  ASSUME Local, RingOK, [Next]_vars
  PROVE  QueuesOK'
<1>0. QueuesOK /\ Max' = Max /\ QueueType /\ Types
  BY SettingStep DEF Local, Types
<1>. USE DEF QueueType
<1>1. ASSUME NEW h \in Handlers, Post(h) PROVE QueuesOK'
  <2>1. loc[h].cmd = Command(next) /\ seg[next].handle = next /\ seg[next].count > 0
    BY <1>1, Holder DEF Post, Holding
  <2>2. seg[next].addr = next /\ seg[next].count <= Max
    BY DEF Local, Types, ChannelType, SegmentsOK
  <2>3. Proper(loc[h].cmd) /\ loc[h].cmd.op # "none" /\ loc[h].cmd \in Commands
    BY <1>0, <2>1, <2>2 DEF Proper, Command, Types, CallerType
  <2>4. armq' = Append(armq, loc[h].cmd) /\ hw' = hw
    BY <1>1 DEF Post
  <2> DEFINE c == loc[h].cmd
  <2>5. Proper(c) /\ c.op # "none" /\ c \in Commands /\ armq' = Append(armq, c)
    BY <2>3, <2>4
  <2> HIDE DEF c
  <2>. QED
    BY <1>0, <2>4, <2>5 DEF QueuesOK, Proper
<1>2. CASE DisableStop
  <2>1. (armq' = Append(armq, StopCmd) \/ armq' = armq) /\ hw' = hw
    BY <1>2 DEF DisableStop
  <2>2. Proper(StopCmd) /\ StopCmd \in Commands /\ StopCmd.op # "none"
    BY SettingType DEF StopCmd, Commands, Proper, Local
  <2>. QED
    BY <1>0, <2>1, <2>2 DEF QueuesOK, Proper
<1>3. CASE ArmTake
  <2> DEFINE c == Head(armq)
             d == [cmd |-> c, sent |-> 0]
  <2>1. c \in Commands /\ Tail(armq) \in Seq(Commands) /\ Proper(c) /\ c.op = "start"
        /\ armq # <<>>
    BY <1>0, <1>3, CommandHead DEF ArmTake
  <2>2. armq' = Tail(armq) /\ (hw' = Append(hw, d) \/ hw' = hw)
    BY <1>3 DEF ArmTake
  <2>3. d \in Descriptors /\ d.cmd = c /\ d.sent = 0 /\ c.count > 0
    BY <2>1 DEF Descriptors, Proper
  <2>4. \A i \in DOMAIN armq' : Proper(armq'[i]) /\ armq'[i].op # "none"
    BY <1>0, <2>1, <2>2 DEF QueuesOK
  <2>5. \A i \in DOMAIN hw' :
          hw'[i].cmd.op = "start" /\ Proper(hw'[i].cmd) /\ hw'[i].sent < hw'[i].cmd.count
          /\ (i > 1 => hw'[i].sent = 0)
    <3>1. CASE hw' = hw
      BY <1>0, <3>1 DEF QueuesOK
    <3>2. CASE hw' = Append(hw, d)
      <4> HIDE DEF d
      <4>1. \A i \in DOMAIN hw' : (i \in DOMAIN hw /\ hw'[i] = hw[i]) \/ hw'[i] = d
        BY <1>0, <2>3, <3>2
      <4>. QED
        BY <1>0, <2>1, <2>3, <4>1 DEF QueuesOK
    <3>. QED
      BY <2>2, <3>1, <3>2
  <2>. QED
    BY <1>0, <2>4, <2>5 DEF QueuesOK, Proper
<1>4. CASE ArmStop
  <2>1. armq' = Tail(armq) /\ hw' = <<>> /\ armq # <<>>
    BY <1>4 DEF ArmStop
  <2>2. \A i \in DOMAIN armq' : Proper(armq'[i]) /\ armq'[i].op # "none"
    BY <1>0, <2>1 DEF QueuesOK
  <2>. QED
    BY <1>0, <2>1, <2>2 DEF QueuesOK, Proper
<1>5. CASE ArmSend
  <2> DEFINE d == Head(hw)
             n == d.sent + 1
  <2>1. d = hw[1] /\ d \in Descriptors /\ d.sent \in Nat /\ hw # <<>> /\ armq' = armq
    BY <1>0, <1>5, SegmentHead DEF ArmSend
  <2>2. (n < d.cmd.count /\ hw' = [hw EXCEPT ![1].sent = n]) \/ hw' = Tail(hw)
    BY <1>5 DEF ArmSend
  <2>3. CASE hw' = Tail(hw)
    <3>1. \A i \in DOMAIN hw' : i + 1 \in DOMAIN hw /\ hw'[i] = hw[i + 1] /\ i + 1 > 1
      BY <1>0, <2>1, <2>3
    <3>. QED
      BY <1>0, <2>1, <3>1 DEF QueuesOK, Proper
  <2>4. CASE n < d.cmd.count /\ hw' = [hw EXCEPT ![1].sent = n]
    <3>1. DOMAIN hw' = DOMAIN hw /\ \A i \in DOMAIN hw : i # 1 => hw'[i] = hw[i]
      BY <1>0, <2>4
    <3>2. hw'[1].cmd = d.cmd /\ hw'[1].sent = n
      BY <1>0, <2>1, <2>4 DEF Descriptors
    <3>. QED
      BY <1>0, <2>1, <2>4, <3>1, <3>2 DEF QueuesOK, Proper
  <2>. QED
    BY <2>2, <2>3, <2>4
<1>6. CASE UNCHANGED <<armq, hw>>
  BY <1>0, <1>6 DEF QueuesOK, Proper
<1>7. ASSUME NEW h \in Handlers, NEW k \in 1 .. Max,
             Enter(h) \/ Lock(h) \/ Resend(h) \/ Leave(h) \/ Mark(h) \/ PostFails(h)
               \/ Advance(h) \/ Fill(h, k)
      PROVE  QueuesOK'
  BY <1>6, <1>7 DEF Enter, Lock, Resend, Leave, Mark, PostFails, Advance, Fill, arm
<1>8. CASE Enable \/ DisableMark \/ DisableReset
  BY <1>6, <1>8 DEF Enable, DisableMark, DisableReset, arm
<1>11. CASE UNCHANGED vars
  BY <1>6, <1>11 DEF arm, vars
<1>9. CASE DmaTxCompleteHandler \/ DmaTxFullHandler \/ LoseAck
  BY <1>6, <1>9 DEF DmaTxCompleteHandler, DmaTxFullHandler, Interrupt, LoseAck
<1>10. 1 \in 1 .. Max
  <2>1. Max \in 1 .. 255
    BY <1>0, SettingType
  <2>. QED
    BY <2>1
<1>. QED
  BY <1>1, <1>2, <1>3, <1>4, <1>5, <1>7, <1>8, <1>9, <1>10, <1>11
  DEF Next, DataHandler, Disable, Arm

LEMMA CallersStep ==
  ASSUME Local, RingOK, [Next]_vars
  PROVE  CallersOK'
<1>0. CallersOK /\ CallerType /\ ChannelType /\ "free" \notin Handlers
  BY TxAssumption DEF Local, Types
<1>1. ASSUME NEW h \in Handlers, Enter(h) PROVE CallersOK'
  <2>1. lock = "free" /\ lock' = lock /\ pc' = [pc EXCEPT ![h] = "lock"]
    BY <1>1 DEF Enter
  <2>2. \A step \in Holding : ~At(step)'
    BY <2>1, AtStep DEF Holding
  <2>3. \A g \in Handlers : pc'[g] \notin Holding
    BY <2>1, AtStep DEF Holding
  <2>. QED
    BY <1>0, <2>1, <2>2, <2>3 DEF CallersOK, Loading, Holding
<1>2. ASSUME NEW h \in Handlers, Lock(h) PROVE CallersOK'
  <2>1. lock = "free" /\ lock' = h /\ pc' = [pc EXCEPT ![h] = "look"]
        /\ loc' = [loc EXCEPT ![h].ix = next] /\ next' = next
    BY <1>2 DEF Lock, chan
  <2>2. ~At("mark")' /\ ~At("post")'
    BY <2>1, AtStep DEF Holding
  <2>3. \A g \in Handlers : pc'[g] \in Holding <=> g = h
    BY <2>1, AtStep DEF Holding
  <2>4. loc'[h].ix = next
    BY <1>0, <2>1 DEF CallerType
  <2>. QED
    BY <1>0, <2>1, <2>2, <2>3, <2>4 DEF CallersOK, Loading
<1>3. ASSUME NEW h \in Handlers, pc[h] \in Holding, Unlock(h) PROVE CallersOK'
  <2>1. lock' = "free" /\ pc' = [pc EXCEPT ![h] = "idle"]
    BY <1>3 DEF Unlock
  <2>2. ~At("mark")' /\ ~At("post")'
    BY <1>3, <2>1, AtStep DEF Holding
  <2>3. \A g \in Handlers : pc'[g] \notin Holding
    BY <1>3, <2>1, AtStep DEF Holding
  <2>. QED
    BY <1>0, <2>1, <2>2, <2>3 DEF CallersOK, Loading
<1>4. ASSUME NEW h \in Handlers, NEW k \in 1 .. Max, Fill(h, k) PROVE CallersOK'
  <2>1. pc[h] \in Holding /\ pc' = [pc EXCEPT ![h] = "mark"] /\ lock' = lock /\ next' = next
    BY <1>4 DEF Fill, Holding
  <2>2. lock = h /\ loc[h].ix = next
    BY <2>1, Holder
  <2>3. seg' = [seg EXCEPT ![next] = [state |-> "ready", handle |-> next,
                                     count |-> k, addr |-> next, off |-> 0]]
        /\ loc' = [loc EXCEPT ![h].cmd = [op |-> "start", handle |-> next,
                                         count |-> k, addr |-> next, off |-> 0]]
    BY <1>4, <2>2 DEF Fill
  <2>4. loc'[h].ix = next /\ loc'[h].cmd = Command(next)' /\ seg'[next].handle = next
        /\ seg'[next].count > 0 /\ seg'[next].state = "ready"
    BY <1>0, <2>1, <2>2, <2>3, SettingType DEF Local, ChannelType, CallerType, Command
  <2>5. \A g \in Handlers : pc'[g] \in Holding <=> g = h
    BY <2>1, AtStep DEF Holding
  <2>. QED
    BY <2>1, <2>2, <2>4, <2>5 DEF CallersOK
<1>5. ASSUME NEW h \in Handlers, Resend(h) PROVE CallersOK'
  <2>1. pc[h] \in Holding /\ pc' = [pc EXCEPT ![h] = "mark"] /\ lock' = lock
        /\ next' = next /\ seg' = seg
    BY <1>5 DEF Resend, Holding, chan
  <2>2. lock = h /\ loc[h].ix = next
    BY <2>1, Holder
  <2>3. loc' = [loc EXCEPT ![h].cmd = Command(next)] /\ seg[next].state = "pending"
    BY <1>5, <2>2 DEF Resend
  <2>4. loc'[h].ix = next /\ loc'[h].cmd = Command(next)' /\ seg[next].handle = next
        /\ seg[next].count > 0
    BY <1>0, <2>1, <2>2, <2>3 DEF Local, ChannelType, CallerType, Command, SegmentsOK
  <2>5. \A g \in Handlers : pc'[g] \in Holding <=> g = h
    BY <2>1, AtStep DEF Holding
  <2>. QED
    BY <2>1, <2>2, <2>3, <2>4, <2>5 DEF CallersOK
<1>6. ASSUME NEW h \in Handlers, Mark(h) \/ Post(h) PROVE CallersOK'
  <2>1. pc[h] \in {"mark", "post"} /\ lock' = lock /\ next' = next /\ loc' = loc
    BY <1>6 DEF Mark, Post, chan
  <2>2. lock = h /\ loc[h].ix = next /\ loc[h].cmd = Command(next) /\ seg[next].handle = next
        /\ seg[next].count > 0
    BY <2>1, Holder DEF Holding
  <2>3. PICK x \in {"post", "advance"} : pc' = [pc EXCEPT ![h] = x]
    BY <1>6 DEF Mark, Post
  <2>4. ~At("mark")' /\ \A g \in Handlers : pc'[g] \in Holding <=> g = h
    BY <2>1, <2>3, AtStep DEF Holding
  <2>5. Command(next)' = Command(next) /\ seg'[next].handle = next /\ seg'[next].count > 0
    <3>1. seg' = seg \/ seg' = [seg EXCEPT ![next].state = "arm"]
      BY <1>6, <2>2 DEF Mark, Post, chan
    <3>2. /\ seg'[next].handle = seg[next].handle /\ seg'[next].count = seg[next].count
          /\ seg'[next].addr = seg[next].addr /\ seg'[next].off = seg[next].off
      BY <1>0, <3>1 DEF ChannelType, SegRecords
    <3>. QED
      BY <2>1, <2>2, <3>2 DEF Command
  <2>. QED
    BY <2>1, <2>2, <2>4, <2>5 DEF CallersOK
<1>7. ASSUME NEW h \in Handlers, Advance(h) PROVE CallersOK'
  <2>1. pc[h] \in Holding
    BY <1>7 DEF Advance, Holding
  <2>2. CASE Unlock(h)
    BY <1>3, <2>1, <2>2
  <2>3. CASE ~Unlock(h)
    <3>1. pc' = [pc EXCEPT ![h] = "look"] /\ loc' = [loc EXCEPT ![h].ix = After(next)]
          /\ lock' = lock /\ next' = After(next)
      BY <1>7, <2>3 DEF Advance
    <3>2. ~At("mark")' /\ ~At("post")' /\ \A g \in Handlers : pc'[g] \in Holding <=> g = h
      BY <2>1, <3>1, AtStep DEF Holding
    <3>3. lock = h /\ loc'[h].ix = next'
      BY <1>0, <2>1, <3>1, Holder DEF CallerType
    <3>. QED
      BY <3>1, <3>2, <3>3 DEF CallersOK, Loading
  <2>. QED
    BY <2>2, <2>3
<1>8. CASE Disable \/ Enable
  <2>1. CASE lock = "free"
    <3>1. UNCHANGED <<pc, lock>>
      BY <1>8 DEF Disable, Enable, DisableMark, DisableStop, DisableReset, caller
    <3>2. \A step \in Holding : ~At(step)'
      BY <2>1, <3>1, NoHolder DEF At
    <3>. QED
      BY <1>0, <2>1, <3>1, <3>2 DEF CallersOK, Loading, Holding
  <2>2. CASE lock # "free"
    <3>1. state = "enabled"
      BY <2>2, DownIsIdle
    <3>2. DisableMark
      BY <1>8, <3>1 DEF Disable, Enable, DisableStop, DisableReset, Local, StopOK
    <3>. QED
      BY <1>0, <3>2 DEF DisableMark, CallersOK, Loading, At, Command, caller
  <2>. QED
    BY <2>1, <2>2
<1>9. CASE Acknowledge
  <2>1. UNCHANGED <<pc, lock, loc, next>>
    BY <1>9 DEF Acknowledge, caller
  <2>2. /\ seg'[next].handle = seg[next].handle /\ seg'[next].count = seg[next].count
        /\ seg'[next].addr = seg[next].addr /\ seg'[next].off = seg[next].off
        /\ seg'[next].state \in {"ready", seg[next].state}
    BY <1>0, <1>9 DEF Acknowledge, ChannelType, SegRecords
  <2>3. Command(next)' = Command(next)
    BY <2>1, <2>2 DEF Command
  <2>. QED
    BY <1>0, <2>1, <2>2, <2>3 DEF CallersOK, Loading, At
<1>10. CASE UNCHANGED <<chan, caller>>
  BY <1>0, <1>10 DEF CallersOK, Loading, At, Command, chan, caller
<1>11. CASE Arm \/ Discard
  BY <1>10, <1>11 DEF Arm, ArmTake, ArmStop, ArmSend, LoseAck, Discard
<1>12. CASE UNCHANGED vars
  BY <1>10, <1>12 DEF vars
<1>13. ASSUME NEW h \in Handlers, Leave(h) \/ PostFails(h) PROVE CallersOK'
  BY <1>3, <1>13 DEF Leave, PostFails, Holding
<1>. QED
  BY <1>1, <1>2, <1>4, <1>5, <1>6, <1>7, <1>8, <1>9, <1>11, <1>12, <1>13, ResponseSteps
  DEF Next, DataHandler

LEMMA StopStep ==
  ASSUME Local, RingOK, [Next]_vars, Calm'
  PROVE  StopOK'
<1>0. StopOK /\ Types /\ stops \in Nat /\ Smp' = Smp /\ QueueType
  BY SettingStep DEF Local, Types, ControlType
<1>. USE DEF QueueType
<1>1. ASSUME NEW h \in Handlers, DataHandler(h) PROVE StopOK'
  <2>1. state = "enabled" /\ UNCHANGED <<state, stopPc, stops>>
    <3>1. CASE Enter(h)
      BY <3>1 DEF Enter, chan, ctl
    <3>2. CASE ~Enter(h)
      <4>1. pc[h] # "idle"
        BY <1>1, <3>2 DEF DataHandler, Lock, Fill, Resend, Leave, Mark, Post, PostFails, Advance
      <4>2. state = "enabled"
        BY <4>1, DownIsIdle
      <4>. QED
        BY <1>1, <4>2 DEF DataHandler, Enter, Lock, Fill, Resend, Leave, Mark, Post, PostFails,
           Advance, chan, ctl
    <3>. QED
      BY <3>1, <3>2
  <2>2. CASE Post(h)
    <3>1. loc[h].cmd.op = "start" /\ armq' = Append(armq, loc[h].cmd)
      BY <2>2, Holder DEF Post, Holding, Command
    <3>2. loc[h].cmd \in Commands
      BY <1>0 DEF Types, CallerType
    <3>. QED
      BY <1>0, <2>1, <3>1, <3>2 DEF StopOK, Types
  <2>3. CASE ~Post(h)
    <3>1. armq' = armq
      BY <1>1, <2>3 DEF DataHandler, Enter, Lock, Fill, Resend, Leave, Mark, PostFails, Advance, arm
    <3>. QED
      BY <1>0, <2>1, <3>1 DEF StopOK
  <2>. QED
    BY <2>2, <2>3
<1>2. CASE Enable
  <2>1. state' = "enabled" /\ UNCHANGED <<stopPc, stops, armq>> /\ state # "enabled" /\ stopPc = "no"
    BY <1>2 DEF Enable, arm
  <2>2. armq = <<>>
    <3>1. CASE stops = 0
      BY <1>0, <2>1, <3>1 DEF StopOK, Types, ChannelType
    <3>2. CASE stops # 0
      BY <1>2, <2>1, <3>2 DEF Calm, Enable
    <3>. QED
      BY <3>1, <3>2
  <2>. QED
    BY <1>0, <2>1, <2>2 DEF StopOK
<1>3. CASE DisableMark
  <2>1. state' = "disabled" /\ stopPc' = "stop" /\ stops' = stops + 1 /\ pc' = pc
    BY <1>3 DEF DisableMark, caller
  <2>2. ~Smp
    BY <1>0, <2>1 DEF Calm
  <2>3. \A h \in Handlers : Idle(h)
    BY <1>3, <2>2 DEF DisableMark, Quiet
  <2>. QED
    BY <1>0, <2>1, <2>3 DEF StopOK, Idle
<1>4. CASE DisableStop
  <2>1. state = "disabled" /\ stopPc' = "reset" /\ UNCHANGED <<state, pc, stops>>
    BY <1>0, <1>4 DEF DisableStop, StopOK, chan, caller
  <2>. QED
    BY <1>0, <2>1 DEF StopOK, Idle
<1>5. CASE DisableReset
  <2>1. state = "disabled" /\ next' = 0 /\ cur' = 0 /\ stopPc' = "no" /\ UNCHANGED <<state, pc, stops>>
    BY <1>0, <1>5 DEF DisableReset, StopOK, caller
  <2>2. \A s \in Segments : seg'[s].state = "ready"
    BY <1>0, <1>5 DEF DisableReset, Types, ChannelType, SegRecords
  <2>. QED
    BY <1>0, <2>1, <2>2 DEF StopOK, Idle
<1>6. CASE Acknowledge
  <2>1. state = "enabled" /\ UNCHANGED <<state, stopPc, stops, armq>>
    BY <1>6 DEF Acknowledge, ctl
  <2>. QED
    BY <1>0, <2>1 DEF StopOK
<1>7. CASE Discard
  <2>1. UNCHANGED <<state, next, cur, seg, pc, stopPc, stops, armq, hw>> /\ resp # <<>>
    BY <1>7 DEF Discard, ctl, chan, caller, Popped
  <2>. QED
    BY <1>0, <2>1 DEF StopOK, Idle
<1>8. CASE ArmTake \/ ArmStop
  <2>1. UNCHANGED <<state, next, cur, seg, pc, stopPc, stops>> /\ armq # <<>> /\ armq' = Tail(armq)
    BY <1>8 DEF ArmTake, ArmStop, ctl, chan, caller
  <2>2. \A i \in DOMAIN armq' : i + 1 \in DOMAIN armq /\ armq'[i] = armq[i + 1]
    BY <1>0, <2>1
  <2>. QED
    BY <1>0, <2>1, <2>2 DEF StopOK, Idle
<1>9. CASE ArmSend
  <2>1. UNCHANGED <<state, next, cur, seg, pc, stopPc, stops, armq>> /\ hw # <<>>
    BY <1>9 DEF ArmSend, ctl, chan, caller
  <2>. QED
    BY <1>0, <2>1 DEF StopOK, Idle
<1>10. CASE UNCHANGED vars
  BY <1>0, <1>10 DEF vars, chan, caller, ctl, arm, StopOK, Idle
<1>. QED
  BY <1>1, <1>2, <1>3, <1>4, <1>5, <1>6, <1>7, <1>8, <1>9, <1>10, ResponseSteps
  DEF Next, Disable, Arm

LEMMA LocalStep ==
  ASSUME Local, RingOK, [Next]_vars, Calm'
  PROVE  Local'
BY ControlTypeStep, ChannelTypeStep, CallerTypeStep, DataTypeStep, QueueTypeStep, SegmentsStep,
   QueuesStep, CallersStep, StopStep DEF Local, Types
-------------------------------------------------------------------------------
(* The ring does not change when neither its indices nor the states of its    *)
(* segments do.                                                               *)
LEMMA RingSame ==
  ASSUME NEW w, Ring(w), cur' = cur, Top' = Top, At("post")' <=> At("post"),
         At("advance")' <=> At("advance"), next' = next,
         \A s \in Segments : seg'[s].state = seg[s].state
  PROVE  Ring(w)'
BY DEF Ring

(* Nor do the queues' places in it when they are left alone.                  *)
LEMMA QueuesSame ==
  ASSUME NEW w, Inside(w), InOrder, cur' = cur, UNCHANGED <<armq, hw, resp>>, seg' = seg
  PROVE  Inside(w)' /\ InOrder'
BY DEF Inside, InOrder, Command, Before

(* The queues speak of segments.                                              *)
LEMMA QueueElements ==
  ASSUME Local
  PROVE  /\ \A i \in DOMAIN armq : armq[i] \in Commands /\ armq[i].addr \in Segments
         /\ \A i \in DOMAIN hw : hw[i] \in Descriptors /\ hw[i].cmd.addr \in Segments
         /\ \A i \in DOMAIN resp : resp[i] \in Responses /\ resp[i].handle \in Segments
<1>1. /\ \A i \in DOMAIN armq : armq[i] \in Commands
      /\ \A i \in DOMAIN hw : hw[i] \in Descriptors
      /\ \A i \in DOMAIN resp : resp[i] \in Responses
  BY DEF Local, Types, QueueType
<1>2. \A c \in Commands : c.addr \in Segments
  BY DEF Commands
<1>3. \A d \in Descriptors : d.cmd \in Commands
  BY DEF Descriptors
<1>4. \A r \in Responses : r.handle \in Segments
  BY DEF Responses
<1>. QED
  BY <1>1, <1>2, <1>3, <1>4

(* What is known of the segments of the window.                               *)
LEMMA Window ==
  ASSUME Local, NEW w \in 0 .. N, Ring(w)
  PROVE  /\ cur \in Segments /\ next \in Segments /\ Top \in Segments /\ w \in Nat /\ N \in Nat
         /\ \A s \in Segments : Dist(cur, s) \in 0 .. N - 1
         /\ seg[next].state # "arm" => w < N
         /\ w < N /\ ~At("advance") => ~(Dist(cur, next) < w)
         /\ At("post") => ~At("advance") /\ Dist(cur, next) = w
<1>1. cur \in Segments /\ next \in Segments /\ N \in Nat /\ Types /\ After(next) \in Segments
  BY SettingType DEF Local, Types, ChannelType
<1>2. \A s \in Segments : Dist(cur, s) \in 0 .. N - 1
  BY <1>1, Distances
<1>3. seg[next].state # "arm" => w < N
  BY <1>1, <1>2 DEF Ring
<1>4. w < N /\ ~At("advance") => ~(Dist(cur, next) < w)
  BY <1>1, <1>2 DEF Ring, Top
<1>5. ASSUME At("post") PROVE ~At("advance") /\ Dist(cur, next) = w
  <2>1. PICK h \in Handlers : pc[h] = "post"
    BY <1>5 DEF At
  <2>2. ~At("advance")
    BY <2>1, Holder DEF Holding
  <2>. QED
    BY <1>2, <1>5, <2>2 DEF Ring, Top
<1>. QED
  BY <1>1, <1>2, <1>3, <1>4, <1>5 DEF Top

(* A handler that fills a segment does not touch the window.                  *)
LEMMA FillRing ==
  ASSUME Local, NEW w \in 0 .. N, Ring(w), Inside(w), InOrder,
         NEW h \in Handlers, NEW k \in 1 .. Max, Fill(h, k)
  PROVE  Ring(w)' /\ Inside(w)' /\ InOrder'
<1>1. pc[h] = "look" /\ pc[h] \in Holding /\ pc' = [pc EXCEPT ![h] = "mark"]
      /\ UNCHANGED <<next, cur, armq, hw, resp>>
  BY DEF Fill, Holding, arm
<1>2. loc[h].ix = next /\ next \in Segments /\ seg \in [Segments -> SegRecords]
  BY <1>1, Holder DEF Local, Types, ChannelType
<1>3. seg[next].state = "ready"
      /\ seg' = [seg EXCEPT ![next] = [state |-> "ready", handle |-> next,
                                      count |-> k, addr |-> next, off |-> 0]]
  BY <1>2 DEF Fill
<1>4. ~At("post") /\ ~At("advance") /\ ~At("post")' /\ ~At("advance")'
  BY <1>1, Holder, AtStep DEF Holding
<1>5. Ring(w)'
  <2>1. \A s \in Segments : seg'[s].state = seg[s].state
    BY <1>2, <1>3
  <2>2. Top' = Top
    BY <1>1, <1>4 DEF Top
  <2>. QED
    BY <1>1, <1>4, <2>1, <2>2, RingSame
<1>6. \A s \in Segments : Dist(cur, s) < w => seg'[s] = seg[s]
  BY <1>2, <1>3 DEF Ring
<1>7. Inside(w)'
  BY <1>1, <1>6, QueueElements DEF Inside, Command
<1>8. InOrder'
  BY <1>1 DEF InOrder, Before
<1>. QED
  BY <1>5, <1>7, <1>8

(* Marking NextSegment, or taking the mark off again, leaves the window.      *)
LEMMA MarkRing ==
  ASSUME Local, NEW w \in 0 .. N, Ring(w), Inside(w), InOrder,
         NEW h \in Handlers, Mark(h) \/ PostFails(h)
  PROVE  Ring(w)' /\ Inside(w)' /\ InOrder'
<1>1. pc[h] \in {"mark", "post"} /\ pc[h] \in Holding /\ UNCHANGED <<next, cur, armq, hw, resp>>
  BY DEF Mark, PostFails, Holding, arm
<1>2. loc[h].ix = next /\ next \in Segments /\ seg \in [Segments -> SegRecords] /\ cur \in Segments
  BY <1>1, Holder DEF Local, Types, ChannelType
<1>3. ~At("advance") /\ (At("post") <=> pc[h] = "post") /\ (pc[h] = "mark" => seg[next].state # "arm")
  BY <1>1, Holder DEF Holding
<1>4. w < N /\ ~(Dist(cur, next) < w)
  BY <1>1, <1>3, Window DEF Ring
<1>5. PICK t \in {"arm", "pending"} : seg' = [seg EXCEPT ![next].state = t]
        /\ (t = "arm" <=> Mark(h))
  <2>1. CASE Mark(h)
    BY <1>2, <2>1 DEF Mark
  <2>2. CASE PostFails(h) /\ ~Mark(h)
    BY <1>2, <2>2 DEF PostFails
  <2>. QED
    BY <2>1, <2>2
<1>6. ~At("advance")' /\ (At("post")' <=> t = "arm")
  <2>1. CASE Mark(h)
    <3>1. pc' = [pc EXCEPT ![h] = "post"]
      BY <2>1 DEF Mark
    <3>. QED
      BY <1>1, <1>5, <2>1, <3>1, AtStep DEF Holding
  <2>2. CASE PostFails(h) /\ ~Mark(h)
    <3>1. pc' = [pc EXCEPT ![h] = "idle"]
      BY <2>2 DEF PostFails, Unlock
    <3>. QED
      BY <1>1, <1>5, <2>2, <3>1, AtStep DEF Holding
  <2>. QED
    BY <2>1, <2>2
<1>7. /\ seg'[next].state = t
      /\ \A s \in Segments : s # next => seg'[s] = seg[s]
  BY <1>2, <1>5 DEF SegRecords
<1>8. Ring(w)'
  <2>1. Top' = Top
    BY <1>1, <1>3, <1>6 DEF Top
  <2>2. \A s \in Segments : seg'[s].state = "arm" <=> Dist(cur, s) < w \/ (At("post")' /\ s = next)
    BY <1>2, <1>4, <1>5, <1>6, <1>7 DEF Ring
  <2>3. \A s \in Segments : seg'[s].state = "pending" => s = next /\ t = "pending"
    BY <1>2, <1>5, <1>7 DEF Ring
  <2>. QED
    BY <1>1, <1>4, <1>6, <2>1, <2>2, <2>3 DEF Ring
<1>9. \A s \in Segments : Dist(cur, s) < w => seg'[s] = seg[s]
  BY <1>4, <1>7
<1>10. Inside(w)'
  BY <1>1, <1>9, QueueElements DEF Inside, Command
<1>11. InOrder'
  BY <1>1 DEF InOrder, Before
<1>. QED
  BY <1>8, <1>10, <1>11

(* A posted command goes to the end of the window, which grows by one.        *)
LEMMA PostRing ==
  ASSUME Local, NEW w \in 0 .. N, Ring(w), Inside(w), InOrder, NEW h \in Handlers, Post(h)
  PROVE  w + 1 \in 0 .. N /\ Ring(w + 1)' /\ Inside(w + 1)' /\ InOrder'
<1>1. pc[h] = "post" /\ pc[h] \in Holding /\ pc' = [pc EXCEPT ![h] = "advance"]
      /\ UNCHANGED <<next, cur, seg, hw, resp>> /\ armq' = Append(armq, loc[h].cmd)
  BY DEF Post, Holding, chan
<1>2. loc[h].cmd = Command(next) /\ next \in Segments /\ cur \in Segments
      /\ seg[next].addr = next /\ seg[next].handle = next /\ Types /\ loc[h].cmd \in Commands
  BY <1>1, Holder DEF Local, Types, ChannelType, SegmentsOK, CallerType
<1>3. At("post") /\ ~At("advance") /\ ~At("post")' /\ At("advance")'
  BY <1>1, Holder, AtStep DEF Holding
<1>4. w < N /\ Dist(cur, next) = w /\ w \in Nat /\ N \in Nat
      /\ \A s \in Segments : Dist(cur, s) \in 0 .. N - 1
  BY <1>3, Window DEF Ring, Top
<1>5. \A s \in Segments : Dist(cur, s) = w <=> s = next
  BY <1>2, <1>4, Distances
<1>6. Ring(w + 1)'
  <2>1. Dist(cur, After(next)) = (IF w + 1 < N THEN w + 1 ELSE 0)
    BY <1>2, <1>4, Distances
  <2>2. After(next) \in Segments /\ (Dist(cur, After(next)) = 0 <=> After(next) = cur)
    BY <1>2, SettingType, Distances
  <2>3. Top' = After(next)
    BY <1>1, <1>3 DEF Top, After
  <2>4. (w + 1 < N /\ Dist(cur, Top') = w + 1) \/ (w + 1 = N /\ Top' = cur)
    BY <1>4, <2>1, <2>2, <2>3
  <2>5. \A s \in Segments : Dist(cur, s) < w + 1 <=> Dist(cur, s) < w \/ s = next
    BY <1>4, <1>5
  <2>6. \A s \in Segments : seg[s].state = "arm" <=> Dist(cur, s) < w + 1
    BY <1>3, <2>5 DEF Ring
  <2>7. \A s \in Segments : seg[s].state # "pending"
    BY <1>3 DEF Ring
  <2>. QED
    BY <1>1, <1>3, <2>4, <2>6, <2>7 DEF Ring
<1>7. \A i \in DOMAIN armq' : (i \in DOMAIN armq /\ armq'[i] = armq[i])
        \/ (i = Len(armq) + 1 /\ armq'[i] = Command(next))
  BY <1>1, <1>2 DEF Types, QueueType
<1>8. Command(next).addr = next
  BY <1>2 DEF Command
<1>9. /\ \A i \in DOMAIN armq : Dist(cur, armq[i].addr) < w
      /\ \A i \in DOMAIN hw : Dist(cur, hw[i].cmd.addr) < w
      /\ \A i \in DOMAIN resp : Dist(cur, resp[i].handle) < w
  BY DEF Inside
<1>10. Inside(w + 1)'
  <2>1. \A s \in Segments : Dist(cur, s) < w => Dist(cur, s) < w + 1
    BY <1>4
  <2>2. \A i \in DOMAIN armq' : Dist(cur, armq'[i].addr) < w + 1 /\ armq'[i] = Command(armq'[i].addr)
    BY <1>2, <1>4, <1>7, <1>8, <2>1, QueueElements DEF Inside
  <2>. QED
    BY <1>1, <2>1, <2>2, QueueElements DEF Inside, Command
<1>11. InOrder'
  <2>1. \A i \in DOMAIN armq' : i \in DOMAIN armq \/ (i = Len(armq) + 1 /\ armq'[i].addr = next)
    BY <1>7, <1>8
  <2>2. \A i \in DOMAIN armq : armq'[i] = armq[i] /\ i < Len(armq) + 1 /\ i \in 1 .. Len(armq)
        /\ Len(armq) \in Nat
    BY <1>1, <1>2 DEF Types, QueueType
  <2>3. \A i, j \in DOMAIN armq' : i < j => Before(armq'[i].addr, armq'[j].addr)
    BY <1>4, <1>9, <2>1, <2>2 DEF InOrder, Before
  <2>4. \A i \in DOMAIN hw : \A j \in DOMAIN armq' : Before(hw[i].cmd.addr, armq'[j].addr)
    BY <1>4, <1>9, <2>1, <2>2 DEF InOrder, Before
  <2>5. \A i \in DOMAIN resp : resp[i].kind = "complete" =>
          \A j \in DOMAIN armq' : Before(resp[i].handle, armq'[j].addr)
    BY <1>4, <1>9, <2>1, <2>2 DEF InOrder, Before
  <2>. QED
    BY <1>1, <2>3, <2>4, <2>5 DEF InOrder, Before
<1>. QED
  BY <1>4, <1>6, <1>10, <1>11

(* Stepping over the segment that was posted leaves the window as it is.      *)
LEMMA AdvanceRing ==
  ASSUME Local, NEW w \in 0 .. N, Ring(w), Inside(w), InOrder, NEW h \in Handlers, Advance(h)
  PROVE  Ring(w)' /\ Inside(w)' /\ InOrder'
<1>1. pc[h] = "advance" /\ pc[h] \in Holding /\ next' = After(next)
      /\ UNCHANGED <<cur, seg, armq, hw, resp>>
  BY DEF Advance, Holding, arm
<1>2. At("advance") /\ ~At("post")
  BY <1>1, Holder DEF Holding
<1>3. ~At("advance")' /\ ~At("post")'
  <2>1. PICK x \in {"idle", "look"} : pc' = [pc EXCEPT ![h] = x]
    BY DEF Advance, Unlock
  <2>. QED
    BY <1>1, <2>1, AtStep DEF Holding
<1>4. Top' = Top
  BY <1>1, <1>2, <1>3 DEF Top
<1>5. Ring(w)'
  BY <1>1, <1>2, <1>3, <1>4 DEF Ring
<1>. QED
  BY <1>1, <1>5, QueuesSame

(* A completion closes the window up to the segment that was sent.            *)
LEMMA AcknowledgeRing ==
  ASSUME Local, NEW w \in 0 .. N, Ring(w), Inside(w), InOrder, Acknowledge
  PROVE  \E v \in 0 .. N : Ring(v)' /\ Inside(v)' /\ InOrder'
<1> DEFINE h == Head(resp).handle
<1>1. Types /\ cur \in Segments /\ next \in Segments /\ h \in Segments /\ Top \in Segments
      /\ h = resp[1].handle /\ 1 \in DOMAIN resp /\ resp[1].kind = "complete"
      /\ seg \in [Segments -> SegRecords] /\ w \in Nat /\ N \in Nat
  <2>1. Popped /\ Head(resp).kind = "complete"
    BY DEF Acknowledge
  <2>2. resp \in Seq(Responses) /\ resp # <<>>
    BY <2>1 DEF Local, Types, QueueType, Popped
  <2>3. Head(resp) = resp[1] /\ 1 \in DOMAIN resp
    BY <2>2
  <2>. QED
    BY <2>1, <2>3, QueueElements, Window DEF Local, Types, ChannelType
<1>2. UNCHANGED <<next, pc, armq, hw>> /\ cur' = After(h) /\ resp' = Tail(resp)
      /\ seg' = [s \in Segments |-> IF Dist(cur, s) <= Dist(cur, h)
                                      THEN [seg[s] EXCEPT !.state = "ready"] ELSE seg[s]]
  BY DEF Acknowledge, Popped, caller
<1>4. \A s \in Segments : Dist(cur, s) \in 0 .. N - 1
  BY <1>1, Window
<1>0. PICK d \in 0 .. N - 1 : d = Dist(cur, h)
  BY <1>1, <1>4
<1> DEFINE v == w - d - 1
<1>3. d < w
  BY <1>0, <1>1 DEF Inside
<1>5. \A s \in Segments : Dist(cur', s) = IF Dist(cur, s) > d THEN Dist(cur, s) - d - 1
                                           ELSE Dist(cur, s) - d - 1 + N
  <2>1. \A s \in Segments : Dist(After(h), s) = IF Dist(cur, s) > Dist(cur, h)
                                                 THEN Dist(cur, s) - Dist(cur, h) - 1
                                                 ELSE Dist(cur, s) - Dist(cur, h) - 1 + N
    BY <1>1, Distances
  <2>. QED
    BY <1>0, <1>2, <2>1
<1>6. (At("post")' <=> At("post")) /\ (At("advance")' <=> At("advance")) /\ Top' = Top
  BY <1>2 DEF At, Top, After
<1> HIDE DEF h
<1>7. v \in 0 .. N /\ \A s \in Segments : Dist(cur', s) < v <=> Dist(cur, s) > d /\ Dist(cur, s) < w
  BY <1>0, <1>1, <1>3, <1>4, <1>5
<1>8. (v < N /\ Dist(cur', Top) = v) \/ (v = N /\ Top = cur')
  <2>1. CASE w < N /\ Dist(cur, Top) = w
    BY <1>1, <1>3, <1>4, <1>5, <2>1
  <2>2. CASE w = N /\ Top = cur
    <3>1. Dist(cur, Top) = 0
      BY <1>1, <2>2, Distances
    <3>. QED
      BY <1>1, <1>3, <1>4, <1>5, <2>2, <3>1
  <2>. QED
    BY <2>1, <2>2 DEF Ring
<1>9. \A s \in Segments :
        /\ Dist(cur, s) > d => seg'[s] = seg[s]
        /\ Dist(cur, s) <= d => seg'[s].state = "ready"
        /\ seg'[s].count = seg[s].count
  BY <1>0, <1>1, <1>2, <1>4 DEF SegRecords
<1>10. Ring(v)'
  <2>1. \A s \in Segments : s = next /\ At("post") => Dist(cur, s) > d
    BY <1>1, <1>3, Window
  <2>2. \A s \in Segments :
          seg'[s].state = "arm" <=> Dist(cur', s) < v \/ (At("post") /\ s = next)
    BY <1>3, <1>4, <1>7, <1>9, <2>1 DEF Ring
  <2>3. \A s \in Segments : seg'[s].state = "pending" => s = next /\ ~At("advance") /\ ~At("post")
    BY <1>4, <1>9 DEF Ring
  <2>4. At("post") => v < N
    BY <1>0, <1>1, <1>3
  <2>. QED
    BY <1>2, <1>6, <1>8, <2>2, <2>3, <2>4 DEF Ring
<1>11. /\ \A i \in DOMAIN armq : Dist(cur, armq[i].addr) > d
       /\ \A i \in DOMAIN hw : Dist(cur, hw[i].cmd.addr) > d
       /\ \A i \in DOMAIN resp : i > 1 => Dist(cur, resp[i].handle) > d
  BY <1>0, <1>1 DEF InOrder, Before, h
<1>12. /\ \A i \in DOMAIN resp' : i + 1 \in DOMAIN resp /\ resp'[i] = resp[i + 1] /\ i + 1 > 1
       /\ \A i, j \in DOMAIN resp' : i < j => i + 1 < j + 1
  BY <1>1, <1>2 DEF Types, QueueType
<1>13. Inside(v)'
  <2>1. \A i \in DOMAIN armq : Dist(cur', armq[i].addr) < v /\ armq[i] = Command(armq[i].addr)'
    BY <1>2, <1>7, <1>9, <1>11, QueueElements DEF Inside, Command
  <2>2. \A i \in DOMAIN hw : Dist(cur', hw[i].cmd.addr) < v /\ hw[i].cmd = Command(hw[i].cmd.addr)'
    BY <1>2, <1>7, <1>9, <1>11, QueueElements DEF Inside, Command
  <2>3. \A i \in DOMAIN resp' : Dist(cur', resp'[i].handle) < v
                               /\ resp'[i].count = seg'[resp'[i].handle].count
    BY <1>7, <1>9, <1>11, <1>12, QueueElements DEF Inside
  <2>. QED
    BY <1>2, <2>1, <2>2, <2>3 DEF Inside, Command
<1>14. \A a, b \in Segments : Before(a, b) /\ Dist(cur, a) > d => Dist(cur', a) < Dist(cur', b)
  BY <1>4, <1>5 DEF Before
<1>15. InOrder'
  <2>1. \A i, j \in DOMAIN armq : i < j => Dist(cur', armq[i].addr) < Dist(cur', armq[j].addr)
    BY <1>11, <1>14, QueueElements DEF InOrder
  <2>2. \A i \in DOMAIN hw :
          /\ \A j \in DOMAIN hw : i < j => Dist(cur', hw[i].cmd.addr) < Dist(cur', hw[j].cmd.addr)
          /\ \A j \in DOMAIN armq : Dist(cur', hw[i].cmd.addr) < Dist(cur', armq[j].addr)
    BY <1>11, <1>14, QueueElements DEF InOrder
  <2>3. \A i \in DOMAIN resp' : resp'[i].kind = "complete" =>
          /\ \A j \in DOMAIN resp' : i < j =>
               Dist(cur', resp'[i].handle) < Dist(cur', resp'[j].handle)
          /\ \A j \in DOMAIN hw : Dist(cur', resp'[i].handle) < Dist(cur', hw[j].cmd.addr)
          /\ \A j \in DOMAIN armq : Dist(cur', resp'[i].handle) < Dist(cur', armq[j].addr)
    BY <1>11, <1>12, <1>14, QueueElements DEF InOrder
  <2>. QED
    BY <1>2, <2>1, <2>2, <2>3 DEF InOrder, Before
<1>. QED
  BY <1>7, <1>10, <1>13, <1>15

(* A response that is discarded, or lost, leaves the others in order.         *)
LEMMA DiscardRing ==
  ASSUME Local, NEW w \in 0 .. N, Ring(w), Inside(w), InOrder, Discard
  PROVE  Ring(w)' /\ Inside(w)' /\ InOrder'
<1>1. UNCHANGED <<next, cur, seg, pc, armq, hw>> /\ resp' = Tail(resp) /\ resp # <<>>
  BY DEF Discard, Popped, chan, caller
<1>2. Ring(w)'
  BY <1>1, RingSame DEF At, Top, After
<1>3. /\ \A i \in DOMAIN resp' : i + 1 \in DOMAIN resp /\ resp'[i] = resp[i + 1]
      /\ \A i, j \in DOMAIN resp' : i < j => i + 1 < j + 1
  BY <1>1 DEF Local, Types, QueueType
<1>4. Inside(w)'
  BY <1>1, <1>3 DEF Inside, Command
<1>5. InOrder'
  BY <1>1, <1>3 DEF InOrder, Before
<1>. QED
  BY <1>2, <1>4, <1>5

(* The ARM takes the next command, or has no room for its segment.            *)
LEMMA ArmTakeRing ==
  ASSUME Local, NEW w \in 0 .. N, Ring(w), Inside(w), InOrder, ArmTake
  PROVE  Ring(w)' /\ Inside(w)' /\ InOrder'
<1> DEFINE c == Head(armq)
           d == [cmd |-> c, sent |-> 0]
           r == [kind |-> "full", handle |-> c.handle, count |-> c.count]
<1>1. /\ UNCHANGED <<next, cur, seg, pc>> /\ armq' = Tail(armq) /\ armq # <<>> /\ c.op = "start"
      /\ (hw' = Append(hw, d) /\ resp' = resp) \/ (hw' = hw /\ resp' = Append(resp, r))
  BY DEF ArmTake, chan, caller
<1>2. armq \in Seq(Commands) /\ hw \in Seq(Descriptors) /\ resp \in Seq(Responses)
      /\ c = armq[1] /\ Proper(c)
  BY <1>1, CommandHead DEF Local, Types, QueueType
<1>3. Ring(w)'
  BY <1>1, RingSame DEF At, Top, After
<1>4. /\ \A i \in DOMAIN armq' : i + 1 \in DOMAIN armq /\ armq'[i] = armq[i + 1] /\ i + 1 > 1
      /\ \A i, j \in DOMAIN armq' : i < j => i + 1 < j + 1
      /\ 1 \in DOMAIN armq
  BY <1>1, <1>2, TailIs
<1>5. Dist(cur, c.addr) < w /\ c = Command(c.addr) /\ c.handle = c.addr /\ c.count = seg[c.addr].count
  BY <1>1, <1>2, <1>4 DEF Inside, Proper, Command
<1>6. \A i \in DOMAIN armq' : Dist(cur, armq'[i].addr) < w /\ armq'[i] = Command(armq'[i].addr)
        /\ Before(c.addr, armq'[i].addr)
  BY <1>2, <1>4 DEF Inside, InOrder
<1>7. /\ \A i \in DOMAIN hw : Before(hw[i].cmd.addr, c.addr)
      /\ \A i \in DOMAIN resp : resp[i].kind = "complete" => Before(resp[i].handle, c.addr)
  BY <1>2, <1>4 DEF InOrder
<1>8. \A i, j \in DOMAIN armq' : i < j => Before(armq'[i].addr, armq'[j].addr)
  BY <1>4 DEF InOrder
<1>9. d.cmd = c /\ r.kind # "complete" /\ r.handle = c.addr /\ r.count = c.count
  BY <1>5
<1>10. CASE hw' = Append(hw, d) /\ resp' = resp
  <2> HIDE DEF c, d, r
  <2>1. /\ \A i \in DOMAIN hw' : (i \in DOMAIN hw /\ hw'[i] = hw[i]) \/ hw'[i] = d
        /\ \A i, j \in DOMAIN hw' : i < j => i \in DOMAIN hw /\ hw'[i] = hw[i]
    <3>1. /\ \A i \in DOMAIN hw' : (i \in DOMAIN hw /\ hw'[i] = hw[i]) \/ (i = Len(hw) + 1 /\ hw'[i] = d)
          /\ \A i, j \in DOMAIN hw' : i < j => i \in DOMAIN hw
      BY <1>2, <1>10, AppendIs
    <3>2. \A i \in DOMAIN hw : i # Len(hw) + 1
      BY <1>2
    <3>. QED
      BY <3>1, <3>2
  <2>2. Inside(w)'
    <3>1. \A i \in DOMAIN hw' : Dist(cur, hw'[i].cmd.addr) < w /\ hw'[i].cmd = Command(hw'[i].cmd.addr)
      BY <1>5, <1>9, <2>1 DEF Inside
    <3>2. \A i \in DOMAIN resp' : Dist(cur, resp'[i].handle) < w
                                  /\ resp'[i].count = seg[resp'[i].handle].count
      BY <1>10 DEF Inside
    <3>. QED
      BY <1>1, <1>6, <3>1, <3>2 DEF Inside, Command
  <2>3. \A i \in DOMAIN hw' :
          /\ \A j \in DOMAIN hw' : i < j => Before(hw'[i].cmd.addr, hw'[j].cmd.addr)
          /\ \A j \in DOMAIN armq' : Before(hw'[i].cmd.addr, armq'[j].addr)
    BY <1>4, <1>6, <1>7, <1>9, <2>1 DEF InOrder
  <2>4. \A i \in DOMAIN resp : resp[i].kind = "complete" =>
          /\ \A j \in DOMAIN resp : i < j => Before(resp[i].handle, resp[j].handle)
          /\ \A j \in DOMAIN hw' : Before(resp[i].handle, hw'[j].cmd.addr)
          /\ \A j \in DOMAIN armq' : Before(resp[i].handle, armq'[j].addr)
    BY <1>4, <1>7, <1>9, <2>1 DEF InOrder
  <2>5. InOrder'
    BY <1>1, <1>8, <1>10, <2>3, <2>4 DEF InOrder, Before
  <2>. QED
    BY <1>3, <2>2, <2>5
<1>11. CASE hw' = hw /\ resp' = Append(resp, r)
  <2> HIDE DEF c, d, r
  <2>1. /\ \A i \in DOMAIN resp' : (i \in DOMAIN resp /\ resp'[i] = resp[i]) \/ resp'[i] = r
        /\ \A i, j \in DOMAIN resp' : i < j => i \in DOMAIN resp /\ resp'[i] = resp[i]
    <3>1. /\ \A i \in DOMAIN resp' : (i \in DOMAIN resp /\ resp'[i] = resp[i])
                                     \/ (i = Len(resp) + 1 /\ resp'[i] = r)
          /\ \A i, j \in DOMAIN resp' : i < j => i \in DOMAIN resp
      BY <1>2, <1>11, AppendIs
    <3>2. \A i \in DOMAIN resp : i # Len(resp) + 1
      BY <1>2
    <3>. QED
      BY <3>1, <3>2
  <2>2. Inside(w)'
    BY <1>1, <1>5, <1>6, <1>9, <1>11, <2>1 DEF Inside, Command
  <2>3. \A i \in DOMAIN hw : \A j \in DOMAIN armq' : Before(hw[i].cmd.addr, armq'[j].addr)
    BY <1>4 DEF InOrder
  <2>4. \A i \in DOMAIN resp' : resp'[i].kind = "complete" =>
          /\ \A j \in DOMAIN resp' : i < j => Before(resp'[i].handle, resp'[j].handle)
          /\ \A j \in DOMAIN hw : Before(resp'[i].handle, hw[j].cmd.addr)
          /\ \A j \in DOMAIN armq' : Before(resp'[i].handle, armq'[j].addr)
    BY <1>4, <1>7, <1>9, <2>1 DEF InOrder
  <2>5. InOrder'
    BY <1>1, <1>8, <1>11, <2>3, <2>4 DEF InOrder, Before
  <2>. QED
    BY <1>3, <2>2, <2>5
<1>. QED
  BY <1>1, <1>10, <1>11

(* The ARM sends a cell, and with the last one of a segment a completion.     *)
LEMMA ArmSendRing ==
  ASSUME Local, NEW w \in 0 .. N, Ring(w), Inside(w), InOrder, ArmSend
  PROVE  Ring(w)' /\ Inside(w)' /\ InOrder'
<1> DEFINE d == Head(hw)
           n == d.sent + 1
           r == [kind |-> "complete", handle |-> d.cmd.handle, count |-> n]
<1>1. /\ UNCHANGED <<next, cur, seg, pc, armq>> /\ hw # <<>>
      /\ \/ n < d.cmd.count /\ hw' = [hw EXCEPT ![1].sent = n] /\ resp' = resp
         \/ ~(n < d.cmd.count) /\ hw' = Tail(hw) /\ resp' = Append(resp, r)
  BY DEF ArmSend, chan, caller
<1>2. hw \in Seq(Descriptors) /\ resp \in Seq(Responses) /\ d = hw[1] /\ 1 \in DOMAIN hw
      /\ d.cmd.handle = d.cmd.addr /\ d.cmd.count \in 0 .. 255 /\ d.sent \in Nat
      /\ n <= d.cmd.count /\ d \in Descriptors
  BY <1>1, SegmentHead DEF Local, Types, QueueType
<1>3. Ring(w)'
  BY <1>1, RingSame DEF At, Top, After
<1>6. n < d.cmd.count \/ n = d.cmd.count
  <2> DEFINE a == d.sent
             b == d.cmd.count
  <2>1. a \in Nat /\ b \in 0 .. 255 /\ a + 1 <= b
    BY <1>2
  <2> HIDE DEF a, b
  <2>2. a + 1 < b \/ a + 1 = b
    BY <2>1
  <2>. QED
    BY <2>2 DEF a, b
<1>4. CASE n < d.cmd.count /\ hw' = [hw EXCEPT ![1].sent = n] /\ resp' = resp
  <2>1. DOMAIN hw' = DOMAIN hw /\ \A i \in DOMAIN hw : hw'[i].cmd = hw[i].cmd
    BY <1>2, <1>4 DEF Descriptors
  <2>2. Inside(w)'
    <3>1. \A i \in DOMAIN hw' : Dist(cur, hw'[i].cmd.addr) < w /\ hw'[i].cmd = Command(hw'[i].cmd.addr)
      BY <2>1 DEF Inside
    <3>2. /\ \A i \in DOMAIN armq : Dist(cur, armq[i].addr) < w /\ armq[i] = Command(armq[i].addr)
          /\ \A i \in DOMAIN resp : Dist(cur, resp[i].handle) < w
                                    /\ resp[i].count = seg[resp[i].handle].count
      BY DEF Inside
    <3>3. UNCHANGED <<seg, cur, armq, resp>>
      BY <1>1, <1>4
    <3>. QED
      BY <3>1, <3>2, <3>3 DEF Inside, Command
  <2>3. InOrder'
    BY <1>1, <1>4, <2>1 DEF InOrder, Before
  <2>. QED
    BY <1>3, <2>2, <2>3
<1>5. CASE ~(n < d.cmd.count) /\ hw' = Tail(hw) /\ resp' = Append(resp, r)
  <2>1. n = d.cmd.count
    BY <1>5, <1>6
  <2>2. r.handle = d.cmd.addr /\ r.count = d.cmd.count
    BY <1>2, <2>1
  <2> HIDE DEF d, n, r
  <2>3. /\ \A i \in DOMAIN hw' : i + 1 \in DOMAIN hw /\ hw'[i] = hw[i + 1] /\ i + 1 > 1
        /\ \A i, j \in DOMAIN hw' : i < j => i + 1 < j + 1
    BY <1>1, <1>2, <1>5, TailIs
  <2>4. /\ \A i \in DOMAIN resp' : (i \in DOMAIN resp /\ resp'[i] = resp[i])
                                   \/ (i = Len(resp) + 1 /\ resp'[i] = r)
        /\ \A i, j \in DOMAIN resp' : i < j => i \in DOMAIN resp
    BY <1>2, <1>5, AppendIs
  <2>5. \A i \in DOMAIN resp : i # Len(resp) + 1
    BY <1>2
  <2>6. Dist(cur, d.cmd.addr) < w /\ d.cmd.count = seg[d.cmd.addr].count
    <3>1. Dist(cur, d.cmd.addr) < w /\ d.cmd = Command(d.cmd.addr)
      BY <1>2 DEF Inside
    <3>2. Command(d.cmd.addr).count = seg[d.cmd.addr].count
      BY DEF Command
    <3>. QED
      BY <3>1, <3>2
  <2>7. /\ \A i \in DOMAIN hw' : Before(d.cmd.addr, hw'[i].cmd.addr)
        /\ \A i \in DOMAIN armq : Before(d.cmd.addr, armq[i].addr)
        /\ \A i \in DOMAIN resp : resp[i].kind = "complete" => Before(resp[i].handle, d.cmd.addr)
    BY <1>2, <2>3 DEF InOrder
  <2>8. Inside(w)'
    <3>1. \A i \in DOMAIN hw' : Dist(cur, hw'[i].cmd.addr) < w /\ hw'[i].cmd = Command(hw'[i].cmd.addr)
      BY <2>3 DEF Inside
    <3>2. \A i \in DOMAIN resp' : Dist(cur, resp'[i].handle) < w
                                  /\ resp'[i].count = seg[resp'[i].handle].count
      BY <2>2, <2>4, <2>6 DEF Inside
    <3>3. \A i \in DOMAIN armq : Dist(cur, armq[i].addr) < w /\ armq[i] = Command(armq[i].addr)
      BY DEF Inside
    <3>. QED
      BY <1>1, <3>1, <3>2, <3>3 DEF Inside, Command
  <2>9. /\ \A i, j \in DOMAIN hw' : i < j => Before(hw'[i].cmd.addr, hw'[j].cmd.addr)
        /\ \A i \in DOMAIN hw' : \A j \in DOMAIN armq : Before(hw'[i].cmd.addr, armq[j].addr)
    BY <2>3 DEF InOrder
  <2>10. \A i \in DOMAIN resp' : resp'[i].kind = "complete" =>
          /\ \A j \in DOMAIN resp' : i < j => Before(resp'[i].handle, resp'[j].handle)
          /\ \A j \in DOMAIN hw' : Before(resp'[i].handle, hw'[j].cmd.addr)
          /\ \A j \in DOMAIN armq : Before(resp'[i].handle, armq[j].addr)
    BY <2>2, <2>3, <2>4, <2>5, <2>7 DEF InOrder
  <2>11. InOrder'
    BY <1>1, <2>9, <2>10 DEF InOrder, Before
  <2>. QED
    BY <1>3, <2>8, <2>11
<1>. QED
  BY <1>1, <1>4, <1>5

(* When the channel is enabled there is nothing in the ring, and nothing on   *)
(* its way.                                                                   *)
LEMMA EnableRing ==
  ASSUME Local, Calm, Enable
  PROVE  Ring(0)' /\ Inside(0)' /\ InOrder'
<1>1. state # "enabled" /\ stopPc = "no" /\ UNCHANGED <<cur, next, seg, pc, armq, hw, resp>>
  BY DEF Enable, caller, arm
<1>2. armq = <<>> /\ hw = <<>> /\ resp = <<>>
  <2>1. CASE stops = 0
    BY <1>1, <2>1 DEF Local, StopOK, Types, ChannelType
  <2>2. CASE stops # 0
    BY <2>2 DEF Calm, Enable
  <2>. QED
    BY <2>1, <2>2
<1>3. cur = next /\ cur \in Segments /\ \A s \in Segments : seg[s].state = "ready"
  BY <1>1 DEF Local, StopOK, Types, ChannelType
<1>4. ~At("post") /\ ~At("advance") /\ ~At("post")' /\ ~At("advance")'
  BY <1>1, DownIsIdle DEF At
<1>5. N \in Nat /\ 0 < N /\ \A s \in Segments : Dist(cur, s) \in 0 .. N - 1 /\ (Dist(cur, s) = 0 <=> s = cur)
  <2>1. N \in Nat /\ N > 1 /\ Types
    BY SettingType DEF Local
  <2>. QED
    BY <1>3, <2>1, Distances
<1>6. Ring(0)'
  <2>1. Top' = cur
    BY <1>1, <1>3, <1>4 DEF Top
  <2>2. 0 < N /\ Dist(cur, Top') = 0
    BY <1>3, <1>5, <2>1
  <2>3. \A s \in Segments : ~(Dist(cur, s) < 0)
    BY <1>5
  <2>. QED
    BY <1>1, <1>3, <1>4, <2>2, <2>3 DEF Ring
<1>. QED
  BY <1>1, <1>2, <1>6 DEF Inside, InOrder

LEMMA RingStep ==
  ASSUME Local, RingOK, [Next]_vars, Calm'
  PROVE  RingOK'
<1> SUFFICES ASSUME state' = "enabled" PROVE \E w \in 0 .. N : Ring(w)' /\ Inside(w)' /\ InOrder'
  BY DEF RingOK
<1>0. N \in Nat
  BY SettingType DEF Local
<1>1. CASE Enable
  <2>1. Calm
    BY <1>1, SettingStep DEF Enable, Calm
  <2>. QED
    BY <1>0, <1>1, <2>1, EnableRing
<1>2. CASE ~Enable
  <2>1. state = "enabled"
    <3>1. ASSUME NEW h \in Handlers, DataHandler(h) PROVE state' = state
      BY <3>1 DEF DataHandler, Enter, Lock, Fill, Resend, Leave, Mark, Post, PostFails, Advance, chan
    <3>2. CASE Disable
      BY <3>2 DEF Disable, DisableMark, DisableStop, DisableReset, chan
    <3>3. CASE Arm \/ Discard \/ Acknowledge
      BY <3>3 DEF Arm, ArmTake, ArmStop, ArmSend, LoseAck, Discard, Acknowledge, chan
    <3>4. CASE UNCHANGED vars
      BY <3>4 DEF vars, chan
    <3>. QED
      BY <1>2, <3>1, <3>2, <3>3, <3>4, ResponseSteps DEF Next
  <2>2. PICK w \in 0 .. N : Ring(w) /\ Inside(w) /\ InOrder
    BY <2>1 DEF RingOK
  <2>3. ASSUME NEW h \in Handlers, Enter(h) \/ Lock(h) \/ Resend(h) \/ Leave(h)
        PROVE  Ring(w)' /\ Inside(w)' /\ InOrder'
    <3>1. UNCHANGED <<next, cur, seg, armq, hw, resp>>
      BY <2>3 DEF Enter, Lock, Resend, Leave, chan, arm
    <3>2. PICK x \in {"lock", "look", "mark", "idle"} : pc' = [pc EXCEPT ![h] = x]
      BY <2>3 DEF Enter, Lock, Resend, Leave, Unlock
    <3>3. lock = "free" \/ pc[h] = "look"
      BY <2>3 DEF Enter, Lock, Resend, Leave
    <3>4. ~At("post") /\ ~At("advance")
      BY <3>3, Holder, NoHolder DEF Holding
    <3>5. ~At("post")' /\ ~At("advance")'
      BY <3>2, <3>3, AtStep DEF Holding
    <3>6. Top' = Top
      BY <3>1, <3>4, <3>5 DEF Top
    <3>7. Ring(w)'
      BY <2>2, <3>1, <3>4, <3>5, <3>6, RingSame
    <3>. QED
      BY <2>2, <3>1, <3>7, QueuesSame
  <2>4. ASSUME NEW h \in Handlers, DataHandler(h)
        PROVE  \E v \in 0 .. N : Ring(v)' /\ Inside(v)' /\ InOrder'
    BY <2>2, <2>3, <2>4, FillRing, MarkRing, PostRing, AdvanceRing DEF DataHandler
  <2>5. CASE UNCHANGED vars
    <3>1. UNCHANGED <<next, cur, seg, pc, armq, hw, resp>>
      BY <2>5 DEF vars, chan, caller, arm
    <3>2. Ring(w)'
      BY <2>2, <3>1, RingSame DEF At, Top, After
    <3>. QED
      BY <2>2, <3>1, <3>2, QueuesSame
  <2>6. CASE ArmStop
    <3>1. 1 \in DOMAIN armq /\ armq[1].op = "stop"
      BY <2>6, CommandHead DEF ArmStop, Local
    <3>. QED
      BY <2>1, <3>1 DEF Local, StopOK
  <2>7. CASE Disable
    <3>1. stopPc = "no"
      BY <2>1 DEF Local, StopOK
    <3>. QED
      BY <2>7, <3>1 DEF Disable, DisableMark, DisableStop, DisableReset
  <2>8. CASE Discard \/ Acknowledge
    BY <2>2, <2>8, DiscardRing, AcknowledgeRing
  <2>9. CASE ArmTake \/ ArmSend
    BY <2>2, <2>9, ArmTakeRing, ArmSendRing
  <2>. QED
    BY <1>2, <2>4, <2>5, <2>6, <2>7, <2>8, <2>9, ResponseSteps DEF Next, Arm
<1>. QED
  BY <1>1, <1>2
-------------------------------------------------------------------------------
Inv == env \in Settings /\ stops \in Nat /\ (Calm => Local /\ RingOK)

LEMMA InitInv == Init => Inv
<1> SUFFICES ASSUME Init PROVE Inv
  OBVIOUS
<1>1. Local
  BY InitLocal
<1>2. RingOK
  BY DEF RingOK, Init
<1>. QED
  BY <1>1, <1>2 DEF Inv, Init

(* A link that went down stays one that did.                                  *)
LEMMA CalmBefore ==
  ASSUME Inv, [Next]_vars
  PROVE  env' \in Settings /\ stops' \in Nat /\ (Calm' => Calm)
         /\ (stops' = stops \/ (DisableMark /\ stops' = stops + 1))
<1>1. env' = env /\ Smp' = Smp
  BY SettingStep
<1>2. stops' = stops \/ (DisableMark /\ stops' = stops + 1)
  <2>1. ASSUME NEW h \in Handlers, DataHandler(h) PROVE stops' = stops
    BY <2>1 DEF DataHandler, Enter, Lock, Fill, Resend, Leave, Mark, Post, PostFails, Advance, ctl
  <2>2. CASE DmaTxCompleteHandler \/ DmaTxFullHandler \/ Arm
    BY <2>2 DEF DmaTxCompleteHandler, DmaTxFullHandler, Interrupt, Arm, ArmTake, ArmStop, ArmSend,
       LoseAck, ctl
  <2>3. CASE Enable \/ Disable
    BY <2>3 DEF Enable, Disable, DisableMark, DisableStop, DisableReset
  <2>4. CASE UNCHANGED vars
    BY <2>4 DEF vars, ctl
  <2>. QED
    BY <2>1, <2>2, <2>3, <2>4 DEF Next
<1>3. stops \in Nat /\ env \in Settings
  BY DEF Inv
<1>4. stops' \in Nat /\ (stops' = 0 => stops = 0)
  BY <1>2, <1>3
<1>. QED
  BY <1>1, <1>2, <1>3, <1>4 DEF Calm

LEMMA StepInv == Inv /\ [Next]_vars => Inv'
<1> SUFFICES ASSUME Inv, [Next]_vars PROVE Inv'
  OBVIOUS
<1>1. ASSUME Calm' PROVE Local' /\ RingOK'
  <2>1. Local /\ RingOK
    BY <1>1, CalmBefore DEF Inv
  <2>. QED
    BY <1>1, <2>1, LocalStep, RingStep
<1>. QED
  BY <1>1, CalmBefore DEF Inv

LEMMA Invariance == Spec => []Inv
BY InitInv, StepInv, PTL DEF Spec

(* The ring and its registers keep to their ranges, for every number of       *)
(* segments, cells and handlers: indices wrap, and a segment is never sent    *)
(* beyond its end.                                                            *)
THEOREM TxTypeCorrect == Spec => [](Calm => TypeOK)
<1>1. ASSUME Inv, Calm PROVE TypeOK
  <2>1. Local /\ Max \in 1 .. 255
    BY <1>1, SettingType DEF Inv, Local
  <2>2. seg \in [Segments -> [state : SegState, handle : Segments, count : 0 .. 255,
                             addr : Segments, off : 0 .. Max]]
    <3>1. \A r \in SegRecords : r \in [state : SegState, handle : Segments, count : 0 .. 255,
                                      addr : Segments, off : 0 .. Max]
      BY <2>1 DEF SegRecords
    <3>. QED
      BY <2>1, <3>1 DEF Local, Types, ChannelType
  <2>3. \A i \in DOMAIN hw : hw[i].cmd.op = "start" /\ hw[i].sent < hw[i].cmd.count
    BY <2>1 DEF Local, QueuesOK
  <2>4. \A h \in Handlers : loc[h].ix \in Segments
    BY <2>1 DEF Local, Types, CallerType
  <2>. QED
    BY <2>1, <2>2, <2>3, <2>4
    DEF TypeOK, Local, Types, ControlType, ChannelType, CallerType, DataType
<1>. QED
  BY <1>1, Invariance, PTL

(* While the channel runs, the segments the ARM has are exactly the window    *)
(* between the two counters of the ring, each has been posted once, and none  *)
(* is refilled or resent while the ARM has it: for every size of the ring,    *)
(* and whatever the ARM rejects or the driver fails to post or to hear of.    *)
THEOREM TxRingIsSound == Spec => [](Calm => RingSound)
<1>1. ASSUME Inv, Calm, state = "enabled" PROVE ArmOwnsSegments
  <2>1. Local /\ RingOK
    BY <1>1 DEF Inv
  <2>2. PICK w \in 0 .. N : Ring(w) /\ Inside(w) /\ InOrder
    BY <1>1, <2>1 DEF RingOK
  <2>3. \A s \in Segments : Dist(cur, s) < w => seg[s].state = "arm"
    BY <2>2 DEF Ring
  <2>4. ASSUME NEW p \in InFlight
        PROVE  LET c == CommandOf(p) IN
                 seg[c.addr].state = "arm" /\ Command(c.addr) = c /\ c.addr \in Segments
    <3>1. CASE p[1] = "hw"
      <4>1. p[2] \in DOMAIN hw /\ CommandOf(p) = hw[p[2]].cmd
        BY <2>4, <3>1 DEF InFlight, CommandOf
      <4>. QED
        BY <2>1, <2>2, <2>3, <4>1, QueueElements DEF Inside
    <3>2. CASE p[1] # "hw"
      <4>1. p[2] \in DOMAIN armq /\ CommandOf(p) = armq[p[2]]
        BY <2>4, <3>2 DEF InFlight, CommandOf
      <4>. QED
        BY <2>1, <2>2, <2>3, <4>1, QueueElements DEF Inside
    <3>. QED
      BY <3>1, <3>2
  <2>5. \A a, b \in Segments : Before(a, b) => a # b
    <3>1. \A s \in Segments : Dist(cur, s) \in 0 .. N - 1
      BY <2>1, <2>2, Window
    <3>. QED
      BY <3>1 DEF Before
  <2>6. ASSUME NEW p \in InFlight, NEW q \in InFlight, p # q
        PROVE  CommandOf(p).addr # CommandOf(q).addr
    <3>1. CommandOf(p).addr \in Segments /\ CommandOf(q).addr \in Segments
      BY <2>4
    <3>2. armq \in Seq(Commands) /\ hw \in Seq(Descriptors)
      BY <2>1 DEF Local, Types, QueueType
    <3>3. PICK i, j : /\ p \in {<<"hw", i>>, <<"armq", i>>} /\ q \in {<<"hw", j>>, <<"armq", j>>}
                      /\ p[1] = "hw" => i \in DOMAIN hw /\ CommandOf(p) = hw[i].cmd
                      /\ p[1] # "hw" => i \in DOMAIN armq /\ CommandOf(p) = armq[i]
                      /\ q[1] = "hw" => j \in DOMAIN hw /\ CommandOf(q) = hw[j].cmd
                      /\ q[1] # "hw" => j \in DOMAIN armq /\ CommandOf(q) = armq[j]
      BY <2>6 DEF InFlight, CommandOf
    <3>4. CASE p[1] = "hw" /\ q[1] = "hw"
      <4>1. i # j
        BY <2>6, <3>3, <3>4
      <4>2. i < j \/ j < i
        BY <3>2, <3>3, <3>4, <4>1
      <4>. QED
        BY <2>2, <2>5, <3>1, <3>3, <3>4, <4>2 DEF InOrder
    <3>5. CASE p[1] # "hw" /\ q[1] # "hw"
      <4>1. i # j
        BY <2>6, <3>3, <3>5
      <4>2. i < j \/ j < i
        BY <3>2, <3>3, <3>5, <4>1
      <4>. QED
        BY <2>2, <2>5, <3>1, <3>3, <3>5, <4>2 DEF InOrder
    <3>6. CASE p[1] = "hw" /\ q[1] # "hw"
      BY <2>2, <2>5, <3>1, <3>3, <3>6 DEF InOrder
    <3>7. CASE p[1] # "hw" /\ q[1] = "hw"
      BY <2>2, <2>5, <3>1, <3>3, <3>7 DEF InOrder
    <3>. QED
      BY <3>4, <3>5, <3>6, <3>7
  <2>. QED
    BY <2>4, <2>6 DEF ArmOwnsSegments
<1>2. ASSUME Inv, Calm, state = "enabled" PROVE RingWindow
  <2>1. Local /\ RingOK
    BY <1>2 DEF Inv
  <2>2. PICK w \in 0 .. N : Ring(w)
    BY <1>2, <2>1 DEF RingOK
  <2>3. cur \in 0 .. N - 1 /\ Top \in 0 .. N - 1 /\ N \in Nat /\ N > 1 /\ next \in Segments
        /\ (At("post") => w < N) /\ \A s \in Segments : Dist(cur, s) \in 0 .. N - 1
    BY <2>1, <2>2, Window, SettingType DEF Local, Segments, Ring
  <2>4. (Top - cur) % N = Dist(cur, Top) /\ Dist(cur, Top) \in 0 .. N
    <3>1. (Top - cur) % N = Ahead(cur, Top, N) /\ Ahead(cur, Top, N) \in 0 .. N - 1
      BY <2>3, AheadMod
    <3>. QED
      BY <2>3, <3>1 DEF Dist
  <2>5. {(cur + i) % N : i \in 0 .. ((Top - cur) % N) - 1} = {s \in Segments : Dist(cur, s) < Dist(cur, Top)}
    <3>1. {(cur + i) % N : i \in 0 .. Dist(cur, Top) - 1}
            = {s \in 0 .. N - 1 : Ahead(cur, s, N) < Dist(cur, Top)}
      BY <2>3, <2>4, RingStretch
    <3>. QED
      BY <2>4, <3>1 DEF Dist, Segments
  <2> DEFINE owned == {s \in Segments : seg[s].state = "arm"}
             ring  == {(cur + i) % N : i \in 0 .. ((Top - cur) % N) - 1}
  <2>6. owned = {s \in Segments : Dist(cur, s) < w \/ (At("post") /\ s = next)}
    BY <2>2 DEF Ring
  <2>7. IF At("post") THEN owned = ring \cup {next} ELSE owned = ring \/ (cur = Top /\ owned = Segments)
    <3> HIDE DEF owned, ring
    <3>1. ring = {s \in Segments : Dist(cur, s) < Dist(cur, Top)}
      BY <2>5 DEF ring
    <3>2. CASE w < N /\ Dist(cur, Top) = w
      BY <2>3, <2>6, <3>1, <3>2
    <3>3. CASE w = N /\ Top = cur
      BY <2>3, <2>6, <3>3
    <3>. QED
      BY <2>2, <3>2, <3>3 DEF Ring
  <2>. QED
    BY <2>7 DEF RingWindow, Top
<1>3. ASSUME Inv, Calm PROVE RingSound
  BY <1>1, <1>2, <1>3 DEF RingSound, ArmOwnsSegments, RingWindow
<1>. QED
  BY <1>3, Invariance, PTL
-------------------------------------------------------------------------------
(* The cells.  A command stands for the consecutive cells from First up to,   *)
(* not including, Past; a segment that waits for its command to be written    *)
(* holds the cells that were supplied last.                                   *)
First(c) == mem[c.addr][1]
Past(c)  == First(c) + c.count
Numbered(c) == Past(c) <= supplied + 1 /\ \A j \in 1 .. c.count : mem[c.addr][j] = First(c) + j - 1
Starts == {i \in DOMAIN armq : armq[i].op = "start"}
Loaded == state = "enabled" /\ (seg[next].state = "pending" \/ Loading)
Newest == Pipe!Newest(line)

Numbering ==
  /\ \A i \in DOMAIN hw : Numbered(hw[i].cmd)
  /\ \A i \in Starts : Numbered(armq[i])
  /\ Loaded => Numbered(Command(next)) /\ Past(Command(next)) = supplied + 1

(* The cells on their way keep the order they were supplied in,               *)
Sequence ==
  /\ \A i \in DOMAIN hw :
       /\ \A j \in DOMAIN hw : i < j => Past(hw[i].cmd) <= First(hw[j].cmd)
       /\ \A j \in Starts : Past(hw[i].cmd) <= First(armq[j])
       /\ Loaded => Past(hw[i].cmd) <= First(Command(next))
  /\ \A i \in Starts :
       /\ \A j \in Starts : i < j => Past(armq[i]) <= First(armq[j])
       /\ Loaded => Past(armq[i]) <= First(Command(next))

(* come after those on the line,                                              *)
OnLine ==
  /\ Newest <= supplied
  /\ \A i \in DOMAIN hw : Newest < First(hw[i].cmd) + hw[i].sent
  /\ \A i \in Starts : Newest < First(armq[i])
  /\ Loaded => Newest < First(Command(next))

(* and none is missing while nothing has gone wrong.                          *)
Underway(c) ==
  \/ \E i \in DOMAIN hw : First(hw[i].cmd) + hw[i].sent <= c /\ c < Past(hw[i].cmd)
  \/ \E i \in Starts : First(armq[i]) <= c /\ c < Past(armq[i])
  \/ Loaded /\ First(Command(next)) <= c
NoGap ==
  Smooth => /\ \A i \in DOMAIN line : line[i] = i
            /\ \A c \in Nat : c > Len(line) /\ c <= supplied => Underway(c)

CellInv == Numbering /\ Sequence /\ OnLine /\ NoGap

(* The numbers in these are natural numbers.                                  *)
LEMMA CellNumbers ==
  ASSUME Local
  PROVE  /\ \A c \in Commands : First(c) \in Nat /\ c.count \in Nat /\ Past(c) \in Nat
         /\ \A d \in Descriptors : d.sent \in Nat
         /\ supplied \in Nat /\ Newest \in Nat /\ Command(next) \in Commands
         /\ Command(next).addr = next /\ line \in Seq(0 .. Cells) /\ Len(line) \in Nat
<1>1. 1 \in 1 .. Max /\ mem \in [Segments -> [1 .. Max -> 0 .. Cells]] /\ Cells \in Nat
      /\ supplied \in 0 .. Cells /\ line \in Seq(0 .. Cells)
  <2>1. Max \in 1 .. 255
    BY SettingType DEF Local
  <2>. QED
    BY <2>1, TxAssumption DEF Local, Types, DataType
<1>2. ASSUME NEW c \in Commands PROVE First(c) \in Nat /\ c.count \in Nat
  <2>1. c.addr \in Segments /\ c.count \in 0 .. 255
    BY DEF Commands
  <2>2. mem[c.addr] \in [1 .. Max -> 0 .. Cells]
    BY <1>1, <2>1
  <2>3. mem[c.addr][1] \in 0 .. Cells
    BY <1>1, <2>2
  <2>4. \A x \in 0 .. Cells : x \in Nat
    OBVIOUS
  <2>5. \A x \in 0 .. 255 : x \in Nat
    OBVIOUS
  <2>. QED
    BY <2>1, <2>3, <2>4, <2>5, Zenon DEF First
<1>3. \A d \in Descriptors : d.sent \in Nat
  BY DEF Descriptors
<1>4. Newest \in Nat
  BY <1>1 DEF Newest, Pipe!Newest
<1>5. Command(next) \in Commands /\ Command(next).addr = next
  BY DEF Local, Types, ChannelType, SegRecords, SegmentsOK, Commands, Command
<1>. QED
  BY <1>1, <1>2, <1>3, <1>4, <1>5 DEF Past

(* What the steps that move no cell have in common.                           *)
LEMMA CellsSame ==
  ASSUME CellInv, UNCHANGED <<mem, supplied, hw, line>>,
         UNCHANGED armq \/ (armq' = Append(armq, StopCmd) /\ armq \in Seq(Commands)),
         Loaded' => Loaded /\ Command(next)' = Command(next),
         Smooth' => Smooth /\ (Loaded => Loaded' /\ Command(next)' = Command(next))
  PROVE  CellInv'
<1>1. Starts' = Starts /\ \A i \in Starts : armq'[i] = armq[i]
  <2>1. CASE UNCHANGED armq
    BY <2>1 DEF Starts
  <2>2. CASE armq' = Append(armq, StopCmd) /\ armq \in Seq(Commands)
    <3>1. /\ \A i \in DOMAIN armq : i \in DOMAIN armq' /\ armq'[i] = armq[i]
          /\ \A i \in DOMAIN armq' : i \in DOMAIN armq \/ armq'[i] = StopCmd
      BY <2>2
    <3>2. StopCmd.op # "start"
      BY DEF StopCmd
    <3>. QED
      BY <3>1, <3>2 DEF Starts
  <2>. QED
    BY <2>1, <2>2
<1>3. Numbering'
  BY <1>1 DEF CellInv, Numbering, Numbered, First, Past
<1>4. Sequence'
  BY <1>1 DEF CellInv, Sequence, First, Past
<1>5. OnLine'
  BY <1>1 DEF CellInv, OnLine, First, Newest, Pipe!Newest
<1>6. NoGap'
  BY <1>1 DEF CellInv, NoGap, Underway, First, Past
<1>. QED
  BY <1>3, <1>4, <1>5, <1>6 DEF CellInv

(* A handler fills a segment with the next cells.                             *)
LEMMA FillCells ==
  ASSUME Local, RingOK, CellInv, NEW h \in Handlers, NEW k \in 1 .. Max, Fill(h, k)
  PROVE  CellInv'
<1> DEFINE s == next
<1>1. pc[h] = "look" /\ pc[h] \in Holding /\ state = "enabled"
  <2>1. pc[h] = "look"
    BY DEF Fill
  <2>. QED
    BY <2>1, DownIsIdle DEF Holding
<1>2. loc[h].ix = next /\ next \in Segments /\ seg \in [Segments -> SegRecords] /\ k \in Nat /\ 1 <= k
      /\ Max \in 1 .. 255 /\ 1 \in 1 .. Max /\ \A j \in 1 .. k : j \in 1 .. Max /\ j <= k
  <2>1. Max \in 1 .. 255
    BY SettingType DEF Local
  <2>. QED
    BY <1>1, <2>1, Holder DEF Local, Types, ChannelType
<1>3. /\ seg[next].state = "ready"
      /\ seg' = [seg EXCEPT ![next] = [state |-> "ready", handle |-> next,
                                      count |-> k, addr |-> next, off |-> 0]]
      /\ mem' = [mem EXCEPT ![next] = [i \in 1 .. Max |-> IF i <= k THEN supplied + i ELSE mem[next][i]]]
      /\ supplied' = supplied + k /\ UNCHANGED <<state, next, armq, hw, line, stops, rejects>>
      /\ pc' = [pc EXCEPT ![h] = "mark"]
  BY <1>2 DEF Fill, arm, ctl
<1>4. ~Loaded /\ Loaded'
  <2>1. ~At("mark") /\ ~At("post")
    BY <1>1, Holder DEF Holding
  <2>2. At("mark")'
    BY <1>1, <1>3, AtStep DEF Holding
  <2>. QED
    BY <1>1, <1>3, <2>1, <2>2 DEF Loaded, Loading
<1>5. mem \in [Segments -> [1 .. Max -> 0 .. Cells]]
  BY DEF Local, Types, DataType
<1>6. /\ \A a \in Segments : a # next => mem'[a] = mem[a]
      /\ \A j \in 1 .. k : mem'[next][j] = supplied + j
  BY <1>2, <1>3, <1>5
<1>7. /\ \A i \in DOMAIN hw : hw[i].cmd.addr \in Segments /\ hw[i].cmd.addr # next /\ hw[i].cmd \in Commands
                            /\ hw[i].sent \in Nat
      /\ \A i \in Starts : armq[i].addr \in Segments /\ armq[i].addr # next /\ armq[i] \in Commands
  <2>1. PICK w \in 0 .. N : Ring(w) /\ Inside(w)
    BY <1>1 DEF RingOK
  <2>2. ~(Dist(cur, next) < w)
    BY <1>2, <1>3, <2>1 DEF Ring
  <2>3. \A d \in Descriptors : d.cmd \in Commands
    BY DEF Descriptors
  <2>. QED
    BY <2>1, <2>2, <2>3, QueueElements, CellNumbers DEF Inside, Starts
<1>8. /\ \A i \in DOMAIN hw : First(hw[i].cmd)' = First(hw[i].cmd) /\ Past(hw[i].cmd)' = Past(hw[i].cmd)
      /\ \A i \in Starts : First(armq[i])' = First(armq[i]) /\ Past(armq[i])' = Past(armq[i])
  BY <1>3, <1>6, <1>7 DEF First, Past
<1>9. Starts' = Starts /\ Newest' = Newest /\ (Smooth' <=> Smooth)
  BY <1>3 DEF Starts, Newest, Pipe!Newest, Smooth
<1>10. Command(next)'.addr = next /\ Command(next)'.count = k
  BY <1>2, <1>3 DEF Command
<1>11. First(Command(next))' = supplied + 1 /\ Past(Command(next))' = supplied + 1 + k
  <2>1. First(Command(next))' = mem'[next][1]
    BY <1>10 DEF First
  <2>2. 1 \in 1 .. k
    BY <1>2
  <2>3. First(Command(next))' = supplied + 1
    BY <1>6, <2>1, <2>2
  <2>4. Past(Command(next))' = First(Command(next))' + Command(next)'.count
    BY DEF Past
  <2>. QED
    BY <1>10, <2>3, <2>4
<1>12. supplied \in Nat /\ \A c \in Commands : First(c) \in Nat /\ c.count \in Nat /\ Past(c) \in Nat
  BY CellNumbers
<1>13. Numbering'
  <2>1. \A i \in DOMAIN hw : Numbered(hw[i].cmd)'
    BY <1>2, <1>3, <1>6, <1>7, <1>8, <1>12 DEF CellInv, Numbering, Numbered
  <2>2. \A i \in Starts : Numbered(armq[i])'
    BY <1>2, <1>3, <1>6, <1>7, <1>8, <1>12 DEF CellInv, Numbering, Numbered
  <2>3. Numbered(Command(next))' /\ Past(Command(next))' = supplied' + 1
    <3>1. Past(Command(next))' = supplied' + 1
      BY <1>2, <1>3, <1>11, <1>12
    <3>2. ASSUME NEW j \in 1 .. k PROVE mem'[next][j] = First(Command(next))' + j - 1
      BY <1>2, <1>6, <1>11, <1>12
    <3>3. \A j \in 1 .. Command(next)'.count :
             mem'[Command(next)'.addr][j] = First(Command(next))' + j - 1
      BY <1>10, <3>2
    <3>4. Past(Command(next))' <= supplied' + 1
      BY <1>2, <1>3, <1>12, <3>1
    <3>. QED
      BY <3>1, <3>3, <3>4 DEF Numbered
  <2>. QED
    BY <1>3, <1>9, <2>1, <2>2, <2>3 DEF Numbering
<1>14. Sequence'
  <2>1. \A i \in DOMAIN hw : Past(hw[i].cmd) <= supplied + 1
    BY DEF CellInv, Numbering, Numbered
  <2>2. \A i \in Starts : Past(armq[i]) <= supplied + 1
    BY DEF CellInv, Numbering, Numbered
  <2>. QED
    BY <1>3, <1>8, <1>9, <1>11, <2>1, <2>2 DEF CellInv, Sequence
<1>15. OnLine'
  BY <1>2, <1>3, <1>8, <1>9, <1>11, <1>12, CellNumbers DEF CellInv, OnLine
<1>16. NoGap'
  <2> SUFFICES ASSUME Smooth, NEW c \in Nat, c > Len(line), c <= supplied + k
               PROVE  Underway(c)'
    BY <1>3, <1>9 DEF CellInv, NoGap
  <2>1. CASE c <= supplied
    <3>1. Underway(c)
      BY <2>1 DEF CellInv, NoGap
    <3>. QED
      BY <1>3, <1>4, <1>8, <1>9, <3>1 DEF Underway
  <2>2. CASE ~(c <= supplied)
    BY <1>4, <1>11, <1>12, <2>2 DEF Underway
  <2>. QED
    BY <2>1, <2>2
<1>. QED
  BY <1>13, <1>14, <1>15, <1>16 DEF CellInv

(* The command of a loaded segment is written.                                *)
LEMMA PostCells ==
  ASSUME Local, RingOK, CellInv, NEW h \in Handlers, Post(h)
  PROVE  CellInv'
<1>1. pc[h] = "post" /\ pc[h] \in Holding /\ state = "enabled"
  <2>1. pc[h] = "post"
    BY DEF Post
  <2>. QED
    BY <2>1, DownIsIdle DEF Holding
<1>0. PICK n, c : n = Len(armq) + 1 /\ c = Command(next)
  OBVIOUS
<1>2. /\ armq' = Append(armq, Command(next)) /\ armq \in Seq(Commands)
      /\ UNCHANGED <<state, next, seg, mem, hw, line, supplied, stops, rejects>>
      /\ pc' = [pc EXCEPT ![h] = "advance"]
  <2>1. loc[h].cmd = Command(next)
    BY <1>1, Holder
  <2>. QED
    BY <2>1 DEF Post, Local, Types, QueueType, chan, ctl
<1>3. Loaded /\ At("post")
  BY <1>1, Holder DEF Loaded, Loading, Holding
<1>4. ~Loaded'
  <2>1. ~At("mark")' /\ ~At("post")'
    BY <1>1, <1>2, AtStep DEF Holding
  <2>2. seg[next].state # "pending"
    BY <1>1, <1>3 DEF RingOK, Ring, Local, Types, ChannelType
  <2>. QED
    BY <1>2, <2>1, <2>2 DEF Loaded, Loading
<1>5. Command(next) \in Commands /\ Command(next).op = "start"
  BY CellNumbers DEF Command
<1>6. /\ \A i \in DOMAIN armq : i \in DOMAIN armq' /\ armq'[i] = armq[i] /\ i < n /\ ~(n < i)
      /\ n \in DOMAIN armq' /\ armq'[n] = Command(next) /\ ~(n < n)
      /\ \A i \in DOMAIN armq' : i \in DOMAIN armq \/ i = n
  BY <1>0, <1>2, <1>5
<1>7. /\ \A i \in Starts : i \in Starts' /\ armq'[i] = armq[i] /\ i < n /\ ~(n < i)
      /\ n \in Starts' /\ armq'[n] = Command(next)
      /\ \A i \in Starts' : i \in Starts \/ i = n
  BY <1>5, <1>6 DEF Starts
<1>8. /\ \A i \in DOMAIN hw : First(hw[i].cmd)' = First(hw[i].cmd) /\ Past(hw[i].cmd)' = Past(hw[i].cmd)
                              /\ (Numbered(hw[i].cmd)' <=> Numbered(hw[i].cmd))
      /\ \A i \in Starts : First(armq[i])' = First(armq[i]) /\ Past(armq[i])' = Past(armq[i])
                            /\ (Numbered(armq[i])' <=> Numbered(armq[i]))
      /\ First(armq[n])' = First(c) /\ Past(armq[n])' = Past(c) /\ (Numbered(armq[n])' <=> Numbered(c))
  <2>1. mem' = mem /\ hw' = hw /\ supplied' = supplied
    BY <1>2
  <2>2. \A i \in Starts : armq'[i] = armq[i]
    BY <1>7
  <2>3. armq'[n] = c
    BY <1>0, <1>7
  <2>4. \A i \in DOMAIN hw : First(hw[i].cmd)' = First(hw[i].cmd) /\ Past(hw[i].cmd)' = Past(hw[i].cmd)
                              /\ (Numbered(hw[i].cmd)' <=> Numbered(hw[i].cmd))
    BY <2>1 DEF First, Past, Numbered
  <2>5. \A i \in Starts : First(armq[i])' = First(armq[i]) /\ Past(armq[i])' = Past(armq[i])
                           /\ (Numbered(armq[i])' <=> Numbered(armq[i]))
    BY <2>1, <2>2 DEF First, Past, Numbered
  <2>6. First(armq[n])' = First(c) /\ Past(armq[n])' = Past(c) /\ (Numbered(armq[n])' <=> Numbered(c))
    BY <2>1, <2>3 DEF First, Past, Numbered
  <2>. QED
    BY <2>4, <2>5, <2>6
<1>9. /\ hw' = hw /\ line' = line /\ supplied' = supplied /\ (Smooth' <=> Smooth) /\ Newest' = Newest
      /\ Numbered(c) /\ Past(c) = supplied + 1 /\ Newest < First(c)
      /\ \A i \in DOMAIN hw : Past(hw[i].cmd) <= First(c)
      /\ \A i \in Starts : Past(armq[i]) <= First(c)
  BY <1>0, <1>2, <1>3 DEF CellInv, Numbering, Sequence, OnLine, Smooth, Newest, Pipe!Newest
<1>10. Numbering'
  BY <1>4, <1>7, <1>8, <1>9 DEF CellInv, Numbering
<1>11. Sequence'
  <2>1. ASSUME NEW i \in DOMAIN hw'
        PROVE  /\ \A j \in DOMAIN hw' : i < j => Past(hw[i].cmd)' <= First(hw[j].cmd)'
               /\ \A j \in Starts' : Past(hw[i].cmd)' <= First(armq[j])'
    BY <1>7, <1>8, <1>9 DEF CellInv, Sequence
  <2>2. ASSUME NEW i \in Starts', NEW j \in Starts', i < j PROVE Past(armq[i])' <= First(armq[j])'
    <3>1. i \in Starts
      <4>1. j \in Starts \/ j = n
        BY <1>7, <2>2
      <4>2. ~(n < j)
        BY <1>6, <1>7, <4>1
      <4>. QED
        BY <1>7, <2>2, <4>2
    <3>2. CASE j \in Starts
      <4>1. Past(armq[i]) <= First(armq[j])
        BY <2>2, <3>1, <3>2 DEF CellInv, Sequence
      <4>. QED
        BY <1>8, <3>1, <3>2, <4>1
    <3>3. CASE j = n
      BY <1>8, <1>9, <3>1, <3>3
    <3>. QED
      BY <1>7, <3>2, <3>3
  <2>. QED
    BY <1>4, <2>1, <2>2 DEF Sequence
<1>12. OnLine'
  BY <1>4, <1>7, <1>8, <1>9 DEF CellInv, OnLine
<1>13. NoGap'
  <2> SUFFICES ASSUME Smooth, NEW x \in Nat, x > Len(line), x <= supplied
               PROVE  Underway(x)'
    BY <1>9 DEF CellInv, NoGap
  <2>1. Underway(x)
    BY DEF CellInv, NoGap
  <2>2. ASSUME NEW i \in DOMAIN hw, First(hw[i].cmd) + hw[i].sent <= x, x < Past(hw[i].cmd)
        PROVE  Underway(x)'
    BY <1>8, <1>9, <2>2 DEF Underway
  <2>3. ASSUME NEW i \in Starts, First(armq[i]) <= x, x < Past(armq[i])
        PROVE  Underway(x)'
    <3>1. i \in Starts'
      BY <1>7
    <3>. QED
      BY <1>8, <2>3, <3>1 DEF Underway
  <2>4. ASSUME First(c) <= x PROVE Underway(x)'
    <3>1. n \in Starts' /\ First(armq[n])' <= x /\ x < Past(armq[n])'
      <4>1. supplied \in Nat
        BY CellNumbers
      <4>. QED
        BY <1>7, <1>8, <1>9, <2>4, <4>1
    <3>. QED
      BY <3>1 DEF Underway
  <2>. QED
    BY <1>0, <2>1, <2>2, <2>3, <2>4 DEF Underway
<1>. QED
  BY <1>10, <1>11, <1>12, <1>13 DEF CellInv

(* A completion is never about the segment that waits for its command.        *)
LEMMA AcknowledgeCells ==
  ASSUME Local, RingOK, CellInv, Acknowledge
  PROVE  CellInv'
<1> DEFINE g == Head(resp).handle
<1>1. /\ UNCHANGED <<state, next, pc, mem, supplied, hw, line, armq, stops, rejects>>
      /\ state = "enabled" /\ Popped
      /\ seg' = [s \in Segments |-> IF Dist(cur, s) <= Dist(cur, g)
                                      THEN [seg[s] EXCEPT !.state = "ready"] ELSE seg[s]]
  BY DEF Acknowledge, caller, ctl
<1>2. g = resp[1].handle /\ 1 \in DOMAIN resp
  BY <1>1 DEF Popped, Local, Types, QueueType
<1>3. PICK w \in 0 .. N : Ring(w) /\ Inside(w)
  BY <1>1 DEF RingOK
<1>4. Dist(cur, g) < w /\ g \in Segments
  BY <1>2, <1>3, QueueElements DEF Inside
<1>5. next \in Segments /\ seg \in [Segments -> SegRecords]
  BY DEF Local, Types, ChannelType
<1>6. Command(next)' = Command(next) /\ (Loading' <=> Loading)
  BY <1>1, <1>5 DEF Command, SegRecords, Loading, At
<1>7. seg'[next].state = "pending" <=> seg[next].state = "pending"
  <2>1. ASSUME seg[next].state = "pending" PROVE ~(Dist(cur, next) <= Dist(cur, g))
    <3>1. ~At("advance") /\ w < N
      BY <1>3, <1>5, <2>1, Window DEF Ring
    <3>2. ~(Dist(cur, next) < w)
      BY <1>3, <3>1, Window
    <3>3. Dist(cur, next) \in 0 .. N - 1 /\ Dist(cur, g) \in 0 .. N - 1 /\ w \in Nat /\ N \in Nat
      BY <1>3, <1>4, <1>5, Window
    <3>. QED
      BY <1>4, <3>2, <3>3
  <2>. QED
    BY <1>1, <1>5, <2>1 DEF SegRecords
<1>8. (Loaded' <=> Loaded) /\ (Smooth' <=> Smooth)
  BY <1>1, <1>6, <1>7 DEF Loaded, Smooth
<1>. QED
  BY <1>1, <1>6, <1>8, CellsSame

(* The other steps of the handlers move no cell; a segment that is marked,    *)
(* or whose command could not be written, stays the one that waits.           *)
LEMMA HandlerCells ==
  ASSUME Local, RingOK, CellInv, NEW h \in Handlers,
         Enter(h) \/ Lock(h) \/ Resend(h) \/ Leave(h) \/ Mark(h) \/ PostFails(h) \/ Advance(h)
  PROVE  CellInv'
<1>1. /\ UNCHANGED <<mem, supplied, hw, line, armq>> /\ (Smooth' <=> Smooth) /\ state' = state
      /\ pc[h] \in Holding \/ lock = "free"
  <2>1. UNCHANGED <<mem, supplied, hw, line, armq, stops, rejects, state>>
    BY DEF Enter, Lock, Resend, Leave, Mark, PostFails, Advance, chan, arm, ctl
  <2>2. pc[h] \in Holding \/ lock = "free"
    BY DEF Enter, Lock, Resend, Leave, Mark, PostFails, Advance, Holding
  <2>. QED
    BY <2>1, <2>2 DEF Smooth
<1>2. next \in Segments /\ seg \in [Segments -> SegRecords] /\ After(next) \in Segments
  BY SettingType DEF Local, Types, ChannelType
<1>3. CASE Enter(h) \/ Lock(h) \/ Leave(h)
  <2>1. PICK x \in {"lock", "look", "idle"} : pc' = [pc EXCEPT ![h] = x]
    BY <1>3 DEF Enter, Lock, Leave, Unlock
  <2>2. pc[h] = "look" \/ lock = "free"
    BY <1>3 DEF Enter, Lock, Leave
  <2>3. ~Loading /\ ~Loading'
    BY <2>1, <2>2, Holder, NoHolder, AtStep DEF Loading, Holding
  <2>4. UNCHANGED <<seg, next>>
    BY <1>3 DEF Enter, Lock, Leave, chan
  <2>5. (Loaded' <=> Loaded) /\ Command(next)' = Command(next)
    BY <1>1, <2>3, <2>4 DEF Loaded, Command
  <2>. QED
    BY <1>1, <2>5, CellsSame
<1>4. CASE Resend(h) \/ Mark(h) \/ PostFails(h)
  <2>1. pc[h] \in {"look", "mark", "post"} /\ pc[h] \in Holding
    BY <1>4 DEF Resend, Mark, PostFails, Holding
  <2>2. loc[h].ix = next /\ state = "enabled"
    BY <2>1, Holder, DownIsIdle
  <2>3. next' = next /\ \/ seg' = seg
                        \/ seg' = [seg EXCEPT ![next].state = "arm"]
                        \/ seg' = [seg EXCEPT ![next].state = "pending"]
    BY <1>4, <2>2 DEF Resend, Mark, PostFails, chan
  <2>4. Command(next)' = Command(next)
    BY <1>2, <2>3 DEF Command, SegRecords
  <2>5. Loaded
    <3>1. CASE Resend(h)
      BY <2>2, <3>1 DEF Resend, Loaded
    <3>2. CASE Mark(h) \/ PostFails(h)
      BY <2>2, <3>2 DEF Mark, PostFails, Loaded, Loading, At
    <3>. QED
      BY <1>4, <3>1, <3>2
  <2>6. Loaded'
    <3>1. CASE Resend(h) \/ Mark(h)
      <4>1. At("mark")' \/ At("post")'
        BY <2>1, <3>1, AtStep DEF Resend, Mark, Holding
      <4>. QED
        BY <1>1, <2>2, <4>1 DEF Loaded, Loading
    <3>2. CASE PostFails(h)
      <4>1. seg'[next].state = "pending"
        BY <1>2, <2>2, <3>2 DEF PostFails
      <4>. QED
        BY <1>1, <2>2, <2>3, <4>1 DEF Loaded
    <3>. QED
      BY <1>4, <3>1, <3>2
  <2>. QED
    BY <1>1, <2>4, <2>5, <2>6, CellsSame
<1>5. CASE Advance(h)
  <2>1. pc[h] = "advance" /\ pc[h] \in Holding
    BY <1>5 DEF Advance, Holding
  <2>2. At("advance") /\ ~Loading /\ state = "enabled"
    BY <2>1, Holder, DownIsIdle DEF Loading, Holding
  <2>3. PICK w \in 0 .. N : Ring(w)
    BY <2>2 DEF RingOK
  <2>4. seg[next].state # "pending" /\ seg[After(next)].state # "pending"
    BY <1>2, <2>2, <2>3 DEF Ring
  <2>5. PICK x \in {"look", "idle"} : pc' = [pc EXCEPT ![h] = x]
    BY <1>5 DEF Advance, Unlock
  <2>6. ~Loading'
    BY <2>1, <2>5, AtStep DEF Loading, Holding
  <2>7. seg' = seg /\ next' = After(next)
    BY <1>5 DEF Advance
  <2>8. ~Loaded /\ ~Loaded'
    BY <2>2, <2>4, <2>6, <2>7 DEF Loaded
  <2>. QED
    BY <1>1, <2>8, CellsSame
<1>. QED
  BY <1>3, <1>4, <1>5

(* Nor do the steps of the link and the responses that change nothing.        *)
LEMMA LinkCells ==
  ASSUME Local, RingOK, CellInv, Enable \/ Disable \/ Discard
  PROVE  CellInv'
<1>1. CASE Enable
  <2>1. state # "enabled" /\ stopPc = "no"
        /\ UNCHANGED <<next, seg, pc, mem, supplied, armq, hw, line, stops, rejects>>
    BY <1>1 DEF Enable, caller, arm
  <2>2. seg[next].state = "ready"
    BY <2>1 DEF Local, StopOK, Types, ChannelType
  <2>3. ~Loading
    BY <2>1, DownIsIdle DEF Loading, At
  <2>4. ~Loading'
    BY <2>1, <2>3 DEF Loading, At
  <2>5. ~Loaded /\ ~Loaded' /\ (Smooth' <=> Smooth)
    BY <2>1, <2>2, <2>3, <2>4 DEF Loaded, Smooth
  <2>. QED
    BY <2>1, <2>5, CellsSame
<1>2. CASE DisableMark
  <2>1. state' = "disabled" /\ stops' = stops + 1 /\ stops \in Nat
        /\ UNCHANGED <<mem, supplied, armq, hw, line>>
    BY <1>2 DEF DisableMark, arm, Local, Types, ControlType
  <2>2. ~Loaded' /\ ~Smooth'
    BY <2>1 DEF Loaded, Smooth
  <2>. QED
    BY <2>1, <2>2, CellsSame
<1>3. CASE DisableStop \/ DisableReset
  <2>1. state = "disabled" /\ UNCHANGED <<state, mem, supplied, hw, line, stops, rejects>>
        /\ (armq' = armq \/ armq' = Append(armq, StopCmd)) /\ armq \in Seq(Commands)
    BY <1>3 DEF DisableStop, DisableReset, chan, arm, Local, StopOK, Types, QueueType
  <2>2. ~Loaded /\ ~Loaded' /\ (Smooth' <=> Smooth)
    BY <2>1 DEF Loaded, Smooth
  <2>. QED
    BY <2>1, <2>2, CellsSame
<1>4. CASE Discard
  <2>1. UNCHANGED <<state, seg, next, pc, mem, supplied, armq, hw, line, stops, rejects>>
    BY <1>4 DEF Discard, chan, caller, ctl
  <2>2. (Loaded' <=> Loaded) /\ (Smooth' <=> Smooth) /\ Command(next)' = Command(next)
    BY <2>1 DEF Loaded, Loading, At, Smooth, Command
  <2>. QED
    BY <2>1, <2>2, CellsSame
<1>. QED
  BY <1>1, <1>2, <1>3, <1>4 DEF Disable

(* The oldest command of the queue, which moves to the ARM, or is dropped     *)
(* with all that the ARM has.                                                 *)
LEMMA ArmTakeCells ==
  ASSUME Local, CellInv, rejects \in Nat, ArmTake \/ (ArmStop /\ ~Smooth)
  PROVE  CellInv'
<1>0. PICK c, m, u, z : c = Head(armq) /\ m = Len(hw) + 1 /\ u = mem /\ z = Command(next)
  OBVIOUS
<1> DEFINE F(x) == u[x.addr][1]
           P(x) == F(x) + x.count
           W(x) == P(x) <= supplied + 1 /\ \A j \in 1 .. x.count : u[x.addr][j] = F(x) + j - 1
<1>1. /\ UNCHANGED <<mem, supplied, line, stops>> /\ (Loaded' <=> Loaded) /\ Command(next)' = z
      /\ armq # <<>> /\ armq' = Tail(armq) /\ armq \in Seq(Commands) /\ hw \in Seq(Descriptors)
      /\ \/ ArmTake /\ c.op = "start" /\ hw' = Append(hw, [cmd |-> c, sent |-> 0]) /\ rejects' = rejects
         \/ hw' = hw /\ rejects' = rejects + 1
         \/ hw' = <<>> /\ ~Smooth /\ rejects' = rejects
  <2>1. UNCHANGED <<mem, supplied, line, stops, state, next, seg, pc>>
    BY DEF ArmTake, ArmStop, chan, caller, ctl
  <2>2. (Loaded' <=> Loaded) /\ Command(next)' = Command(next)
    BY <2>1 DEF Loaded, Loading, At, Command
  <2>3. armq \in Seq(Commands) /\ hw \in Seq(Descriptors)
    BY DEF Local, Types, QueueType
  <2>. QED
    BY <1>0, <2>1, <2>2, <2>3 DEF ArmTake, ArmStop
<1>2. Newest' = Newest /\ (Smooth' => Smooth /\ rejects' = rejects)
  BY <1>1 DEF Smooth, Newest, Pipe!Newest
<1>3. /\ \A i \in DOMAIN armq' : i + 1 \in DOMAIN armq /\ armq'[i] = armq[i + 1] /\ i + 1 > 1
      /\ \A i, j \in DOMAIN armq' : i < j => i + 1 < j + 1
      /\ c = armq[1] /\ 1 \in DOMAIN armq /\ \A i \in DOMAIN armq : i # 1 => i - 1 \in DOMAIN armq'
  <2>1. \A i \in DOMAIN armq : i # 1 => i - 1 \in DOMAIN armq'
    BY <1>1
  <2>. QED
    BY <1>0, <1>1, <2>1, TailIs
<1>4. /\ \A i \in Starts' : i + 1 \in Starts /\ armq'[i] = armq[i + 1] /\ i + 1 > 1
      /\ \A i, j \in Starts' : i < j => i + 1 < j + 1
      /\ c.op = "start" => 1 \in Starts
      /\ \A i \in Starts : i # 1 => i - 1 \in Starts' /\ armq'[i - 1] = armq[i]
  <2>1. \A i \in DOMAIN armq : i # 1 => armq'[i - 1] = armq[i]
    BY <1>1, <1>3
  <2>. QED
    BY <1>3, <2>1 DEF Starts
<1>5. /\ \A x : First(x) = F(x) /\ Past(x) = P(x) /\ (Numbered(x) <=> W(x))
      /\ \A i \in DOMAIN hw' : First(hw[i].cmd)' = F(hw'[i].cmd) /\ Past(hw[i].cmd)' = P(hw'[i].cmd)
                              /\ (Numbered(hw[i].cmd)' <=> W(hw'[i].cmd))
      /\ \A i \in Starts' : First(armq[i])' = F(armq'[i]) /\ Past(armq[i])' = P(armq'[i])
                           /\ (Numbered(armq[i])' <=> W(armq'[i]))
      /\ First(Command(next))' = F(z) /\ Past(Command(next))' = P(z)
      /\ (Numbered(Command(next))' <=> W(z))
  BY <1>0, <1>1 DEF First, Past, Numbered
<1> HIDE DEF F, P, W
<1>6. /\ \A i \in DOMAIN hw : W(hw[i].cmd) /\ Newest < F(hw[i].cmd) + hw[i].sent
      /\ \A i \in Starts : W(armq[i]) /\ Newest < F(armq[i])
      /\ \A i, j \in DOMAIN hw : i < j => P(hw[i].cmd) <= F(hw[j].cmd)
      /\ \A i \in DOMAIN hw, j \in Starts : P(hw[i].cmd) <= F(armq[j])
      /\ \A i, j \in Starts : i < j => P(armq[i]) <= F(armq[j])
      /\ Loaded => /\ W(z) /\ P(z) = supplied + 1 /\ Newest < F(z)
                   /\ \A i \in DOMAIN hw : P(hw[i].cmd) <= F(z)
                   /\ \A i \in Starts : P(armq[i]) <= F(z)
      /\ Newest <= supplied
  BY <1>0, <1>5 DEF CellInv, Numbering, Sequence, OnLine
<1>7. F(c) \in Nat
  BY <1>1, <1>3, <1>5, CellNumbers, QueueElements
<1> DEFINE Good ==
      /\ \A i \in DOMAIN hw' : W(hw'[i].cmd) /\ Newest < F(hw'[i].cmd) + hw'[i].sent
      /\ \A i, j \in DOMAIN hw' : i < j => P(hw'[i].cmd) <= F(hw'[j].cmd)
      /\ \A i \in DOMAIN hw', j \in Starts' : P(hw'[i].cmd) <= F(armq'[j])
      /\ Loaded => \A i \in DOMAIN hw' : P(hw'[i].cmd) <= F(z)
      /\ Smooth' => \A x \in Nat : x > Len(line) /\ x <= supplied =>
           \/ \E i \in DOMAIN hw' : F(hw'[i].cmd) + hw'[i].sent <= x /\ x < P(hw'[i].cmd)
           \/ \E i \in Starts' : F(armq'[i]) <= x /\ x < P(armq'[i])
           \/ Loaded /\ F(z) <= x
<1>8. ASSUME Good PROVE CellInv'
  <2>1. /\ \A i \in Starts' : W(armq'[i]) /\ Newest < F(armq'[i])
        /\ Loaded => \A i \in Starts' : P(armq'[i]) <= F(z)
        /\ \A i, j \in Starts' : i < j => P(armq'[i]) <= F(armq'[j])
    BY <1>4, <1>6
  <2>2. Numbering'
    BY <1>1, <1>5, <1>6, <1>8, <2>1 DEF Numbering
  <2>3. Sequence'
    BY <1>1, <1>5, <1>8, <2>1 DEF Sequence
  <2>4. OnLine'
    BY <1>1, <1>2, <1>5, <1>6, <1>8, <2>1 DEF OnLine
  <2>5. NoGap'
    <3> SUFFICES ASSUME Smooth'
                 PROVE  /\ \A i \in DOMAIN line' : line'[i] = i
                        /\ \A x \in Nat : x > Len(line') /\ x <= supplied' => Underway(x)'
      BY DEF NoGap
    <3>1. \A i \in DOMAIN line : line[i] = i
      BY <1>2 DEF CellInv, NoGap
    <3>2. \A x \in Nat : x > Len(line) /\ x <= supplied => Underway(x)'
      BY <1>1, <1>5, <1>8 DEF Underway
    <3>. QED
      BY <1>1, <3>1, <3>2
  <2>. QED
    BY <2>2, <2>3, <2>4, <2>5 DEF CellInv
<1>9. Smooth' => \A x \in Nat : x > Len(line) /\ x <= supplied =>
           \/ \E i \in DOMAIN hw : F(hw[i].cmd) + hw[i].sent <= x /\ x < P(hw[i].cmd)
           \/ \E i \in Starts : F(armq[i]) <= x /\ x < P(armq[i])
           \/ Loaded /\ F(z) <= x
  BY <1>0, <1>2, <1>5 DEF CellInv, NoGap, Underway
<1>10. CASE c.op = "start" /\ hw' = Append(hw, [cmd |-> c, sent |-> 0]) /\ rejects' = rejects
  <2>1. /\ \A i \in DOMAIN hw : i \in DOMAIN hw' /\ hw'[i] = hw[i] /\ ~(m <= i)
        /\ m \in DOMAIN hw' /\ hw'[m].cmd = c /\ hw'[m].sent = 0
        /\ \A i \in DOMAIN hw' : i \in DOMAIN hw \/ i = m
        /\ \A i, j \in DOMAIN hw' : i < j => i \in DOMAIN hw
    <3>1. \A i \in DOMAIN hw : i \in DOMAIN hw' /\ hw'[i] = hw[i] /\ ~(m <= i)
      BY <1>0, <1>1, <1>10
    <3>2. m \in DOMAIN hw' /\ hw'[m] = [cmd |-> c, sent |-> 0]
      BY <1>0, <1>1, <1>10
    <3>3. \A i \in DOMAIN hw' : i \in DOMAIN hw \/ i = m
      BY <1>0, <1>1, <1>10
    <3>4. \A i, j \in DOMAIN hw' : i < j => i \in DOMAIN hw
      BY <1>1, <1>10, AppendIs
    <3>. QED
      BY <3>1, <3>2, <3>3, <3>4
  <2>2. 1 \in Starts /\ armq[1] = c
    BY <1>3, <1>4, <1>10
  <2>3. /\ W(c) /\ Newest < F(c) + 0 /\ \A i \in DOMAIN hw : P(hw[i].cmd) <= F(c)
        /\ \A i \in Starts' : P(c) <= F(armq'[i])
        /\ Loaded => P(c) <= F(z)
    BY <1>4, <1>6, <1>7, <2>2
  <2>4. \A i \in DOMAIN hw' : W(hw'[i].cmd) /\ Newest < F(hw'[i].cmd) + hw'[i].sent
    BY <1>6, <2>1, <2>3
  <2>5. \A i, j \in DOMAIN hw' : i < j => P(hw'[i].cmd) <= F(hw'[j].cmd)
    BY <1>6, <2>1, <2>3
  <2>6. \A i \in DOMAIN hw', j \in Starts' : P(hw'[i].cmd) <= F(armq'[j])
    BY <1>4, <1>6, <2>1, <2>3
  <2>7. Loaded => \A i \in DOMAIN hw' : P(hw'[i].cmd) <= F(z)
    BY <1>6, <2>1, <2>3
  <2>8. ASSUME Smooth', NEW x \in Nat, x > Len(line), x <= supplied
        PROVE  \/ \E i \in DOMAIN hw' : F(hw'[i].cmd) + hw'[i].sent <= x /\ x < P(hw'[i].cmd)
               \/ \E i \in Starts' : F(armq'[i]) <= x /\ x < P(armq'[i])
               \/ Loaded /\ F(z) <= x
    <3>1. ASSUME NEW i \in Starts, F(armq[i]) <= x, x < P(armq[i]), i = 1
          PROVE  F(hw'[m].cmd) + hw'[m].sent <= x /\ x < P(hw'[m].cmd)
      BY <1>7, <2>1, <2>2, <3>1
    <3>. QED
      BY <1>4, <1>9, <2>1, <2>8, <3>1
  <2>. QED
    BY <1>8, <2>4, <2>5, <2>6, <2>7, <2>8
<1>11. CASE hw' = hw /\ rejects' = rejects + 1
  <2>1. ~Smooth'
    BY <1>11 DEF Smooth
  <2>2. \A i \in DOMAIN hw', j \in Starts' : P(hw'[i].cmd) <= F(armq'[j])
    BY <1>4, <1>6, <1>11
  <2>. QED
    BY <1>6, <1>8, <1>11, <2>1, <2>2
<1>12. CASE hw' = <<>> /\ ~Smooth /\ rejects' = rejects
  <2>1. ~Smooth' /\ DOMAIN hw' = {}
    BY <1>2, <1>12
  <2>. QED
    BY <1>8, <2>1
<1>. QED
  BY <1>1, <1>10, <1>11, <1>12

(* The cell the ARM sends is the oldest that is on its way, and follows the   *)
(* last one of the line while nothing has gone wrong.                         *)
LEMMA ArmSendsNext ==
  ASSUME Local, CellInv, ArmSend
  PROVE  LET d == Head(hw)
             x == First(d.cmd) + d.sent
         IN /\ line' = Append(line, x) /\ x \in Nat /\ x < Past(d.cmd) /\ Newest < x /\ x <= supplied
            /\ Smooth => x = Len(line) + 1
<1>0. PICK d, x : d = Head(hw) /\ x = First(d.cmd) + d.sent
  OBVIOUS
<1>1. /\ d \in Descriptors /\ d.cmd \in Commands /\ d = hw[1] /\ 1 \in DOMAIN hw
      /\ d.cmd.off = 0 /\ d.sent \in Nat /\ d.sent + 1 \in 1 .. d.cmd.count
      /\ d.cmd.count \in Nat /\ hw \in Seq(Descriptors)
  <2>1. hw # <<>>
    BY DEF ArmSend
  <2>2. /\ d \in Descriptors /\ d.cmd \in Commands /\ d = hw[1] /\ 1 \in DOMAIN hw
        /\ d.cmd.off = 0 /\ d.sent \in Nat /\ d.sent + 1 <= d.cmd.count /\ d.cmd.count \in 0 .. 255
    BY <1>0, <2>1, SegmentHead DEF Local
  <2>3. d.sent + 1 \in 1 .. d.cmd.count /\ d.cmd.count \in Nat
    <3> DEFINE k == d.sent
               b == d.cmd.count
    <3>1. k \in Nat /\ k + 1 <= b /\ b \in 0 .. 255
      BY <2>2
    <3> HIDE DEF k, b
    <3>2. k + 1 \in 1 .. b /\ b \in Nat
      BY <3>1
    <3>. QED
      BY <3>2 DEF k, b
  <2>4. hw \in Seq(Descriptors)
    BY DEF Local, Types, QueueType
  <2>. QED
    BY <2>2, <2>3, <2>4
<1>2. Numbered(d.cmd) /\ Newest < First(d.cmd) + d.sent
  BY <1>1 DEF CellInv, Numbering, OnLine
<1>3. First(d.cmd) \in Nat /\ Past(d.cmd) = First(d.cmd) + d.cmd.count /\ supplied \in Nat
      /\ Len(line) \in Nat /\ line \in Seq(0 .. Cells)
  BY <1>1, CellNumbers DEF Past
<1>4. mem[d.cmd.addr][d.cmd.off + (d.sent + 1)] = x
  <2>1. mem[d.cmd.addr][d.sent + 1] = First(d.cmd) + (d.sent + 1) - 1
    BY <1>1, <1>2 DEF Numbered
  <2> DEFINE k == d.sent
             f == First(d.cmd)
  <2>2. k \in Nat /\ f \in Nat
    BY <1>1, <1>3
  <2> HIDE DEF k, f
  <2>3. 0 + (k + 1) = k + 1 /\ f + (k + 1) - 1 = f + k
    BY <2>2
  <2>. QED
    BY <1>0, <1>1, <2>1, <2>3 DEF k, f
<1>5. x \in Nat /\ x < Past(d.cmd) /\ Newest < x /\ x <= supplied
  <2>1. Past(d.cmd) <= supplied + 1
    BY <1>2 DEF Numbered
  <2>2. x \in Nat /\ x < Past(d.cmd)
    <3> DEFINE k == d.sent
               b == d.cmd.count
               f == First(d.cmd)
    <3>1. k \in Nat /\ k + 1 \in 1 .. b /\ b \in Nat /\ f \in Nat /\ x = f + k /\ Past(d.cmd) = f + b
      BY <1>0, <1>1, <1>3
    <3> HIDE DEF k, b, f
    <3>. QED
      BY <3>1
  <2>3. Past(d.cmd) \in Nat
    BY <1>1, CellNumbers
  <2>4. x <= supplied
    BY <1>3, <2>1, <2>2, <2>3
  <2>. QED
    BY <1>0, <1>2, <2>2, <2>4
<1>6. line' = Append(line, x)
  BY <1>0, <1>4 DEF ArmSend
<1>7. ASSUME Smooth PROVE x = Len(line) + 1
  <2>1. /\ \A i \in DOMAIN line : line[i] = i
        /\ \A c \in Nat : c > Len(line) /\ c <= supplied => Underway(c)
    BY <1>7 DEF CellInv, NoGap
  <2>2. Newest = Len(line)
    <3>1. CASE line = <<>>
      BY <3>1 DEF Newest, Pipe!Newest
    <3>2. CASE line # <<>>
      <4>1. Len(line) \in DOMAIN line
        BY <1>3, <3>2
      <4>. QED
        BY <2>1, <3>2, <4>1 DEF Newest, Pipe!Newest
    <3>. QED
      BY <3>1, <3>2
  <2>3. Len(line) + 1 \in Nat /\ Len(line) + 1 <= x
    BY <1>3, <1>5, <2>2
  <2>4. PICK c : c = Len(line) + 1
    OBVIOUS
  <2>5. Underway(c)
    BY <1>3, <1>5, <2>1, <2>3, <2>4
  <2>6. ASSUME NEW i \in DOMAIN hw PROVE x <= First(hw[i].cmd) + hw[i].sent
    <3>1. CASE i = 1
      BY <1>0, <1>1, <1>5, <3>1
    <3>2. CASE i # 1
      <4>1. 1 < i
        BY <1>1, <3>2
      <4>2. Past(d.cmd) <= First(hw[i].cmd)
        BY <1>1, <4>1 DEF CellInv, Sequence
      <4>3. First(hw[i].cmd) \in Nat /\ hw[i].sent \in Nat /\ Past(d.cmd) \in Nat
        <5>1. hw[i] \in Descriptors /\ hw[i].cmd \in Commands
          BY QueueElements DEF Descriptors
        <5>. QED
          BY <1>1, <5>1, CellNumbers
      <4>. QED
        BY <1>5, <4>2, <4>3
    <3>. QED
      BY <3>1, <3>2
  <2>7. ASSUME NEW i \in Starts PROVE x <= First(armq[i])
    <3>1. Past(d.cmd) <= First(armq[i])
      BY <1>1 DEF CellInv, Sequence
    <3>2. First(armq[i]) \in Nat /\ Past(d.cmd) \in Nat
      BY <1>1, QueueElements, CellNumbers DEF Starts
    <3>. QED
      BY <1>5, <3>1, <3>2
  <2>8. ASSUME Loaded PROVE x <= First(Command(next))
    <3>1. Past(d.cmd) <= First(Command(next))
      BY <1>1, <2>8 DEF CellInv, Sequence
    <3>2. First(Command(next)) \in Nat /\ Past(d.cmd) \in Nat
      BY <1>1, CellNumbers
    <3>. QED
      BY <1>5, <3>1, <3>2
  <2>9. x <= c
    <3>1. ASSUME NEW i \in DOMAIN hw, First(hw[i].cmd) + hw[i].sent <= c PROVE x <= c
      <4>1. First(hw[i].cmd) \in Nat /\ hw[i].sent \in Nat
        <5>1. hw[i] \in Descriptors /\ hw[i].cmd \in Commands
          BY QueueElements DEF Descriptors
        <5>. QED
          BY <5>1, CellNumbers
      <4>. QED
        BY <1>5, <2>3, <2>4, <2>6, <3>1, <4>1
    <3>2. ASSUME NEW i \in Starts, First(armq[i]) <= c PROVE x <= c
      <4>1. First(armq[i]) \in Nat
        BY QueueElements, CellNumbers DEF Starts
      <4>. QED
        BY <1>5, <2>3, <2>4, <2>7, <3>2, <4>1
    <3>3. ASSUME Loaded, First(Command(next)) <= c PROVE x <= c
      <4>1. First(Command(next)) \in Nat
        BY CellNumbers
      <4>. QED
        BY <1>5, <2>3, <2>4, <2>8, <3>3, <4>1
    <3>. QED
      BY <2>5, <3>1, <3>2, <3>3 DEF Underway
  <2>. QED
    BY <1>5, <2>3, <2>4, <2>9
<1>. QED
  BY <1>0, <1>5, <1>6, <1>7

LEMMA ArmSendCells ==
  ASSUME Local, CellInv, ArmSend
  PROVE  CellInv'
<1>0. PICK d, n, x, u, z : /\ d = Head(hw) /\ n = d.sent + 1 /\ x = First(d.cmd) + d.sent
                           /\ u = mem /\ z = Command(next)
  OBVIOUS
<1> DEFINE F(y) == u[y.addr][1]
           P(y) == F(y) + y.count
           W(y) == P(y) <= supplied + 1 /\ \A j \in 1 .. y.count : u[y.addr][j] = F(y) + j - 1
<1>1. /\ UNCHANGED <<mem, supplied, armq>> /\ (Loaded' <=> Loaded) /\ Command(next)' = z
      /\ (Smooth' <=> Smooth) /\ Starts' = Starts /\ hw # <<>>
      /\ \/ n < d.cmd.count /\ hw' = [hw EXCEPT ![1].sent = n]
         \/ ~(n < d.cmd.count) /\ hw' = Tail(hw)
  <2>1. UNCHANGED <<mem, supplied, armq, stops, rejects, state, next, seg, pc>>
    BY DEF ArmSend, chan, caller, ctl
  <2>2. (Loaded' <=> Loaded) /\ Command(next)' = Command(next) /\ (Smooth' <=> Smooth) /\ Starts' = Starts
    BY <2>1 DEF Loaded, Loading, At, Command, Smooth, Starts
  <2>. QED
    BY <1>0, <2>1, <2>2 DEF ArmSend
<1>2. /\ line' = Append(line, x) /\ x \in Nat /\ x < Past(d.cmd) /\ Newest < x /\ x <= supplied
      /\ Smooth => x = Len(line) + 1
  BY <1>0, ArmSendsNext
<1>3. /\ d \in Descriptors /\ d.cmd \in Commands /\ d = hw[1] /\ 1 \in DOMAIN hw
      /\ d.sent \in Nat /\ d.cmd.count \in Nat /\ n \in Nat /\ n <= d.cmd.count
      /\ hw \in Seq(Descriptors) /\ line \in Seq(0 .. Cells) /\ Len(line) \in Nat
  <2>1. /\ d \in Descriptors /\ d.cmd \in Commands /\ d = hw[1] /\ 1 \in DOMAIN hw
        /\ d.sent \in Nat /\ d.sent + 1 <= d.cmd.count /\ d.cmd.count \in 0 .. 255
    BY <1>0, <1>1, SegmentHead DEF Local
  <2>2. d.sent + 1 \in Nat
    BY <2>1
  <2>3. d.cmd.count \in Nat /\ n \in Nat /\ n <= d.cmd.count
    BY <1>0, <2>1, <2>2
  <2>4. hw \in Seq(Descriptors) /\ line \in Seq(0 .. Cells) /\ Len(line) \in Nat
    BY DEF Local, Types, QueueType, DataType
  <2>. QED
    BY <2>1, <2>3, <2>4
<1>4. Newest' = x
  <2>1. Append(line, x) # <<>> /\ Append(line, x)[Len(Append(line, x))] = x
    BY <1>3
  <2>. QED
    BY <1>2, <2>1 DEF Newest, Pipe!Newest
<1>5. /\ \A y : First(y) = F(y) /\ Past(y) = P(y) /\ (Numbered(y) <=> W(y))
      /\ \A i \in DOMAIN hw' : First(hw[i].cmd)' = F(hw'[i].cmd) /\ Past(hw[i].cmd)' = P(hw'[i].cmd)
                              /\ (Numbered(hw[i].cmd)' <=> W(hw'[i].cmd))
      /\ \A i \in Starts' : First(armq[i])' = F(armq[i]) /\ Past(armq[i])' = P(armq[i])
                           /\ (Numbered(armq[i])' <=> W(armq[i]))
      /\ First(Command(next))' = F(z) /\ Past(Command(next))' = P(z)
      /\ (Numbered(Command(next))' <=> W(z))
  BY <1>0, <1>1 DEF First, Past, Numbered
<1>6. /\ F(d.cmd) \in Nat /\ x = F(d.cmd) + d.sent /\ P(d.cmd) = F(d.cmd) + d.cmd.count /\ P(d.cmd) \in Nat
      /\ \A i \in DOMAIN hw : F(hw[i].cmd) \in Nat /\ P(hw[i].cmd) \in Nat /\ hw[i].sent \in Nat
      /\ \A i \in Starts : F(armq[i]) \in Nat
      /\ F(z) \in Nat
  <2>1. \A y \in Commands : F(y) \in Nat /\ P(y) \in Nat
    BY <1>5, CellNumbers
  <2>2. \A i \in DOMAIN hw : hw[i].cmd \in Commands /\ hw[i].sent \in Nat
    BY QueueElements, CellNumbers DEF Descriptors
  <2>3. \A i \in Starts : armq[i] \in Commands
    BY QueueElements DEF Starts
  <2>4. z \in Commands
    BY <1>0, CellNumbers
  <2>5. x = F(d.cmd) + d.sent /\ P(d.cmd) = F(d.cmd) + d.cmd.count
    BY <1>0, <1>5
  <2> HIDE DEF F, P
  <2>. QED
    BY <1>3, <2>1, <2>2, <2>3, <2>4, <2>5
<1> HIDE DEF F, P, W
<1>7. /\ \A i \in DOMAIN hw : W(hw[i].cmd)
      /\ \A i \in Starts : W(armq[i])
      /\ \A i, j \in DOMAIN hw : i < j => P(hw[i].cmd) <= F(hw[j].cmd)
      /\ \A i \in DOMAIN hw, j \in Starts : P(hw[i].cmd) <= F(armq[j])
      /\ \A i, j \in Starts : i < j => P(armq[i]) <= F(armq[j])
      /\ Loaded => /\ W(z) /\ P(z) = supplied + 1
                   /\ \A i \in DOMAIN hw : P(hw[i].cmd) <= F(z)
                   /\ \A i \in Starts : P(armq[i]) <= F(z)
  BY <1>0, <1>5 DEF CellInv, Numbering, Sequence
<1>8. /\ \A i \in DOMAIN hw : i # 1 => x < F(hw[i].cmd)
      /\ \A i \in Starts : x < F(armq[i])
      /\ Loaded => x < F(z)
  <2>1. x < P(d.cmd)
    BY <1>2, <1>5
  <2>2. \A i \in DOMAIN hw : i # 1 => P(d.cmd) <= F(hw[i].cmd)
    <3>1. \A i \in DOMAIN hw : i # 1 => 1 < i
      BY <1>3
    <3>. QED
      BY <1>3, <1>7, <3>1
  <2>3. \A i \in Starts : P(d.cmd) <= F(armq[i])
    BY <1>3, <1>7
  <2>4. Loaded => P(d.cmd) <= F(z)
    BY <1>3, <1>7
  <2>. QED
    BY <1>2, <1>6, <2>1, <2>2, <2>3, <2>4
<1> DEFINE Good ==
      /\ \A i \in DOMAIN hw' : W(hw'[i].cmd) /\ x < F(hw'[i].cmd) + hw'[i].sent
      /\ \A i, j \in DOMAIN hw' : i < j => P(hw'[i].cmd) <= F(hw'[j].cmd)
      /\ \A i \in DOMAIN hw', j \in Starts : P(hw'[i].cmd) <= F(armq[j])
      /\ Loaded => \A i \in DOMAIN hw' : P(hw'[i].cmd) <= F(z)
      /\ \A i \in DOMAIN hw : \A y \in Nat : x < y /\ F(hw[i].cmd) + hw[i].sent <= y /\ y < P(hw[i].cmd) =>
           \E j \in DOMAIN hw' : F(hw'[j].cmd) + hw'[j].sent <= y /\ y < P(hw'[j].cmd)
<1>9. ASSUME Good PROVE CellInv'
  <2>1. Numbering'
    BY <1>1, <1>5, <1>7, <1>9 DEF Numbering
  <2>2. Sequence'
    BY <1>1, <1>5, <1>7, <1>9 DEF Sequence
  <2>3. OnLine'
    BY <1>1, <1>2, <1>4, <1>5, <1>8, <1>9 DEF OnLine
  <2>4. NoGap'
    <3> SUFFICES ASSUME Smooth
                 PROVE  /\ \A i \in DOMAIN line' : line'[i] = i
                        /\ \A y \in Nat : y > Len(line') /\ y <= supplied' => Underway(y)'
      BY <1>1 DEF NoGap
    <3>1. \A i \in DOMAIN line : line[i] = i
      BY DEF CellInv, NoGap
    <3>2. x = Len(line) + 1 /\ Len(line') = x
      BY <1>2, <1>3
    <3>3. \A i \in DOMAIN line' : line'[i] = i
      BY <1>2, <1>3, <3>1, <3>2
    <3>4. ASSUME NEW y \in Nat, y > x, y <= supplied PROVE Underway(y)'
      <4>1. Underway(y)
        <5>1. y > Len(line)
          BY <1>3, <3>2, <3>4
        <5>. QED
          BY <3>4, <5>1 DEF CellInv, NoGap
      <4>2. \/ \E i \in DOMAIN hw : F(hw[i].cmd) + hw[i].sent <= y /\ y < P(hw[i].cmd)
            \/ \E i \in Starts : F(armq[i]) <= y /\ y < P(armq[i])
            \/ Loaded /\ F(z) <= y
        BY <1>0, <1>5, <4>1 DEF Underway
      <4>3. \/ \E i \in DOMAIN hw' : F(hw'[i].cmd) + hw'[i].sent <= y /\ y < P(hw'[i].cmd)
            \/ \E i \in Starts : F(armq[i]) <= y /\ y < P(armq[i])
            \/ Loaded /\ F(z) <= y
        <5>1. x < y
          BY <1>2, <3>4
        <5>. QED
          BY <1>9, <4>2, <5>1
      <4>. QED
        BY <1>1, <1>5, <4>3 DEF Underway
    <3>. QED
      BY <1>1, <3>2, <3>3, <3>4
  <2>. QED
    BY <2>1, <2>2, <2>3, <2>4 DEF CellInv
<1>10. CASE n < d.cmd.count /\ hw' = [hw EXCEPT ![1].sent = n]
  <2>1. /\ DOMAIN hw' = DOMAIN hw /\ \A i \in DOMAIN hw : hw'[i].cmd = hw[i].cmd
        /\ hw'[1].sent = n /\ \A i \in DOMAIN hw : i # 1 => hw'[i].sent = hw[i].sent
    BY <1>3, <1>10 DEF Descriptors
  <2>2. F(d.cmd) + n = x + 1
    <3> DEFINE k == d.sent
    <3>1. k \in Nat /\ n = k + 1 /\ x = F(d.cmd) + k
      BY <1>0, <1>3, <1>6
    <3> HIDE DEF k
    <3>. QED
      BY <1>6, <3>1
  <2>3. \A i \in DOMAIN hw' : x < F(hw'[i].cmd) + hw'[i].sent
    <3>1. ASSUME NEW i \in DOMAIN hw, i # 1 PROVE x < F(hw[i].cmd) + hw[i].sent
      BY <1>2, <1>6, <1>8, <3>1
    <3>2. x < F(hw[1].cmd) + n
      BY <1>2, <1>3, <2>2
    <3>. QED
      BY <2>1, <3>1, <3>2
  <2>4. ASSUME NEW i \in DOMAIN hw, NEW y \in Nat,
               x < y, F(hw[i].cmd) + hw[i].sent <= y, y < P(hw[i].cmd)
        PROVE  F(hw'[i].cmd) + hw'[i].sent <= y /\ y < P(hw'[i].cmd)
    <3>1. CASE i = 1
      <4>1. x + 1 <= y
        BY <1>2, <2>4
      <4>. QED
        BY <1>3, <2>1, <2>2, <2>4, <3>1, <4>1
    <3>. QED
      BY <2>1, <2>4, <3>1
  <2>. QED
    BY <1>7, <1>9, <2>1, <2>3, <2>4
<1>11. CASE ~(n < d.cmd.count) /\ hw' = Tail(hw)
  <2>1. /\ \A i \in DOMAIN hw' : i + 1 \in DOMAIN hw /\ hw'[i] = hw[i + 1] /\ i + 1 > 1
        /\ \A i, j \in DOMAIN hw' : i < j => i + 1 < j + 1
    BY <1>1, <1>3, <1>11, TailIs
  <2>2. \A i \in DOMAIN hw : i # 1 => i - 1 \in DOMAIN hw' /\ hw'[i - 1] = hw[i]
    BY <1>1, <1>3, <1>11
  <2>3. P(d.cmd) = x + 1
    <3> DEFINE k == d.sent
               b == d.cmd.count
    <3>1. k \in Nat /\ n = k + 1 /\ n <= b /\ ~(n < b) /\ b \in Nat /\ x = F(d.cmd) + k /\ P(d.cmd) = F(d.cmd) + b
      BY <1>0, <1>3, <1>6, <1>11
    <3> HIDE DEF k, b
    <3>. QED
      BY <1>6, <3>1
  <2>4. \A i \in DOMAIN hw' : x < F(hw'[i].cmd) + hw'[i].sent
    <3>1. ASSUME NEW i \in DOMAIN hw, i # 1 PROVE x < F(hw[i].cmd) + hw[i].sent
      BY <1>2, <1>6, <1>8, <3>1
    <3>2. \A i \in DOMAIN hw' : i + 1 # 1
      BY <1>3, <1>11
    <3>. QED
      BY <2>1, <3>1, <3>2
  <2>5. ASSUME NEW i \in DOMAIN hw, NEW y \in Nat,
               x < y, F(hw[i].cmd) + hw[i].sent <= y, y < P(hw[i].cmd)
        PROVE  \E j \in DOMAIN hw' : F(hw'[j].cmd) + hw'[j].sent <= y /\ y < P(hw'[j].cmd)
    <3>1. i # 1
      BY <1>2, <1>3, <2>3, <2>5
    <3>. QED
      BY <2>2, <2>5, <3>1
  <2>. QED
    BY <1>7, <1>9, <2>1, <2>4, <2>5
<1>. QED
  BY <1>1, <1>10, <1>11

LEMMA CellStep ==
  ASSUME Local, RingOK, CellInv, rejects \in Nat, [Next]_vars
  PROVE  CellInv'
<1>1. ASSUME NEW h \in Handlers, DataHandler(h) PROVE CellInv'
  BY <1>1, FillCells, PostCells, HandlerCells DEF DataHandler
<1>2. CASE Discard \/ Acknowledge \/ Enable \/ Disable
  BY <1>2, AcknowledgeCells, LinkCells
<1>3. CASE ArmStop
  <2>1. 1 \in DOMAIN armq /\ armq[1].op = "stop" /\ armq # <<>>
    BY <1>3, CommandHead DEF ArmStop, Local
  <2>2. state = "disabled"
    BY <2>1 DEF Local, StopOK, Types, ChannelType
  <2>3. ~Smooth
    BY <2>2 DEF Local, StopOK, Smooth
  <2>. QED
    BY <1>3, <2>3, ArmTakeCells
<1>4. CASE ArmTake \/ ArmSend
  BY <1>4, ArmTakeCells, ArmSendCells
<1>5. CASE UNCHANGED vars
  <2>1. UNCHANGED <<mem, supplied, hw, line, armq, state, next, seg, pc, stops, rejects>>
    BY <1>5 DEF vars, chan, caller, ctl, arm
  <2>2. (Loaded' <=> Loaded) /\ Command(next)' = Command(next) /\ (Smooth' <=> Smooth)
    BY <2>1 DEF Loaded, Loading, At, Command, Smooth
  <2>. QED
    BY <2>1, <2>2, CellsSame
<1>. QED
  BY <1>1, <1>2, <1>3, <1>4, <1>5, ResponseSteps DEF Next, Arm

LEMMA InitCells == Init => CellInv /\ rejects \in Nat
<1> SUFFICES ASSUME Init PROVE CellInv /\ rejects \in Nat
  OBVIOUS
<1>1. hw = <<>> /\ armq = <<>> /\ line = <<>> /\ supplied = 0 /\ ~Loaded /\ rejects = 0
  BY DEF Init, Loaded
<1>2. Starts = {} /\ DOMAIN hw = {} /\ Newest = 0 /\ Len(line) = 0 /\ DOMAIN line = {}
  BY <1>1 DEF Starts, Newest, Pipe!Newest
<1>. QED
  BY <1>1, <1>2 DEF CellInv, Numbering, Sequence, OnLine, NoGap

(* What the ARM refuses is counted.                                           *)
LEMMA RejectsCounted ==
  ASSUME rejects \in Nat, [Next]_vars
  PROVE  rejects' \in Nat /\ (rejects' = rejects \/ (ArmTake /\ rejects' = rejects + 1))
<1>1. ASSUME NEW h \in Handlers, DataHandler(h) PROVE rejects' = rejects
  BY <1>1 DEF DataHandler, Enter, Lock, Fill, Resend, Leave, Mark, Post, PostFails, Advance, arm
<1>2. CASE DmaTxCompleteHandler \/ DmaTxFullHandler \/ Enable \/ Disable
  BY <1>2 DEF DmaTxCompleteHandler, DmaTxFullHandler, Interrupt, Enable, Disable, DisableMark,
     DisableStop, DisableReset, arm
<1>3. CASE Arm
  BY <1>3 DEF Arm, ArmTake, ArmStop, ArmSend, LoseAck
<1>4. CASE UNCHANGED vars
  BY <1>4 DEF vars, arm
<1>. QED
  BY <1>1, <1>2, <1>3, <1>4 DEF Next

CellsInv == Inv /\ rejects \in Nat /\ (Calm => CellInv)

LEMMA CellInvariance == Spec => []CellsInv
<1>1. Init => CellsInv
  BY InitInv, InitCells DEF CellsInv
<1>2. CellsInv /\ [Next]_vars => CellsInv'
  <2> SUFFICES ASSUME CellsInv, [Next]_vars PROVE CellsInv'
    OBVIOUS
  <2>1. ASSUME Calm' PROVE CellInv'
    <3>1. Local /\ RingOK /\ CellInv
      BY <2>1, CalmBefore DEF CellsInv, Inv
    <3>. QED
      BY <3>1, CellStep DEF CellsInv
  <2>. QED
    BY <2>1, StepInv, RejectsCounted DEF CellsInv
<1>. QED
  BY <1>1, <1>2, PTL DEF Spec

(* What a step of the channel is to the pipe.                                 *)
LEMMA PipeStep ==
  ASSUME CellsInv, Calm, [Next]_vars
  PROVE  [Pipe!Next]_Pipe!vars
<1>0. Local /\ RingOK /\ CellInv /\ supplied \in 0 .. Cells /\ line \in Seq(0 .. Cells) /\ Cells \in Nat
      /\ stops \in Nat /\ rejects \in Nat
  BY TxAssumption DEF CellsInv, Inv, Local, Types, DataType
<1>1. ASSUME NEW h \in Handlers, NEW k \in 1 .. Max, Fill(h, k) PROVE Pipe!Take
  <2>1. supplied' = supplied + k /\ supplied + k <= Cells /\ UNCHANGED <<line, stops, rejects>>
    BY <1>1 DEF Fill, arm, ctl
  <2>2. k \in Nat /\ k >= 1
    BY SettingType, <1>0 DEF Local
  <2>3. supplied' \in (supplied + 1) .. Cells
    BY <1>0, <2>1, <2>2
  <2>. QED
    BY <2>1, <2>3 DEF Pipe!Take, Smooth
<1>2. CASE UNCHANGED <<supplied, line, stops, rejects>>
  BY <1>2 DEF Pipe!vars, Smooth
<1>3. ASSUME NEW h \in Handlers, Enter(h) \/ Lock(h) \/ Resend(h) \/ Leave(h) \/ Mark(h) \/ Post(h)
                                 \/ PostFails(h) \/ Advance(h)
      PROVE  UNCHANGED <<supplied, line, stops, rejects>>
  BY <1>3 DEF Enter, Lock, Resend, Leave, Mark, Post, PostFails, Advance, arm, ctl
<1>4. CASE DisableMark
  <2>1. stops' = stops + 1 /\ UNCHANGED <<supplied, line>>
    BY <1>4 DEF DisableMark, arm
  <2>2. ~Smooth'
    BY <1>0, <2>1 DEF Smooth
  <2>. QED
    BY <2>1, <2>2 DEF Pipe!Next, Pipe!Lose
<1>5. CASE ArmTake
  <2>1. UNCHANGED <<supplied, line, stops>> /\ (rejects' = rejects \/ rejects' = rejects + 1)
    BY <1>5 DEF ArmTake, ctl
  <2>2. CASE rejects' = rejects + 1
    <3>1. ~Smooth'
      BY <1>0, <2>2 DEF Smooth
    <3>. QED
      BY <2>1, <3>1 DEF Pipe!Next, Pipe!Lose
  <2>. QED
    BY <1>2, <2>1, <2>2
<1>6. CASE ArmSend
  <2>1. PICK x : /\ line' = Append(line, x) /\ x \in Nat /\ Newest < x /\ x <= supplied
                 /\ Smooth => x = Len(line) + 1
    BY <1>0, <1>6, ArmSendsNext
  <2>2. UNCHANGED <<supplied, stops, rejects>>
    BY <1>6 DEF ArmSend, ctl
  <2>3. /\ Len(line') = Len(line) + 1 /\ SubSeq(line', 1, Len(line)) = line
        /\ line'[Len(line) + 1] = x /\ Len(line) \in Nat
    BY <1>0, <2>1
  <2>4. ASSUME NEW i \in Len(line) + 1 .. Len(line')
        PROVE  /\ line'[i] <= supplied /\ line'[i] > Pipe!Newest(SubSeq(line', 1, i - 1))
               /\ ~(~Smooth) => line'[i] = i
    <3>1. i = Len(line) + 1 /\ i - 1 = Len(line)
      BY <2>3
    <3>2. Newest \in Nat
      BY <1>0, CellNumbers
    <3>. QED
      BY <2>1, <2>3, <3>1, <3>2 DEF Newest
  <2>5. Smooth' <=> Smooth
    BY <2>2 DEF Smooth
  <2>6. Len(line') > Len(line)
    BY <2>3
  <2>7. Pipe!Emit
    BY <2>2, <2>3, <2>4, <2>5, <2>6 DEF Pipe!Emit
  <2>. QED
    BY <2>7 DEF Pipe!Next
<1>7. CASE Enable \/ DisableStop \/ DisableReset \/ DmaTxCompleteHandler \/ DmaTxFullHandler
           \/ LoseAck \/ UNCHANGED vars
  <2>1. UNCHANGED <<supplied, line, stops, rejects>>
    BY <1>7 DEF Enable, DisableStop, DisableReset, DmaTxCompleteHandler, DmaTxFullHandler, Interrupt,
       LoseAck, vars, arm, ctl
  <2>. QED
    BY <1>2, <2>1
<1>8. CASE ArmStop
  <2>1. UNCHANGED <<supplied, line, stops, rejects>>
    BY <1>8 DEF ArmStop, ctl
  <2>. QED
    BY <1>2, <2>1
<1>. QED
  BY <1>1, <1>2, <1>3, <1>4, <1>5, <1>6, <1>7, <1>8
  DEF Next, DataHandler, Disable, Arm, Pipe!Next

(* The channel is a pipe: for every size of the ring and of its segments, and *)
(* whatever the ARM refuses, the driver fails to post and the interrupt       *)
(* fails to hear of, the cells come out in the order they were supplied, no   *)
(* cell twice, and none is missing until the link goes down or the ARM        *)
(* refuses a segment.                                                         *)
THEOREM TxCellsInOrder == Spec /\ []Calm => CellsInOrder
<1>1. Init => Pipe!Init
  BY DEF Init, Pipe!Init, Smooth
<1>2. CellsInv /\ Calm /\ [Next]_vars => [Pipe!Next]_Pipe!vars
  BY PipeStep
<1>. QED
  BY <1>1, <1>2, CellInvariance, PTL DEF Spec, CellsInOrder, Pipe!Spec
===============================================================================
