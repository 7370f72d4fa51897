------------------------------ MODULE DmaRxProofs ------------------------------
(* The receive ring for every number of segments, cells and handlers: the     *)
(* invariants of MCDmaRx and the pipe it implements.                          *)
EXTENDS MCDmaRx, SequenceTheorems, TLAPS
--------------------------------------------------------------------------------
(* A queue is its head and the rest.                                          *)
LEMMA HeadAndTail ==
  ASSUME NEW S, NEW q \in Seq(S), q # <<>>
  PROVE  /\ Head(q) \in S /\ Tail(q) \in Seq(S) /\ <<Head(q)>> \in Seq(S)
         /\ <<Head(q)>> \o Tail(q) = q
<1>1. Head(q) \in S /\ Tail(q) \in Seq(S)
  OBVIOUS
<1>2. <<Head(q)>> \in Seq(S)
  BY <1>1
<1>3. <<Head(q)>> \o Tail(q) = q
  <2>1. Len(<<Head(q)>> \o Tail(q)) = Len(q)
    OBVIOUS
  <2>2. \A i \in 1 .. Len(q) : (<<Head(q)>> \o Tail(q))[i] = q[i]
    OBVIOUS
  <2>3. <<Head(q)>> \o Tail(q) \in Seq(S)
    BY <1>1, <1>2
  <2>. QED
    BY <2>1, <2>2, <2>3, SeqEqual
<1>. QED
  BY <1>1, <1>2, <1>3

(* Where things are in a queue that lost its head, or got a new last element. *)
LEMMA TailIs ==
  ASSUME NEW S, NEW q \in Seq(S), q # <<>>
  PROVE  /\ \A i \in DOMAIN Tail(q) : i + 1 \in DOMAIN q /\ Tail(q)[i] = q[i + 1] /\ i + 1 > 1
         /\ \A i, j \in DOMAIN Tail(q) : i < j => i + 1 < j + 1
         /\ \A i \in DOMAIN q : i # 1 => i > 1
         /\ Head(q) = q[1] /\ 1 \in DOMAIN q
OBVIOUS

LEMMA AppendIs ==
  ASSUME NEW S, NEW q \in Seq(S), NEW e
  PROVE  /\ \A i \in DOMAIN Append(q, e) :
              \/ i \in DOMAIN q /\ Append(q, e)[i] = q[i]
              \/ i = Len(q) + 1 /\ Append(q, e)[i] = e
         /\ \A i, j \in DOMAIN Append(q, e) : i < j => i \in DOMAIN q
OBVIOUS

(* Where things are in two queues in a row.                                   *)
LEMMA ConcatIs ==
  ASSUME NEW S, NEW x \in Seq(S), NEW y \in Seq(S)
  PROVE  /\ x \o y \in Seq(S) /\ Len(x \o y) = Len(x) + Len(y)
         /\ \A k \in 1 .. Len(x) : (x \o y)[k] = x[k]
         /\ \A k \in 1 .. Len(y) : (x \o y)[Len(x) + k] = y[k]
<1>1. x \o y \in Seq(S)
  BY ConcatProperties
<1>2. Len(x \o y) = Len(x) + Len(y) /\ Len(x) \in Nat /\ Len(y) \in Nat
  OBVIOUS
<1>3. \A k \in 1 .. Len(x) : (x \o y)[k] = x[k]
  OBVIOUS
<1>4. \A k \in 1 .. Len(y) : (x \o y)[Len(x) + k] = y[k]
  OBVIOUS
<1>. QED
  BY <1>1, <1>2, <1>3, <1>4

(* The same of three queues.                                                   *)
LEMMA ThreeConcatIs ==
  ASSUME NEW S, NEW x \in Seq(S), NEW y \in Seq(S), NEW z \in Seq(S), NEW q, q = x \o (y \o z)
  PROVE  /\ q \in Seq(S) /\ Len(q) = Len(x) + Len(y) + Len(z)
         /\ \A k \in 1 .. Len(x) : q[k] = x[k]
         /\ \A k \in 1 .. Len(y) : q[Len(x) + k] = y[k]
         /\ \A k \in 1 .. Len(z) : q[Len(x) + Len(y) + k] = z[k]
<1> DEFINE e == y \o z
<1>1. /\ e \in Seq(S) /\ Len(e) = Len(y) + Len(z)
      /\ \A k \in 1 .. Len(y) : e[k] = y[k]
      /\ \A k \in 1 .. Len(z) : e[Len(y) + k] = z[k]
  BY ConcatIs
<1>2. Len(x) \in Nat /\ Len(y) \in Nat /\ Len(z) \in Nat
  OBVIOUS
<1>7. e \in Seq(S)
  BY <1>1
<1> HIDE DEF e
<1>3. /\ x \o e \in Seq(S) /\ Len(x \o e) = Len(x) + Len(e)
      /\ \A k \in 1 .. Len(x) : (x \o e)[k] = x[k]
      /\ \A k \in 1 .. Len(e) : (x \o e)[Len(x) + k] = e[k]
  <2>1. Len(x \o e) = Len(x) + Len(e)
    BY <1>7
  <2>2. \A k \in 1 .. Len(x) : (x \o e)[k] = x[k]
    BY <1>7
  <2>3. \A k \in 1 .. Len(e) : (x \o e)[Len(x) + k] = e[k]
    BY <1>7
  <2>4. x \o e \in Seq(S)
    BY <1>7, ConcatProperties
  <2>. QED
    BY <2>1, <2>2, <2>3, <2>4
<1>8. q = x \o e
  BY DEF e
<1>4. \A k \in 1 .. Len(y) : q[Len(x) + k] = y[k]
  <2>1. \A k \in 1 .. Len(y) : k \in 1 .. Len(e)
    BY <1>1, <1>2
  <2>. QED
    BY <1>1, <1>3, <1>8, <2>1
<1>5. \A k \in 1 .. Len(z) : q[Len(x) + Len(y) + k] = z[k]
  <2>1. \A k \in 1 .. Len(z) : Len(y) + k \in 1 .. Len(e) /\ Len(x) + (Len(y) + k) = Len(x) + Len(y) + k
    BY <1>1, <1>2
  <2>2. \A k \in 1 .. Len(z) : q[Len(x) + (Len(y) + k)] = e[Len(y) + k]
    BY <1>3, <1>8, <2>1
  <2>. QED
    BY <1>1, <2>1, <2>2
<1>6. Len(q) = Len(x) + Len(y) + Len(z)
  BY <1>1, <1>2, <1>3, <1>8
<1>. QED
  BY <1>3, <1>4, <1>5, <1>6, <1>8

(* How many steps s is ahead of c on a ring of n places.                      *)
Ahead(c, s, n) == IF c <= s THEN s - c ELSE s - c + n

(* The modulus of the code counts just that.                                  *)
LEMMA AheadMod ==
  ASSUME NEW n \in Nat, n > 1, NEW c \in 0 .. n - 1, NEW s \in 0 .. n - 1
  PROVE  (s - c) % n = Ahead(c, s, n) /\ Ahead(c, s, n) \in 0 .. n - 1
  BY DEF Ahead

(* The next place of the ring.                                                *)
LEMMA NextMod ==
  ASSUME NEW n \in Nat, n > 1, NEW s \in 0 .. n - 1
  PROVE  (s + 1) % n = (IF s + 1 < n THEN s + 1 ELSE 0) /\ (s + 1) % n \in 0 .. n - 1
  OBVIOUS

(* The k places from c on are those less than k steps ahead of it.            *)
LEMMA RingStretch ==
  ASSUME NEW n \in Nat, n > 1, NEW c \in 0 .. n - 1, NEW k \in 0 .. n
  PROVE  {(c + i) % n : i \in 0 .. k - 1} = {s \in 0 .. n - 1 : Ahead(c, s, n) < k}
<1>1. ASSUME NEW i \in 0 .. k - 1
      PROVE  (c + i) % n \in 0 .. n - 1 /\ Ahead(c, (c + i) % n, n) < k
  <2>1. CASE c + i < n
    <3>1. (c + i) % n = c + i
      BY <2>1
    <3>. QED
      BY <2>1, <3>1 DEF Ahead
  <2>2. CASE c + i >= n
    <3>1. (c + i) % n = c + i - n
      BY <2>2
    <3>. QED
      BY <2>2, <3>1 DEF Ahead
  <2>. QED
    BY <2>1, <2>2
<1>2. ASSUME NEW s \in 0 .. n - 1, Ahead(c, s, n) < k
      PROVE  \E i \in 0 .. k - 1 : s = (c + i) % n
  <2>1. Ahead(c, s, n) \in 0 .. k - 1
    BY <1>2 DEF Ahead
  <2>2. (c + Ahead(c, s, n)) % n = s
    <3>1. CASE c <= s
      BY <3>1 DEF Ahead
    <3>2. CASE c > s
      <4>1. c + Ahead(c, s, n) = s + n
        BY <3>2 DEF Ahead
      <4>. QED
        BY <4>1
    <3>. QED
      BY <3>1, <3>2
  <2>. QED
    BY <2>1, <2>2
<1>. QED
  BY <1>1, <1>2
--------------------------------------------------------------------------------
(* The link never went down, or it does so on one processor and only comes    *)
(* back when the ARM has nothing left.                                        *)
Calm == stops = 0 \/ (~Smp /\ Settle)
-------------------------------------------------------------------------------
(* The inductive invariant: types,                                            *)
Commands    == [op : {"start", "stop"}, handle : Segments, addr : Segments, count : 0 .. Max]
Descriptors == [cmd : Commands, filled : 0 .. Max]
Responses   == [kind : {"complete", "full"}, handle : Segments, count : 0 .. Max]
SegRecords  == [state : {"ready", "arm"}, count : 0 .. Max]
ControlType == /\ env \in Settings /\ stopPc \in {"no", "stop", "reset"}
               /\ stops \in Nat /\ fails \in Nat /\ losses \in Nat /\ rejects \in Nat
ChannelType == /\ state \in {"uninitialized", "enabled", "disabled"}
               /\ next \in Segments /\ cur \in Segments
               /\ seg \in [Segments -> SegRecords]
CallerType  == /\ lock \in Handlers \cup {"free"} /\ ix \in [Handlers -> Segments]
               /\ pc \in [Handlers -> {"idle", "lock", "look", "post", "advance"}]
DataType    == /\ mem \in [Segments -> [1 .. Max -> 0 .. Cells]]
               /\ taken \in 0 .. Cells /\ out \in Seq(0 .. Cells)
QueueType   == armq \in Seq(Commands) /\ hw \in Seq(Descriptors) /\ resp \in Seq(Responses)

(* and what the commands on their way say; the ARM fills the oldest.          *)
QueuesOK ==
  /\ \A i \in DOMAIN armq : armq[i].op = "start" => armq[i].count = Max
  /\ \A i \in DOMAIN hw : /\ hw[i].cmd.op = "start" /\ hw[i].cmd.count = Max
                          /\ hw[i].filled < Max
                          /\ i > 1 => hw[i].filled = 0

Types == ControlType /\ ChannelType /\ CallerType /\ DataType /\ QueueType
Local == Types /\ QueuesOK

(* The bounds of the numbers of a setting.                                    *)
LEMMA SettingType ==
  ASSUME env \in Settings
  PROVE  /\ Max \in 1 .. 255 /\ Smp \in BOOLEAN /\ N \in Nat /\ N > 1 /\ 0 \in Segments
         /\ \A s \in Segments : After(s) \in Segments
<1>1. Max \in 1 .. 255 /\ Smp \in BOOLEAN
  BY RxAssumption DEF Max, Smp
<1>2. \A s \in Segments : After(s) \in Segments
  BY RxAssumption, NextMod DEF Segments, After
<1>. QED
  BY <1>1, <1>2, RxAssumption DEF Segments

(* The setting of a run stays.                                                *)
LEMMA SettingStep == [Next]_vars => env' = env /\ Max' = Max /\ Smp' = Smp
<1> SUFFICES ASSUME [Next]_vars PROVE env' = env
  BY DEF Max, Smp
<1>1. ASSUME NEW h \in Handlers, DataHandler(h) PROVE env' = env
  BY <1>1 DEF DataHandler, Enter, Lock, Deliver, Leave, Post, PostFails, Advance
<1>2. CASE Arm
  BY <1>2 DEF Arm, ArmTake, ArmStop, ArmStore, LoseAck
<1>. QED
  BY <1>1, <1>2 DEF Next, vars, Enable, Disable, DisableMark, DisableStop, DisableReset,
     DmaRxCompleteHandler, DmaRxFullHandler, Interrupt

(* What the first command, response and segment being filled are.             *)
LEMMA CommandHead ==
  ASSUME Local, armq # <<>>
  PROVE  /\ Head(armq) \in Commands /\ Tail(armq) \in Seq(Commands) /\ Head(armq) = armq[1]
         /\ Head(armq).op = "start" => Head(armq).count = Max
         /\ Head(armq).handle \in Segments /\ Head(armq).count \in 0 .. Max /\ 1 \in DOMAIN armq
<1>1. Head(armq) \in Commands /\ Tail(armq) \in Seq(Commands) /\ Head(armq) = armq[1] /\ 1 \in DOMAIN armq
  BY HeadAndTail DEF Local, Types, QueueType
<1>. QED
  BY <1>1 DEF Local, QueuesOK, Commands

LEMMA ResponseHead ==
  ASSUME Local, resp # <<>>
  PROVE  /\ Head(resp) \in Responses /\ Tail(resp) \in Seq(Responses) /\ Head(resp) = resp[1]
         /\ Head(resp).handle \in Segments /\ Head(resp).count \in 0 .. Max /\ 1 \in DOMAIN resp
<1>1. Head(resp) \in Responses /\ Tail(resp) \in Seq(Responses) /\ Head(resp) = resp[1] /\ 1 \in DOMAIN resp
  BY HeadAndTail DEF Local, Types, QueueType
<1>. QED
  BY <1>1 DEF Responses

LEMMA SegmentHead ==
  ASSUME Local, hw # <<>>
  PROVE  LET d == Head(hw) IN
         /\ d \in Descriptors /\ Tail(hw) \in Seq(Descriptors) /\ d = hw[1] /\ 1 \in DOMAIN hw
         /\ d.cmd \in Commands /\ d.cmd.op = "start" /\ d.cmd.handle \in Segments
         /\ d.cmd.addr \in Segments /\ d.cmd.count = Max /\ d.filled \in Nat
         /\ d.filled + 1 \in 1 .. Max /\ d.filled \in 0 .. Max /\ d.filled + 1 \in 0 .. Max
<1> DEFINE d == Head(hw)
           n == d.filled
<1>1. d \in Descriptors /\ Tail(hw) \in Seq(Descriptors) /\ d = hw[1] /\ 1 \in DOMAIN hw
  BY HeadAndTail DEF Local, Types, QueueType
<1>2. d.cmd.op = "start" /\ d.cmd.count = Max /\ n < Max
  BY <1>1 DEF Local, QueuesOK
<1>3. d.cmd \in Commands /\ n \in 0 .. Max
  BY <1>1 DEF Descriptors
<1>4. d.cmd.handle \in Segments /\ d.cmd.addr \in Segments
  BY <1>3 DEF Commands
<1>5. Max \in 1 .. 255
  BY SettingType DEF Local, Types, ControlType
<1> HIDE DEF n
<1>6. n \in Nat /\ n + 1 \in 1 .. Max /\ n + 1 \in 0 .. Max
  BY <1>2, <1>3, <1>5
<1>. QED
  BY <1>1, <1>2, <1>3, <1>4, <1>6 DEF n

LEMMA InitLocal == Init => Local
<1> SUFFICES ASSUME Init PROVE Local
  OBVIOUS
<1>0. Max \in 1 .. 255 /\ 0 \in Segments
  BY SettingType DEF Init
<1>1. ControlType
  BY DEF Init, ControlType
<1>2. ChannelType
  <2>1. [state |-> "ready", count |-> 0] \in SegRecords
    BY <1>0 DEF SegRecords
  <2>. QED
    BY <1>0, <2>1 DEF Init, ChannelType
<1>3. CallerType
  BY <1>0 DEF Init, CallerType
<1>4. DataType /\ QueueType
  BY <1>0, RxAssumption DEF Init, DataType, QueueType
<1>5. QueuesOK
  BY DEF Init, QueuesOK
<1>. QED
  BY <1>1, <1>2, <1>3, <1>4, <1>5 DEF Local, Types

(* A segment record keeps its type when its state changes.                    *)
LEMMA SegRecordState ==
  ASSUME NEW r \in SegRecords, NEW t \in {"ready", "arm"}
  PROVE  [r EXCEPT !.state = t] \in SegRecords
  BY DEF SegRecords

LEMMA ControlTypeStep ==
  ASSUME Local, [Next]_vars
  PROVE  ControlType'
<1>. USE DEF ControlType
<1>0. ControlType /\ env' = env
  BY SettingStep DEF Local, Types
<1>1. CASE UNCHANGED <<stopPc, stops, fails, losses, rejects>>
  BY <1>0, <1>1
<1>2. ASSUME NEW h \in Handlers, Enter(h) \/ Lock(h) \/ Deliver(h) \/ Leave(h) \/ Post(h) \/ Advance(h)
      PROVE  ControlType'
  BY <1>1, <1>2 DEF Enter, Lock, Deliver, Leave, Post, Advance, arm
<1>3. ASSUME NEW h \in Handlers, PostFails(h) PROVE ControlType'
  BY <1>0, <1>3 DEF PostFails, arm
<1>4. CASE DmaRxCompleteHandler \/ DmaRxFullHandler \/ Enable \/ UNCHANGED vars
  BY <1>1, <1>4 DEF DmaRxCompleteHandler, DmaRxFullHandler, Interrupt, Enable, vars, arm
<1>5. CASE DisableMark
  BY <1>0, <1>5 DEF DisableMark, arm
<1>6. CASE DisableStop
  BY <1>0, <1>6 DEF DisableStop
<1>7. CASE DisableReset
  BY <1>0, <1>7 DEF DisableReset, arm
<1>8. CASE ArmTake
  BY <1>0, <1>8 DEF ArmTake
<1>9. CASE ArmStop \/ \E last \in BOOLEAN : ArmStore(last)
  BY <1>1, <1>9 DEF ArmStop, ArmStore
<1>10. CASE LoseAck
  BY <1>0, <1>10 DEF LoseAck
<1>. QED
  BY <1>2, <1>3, <1>4, <1>5, <1>6, <1>7, <1>8, <1>9, <1>10 DEF Next, DataHandler, Disable, Arm

(* How far apart places of the ring are, seen from CurrentSegment.            *)
Dist(c, s) == Ahead(c, s, N)

LEMMA Distances ==
  /\ \A c, s \in Segments : Dist(c, s) \in 0 .. N - 1 /\ (Dist(c, s) = 0 <=> s = c)
  /\ \A c, s, r \in Segments : Dist(c, s) = Dist(c, r) => s = r
  /\ \A c, s \in Segments :
       Dist(c, After(s)) = (IF Dist(c, s) + 1 < N THEN Dist(c, s) + 1 ELSE 0)
  /\ \A c, h, s \in Segments :
       Dist(After(h), s) = (IF Dist(c, s) > Dist(c, h) THEN Dist(c, s) - Dist(c, h) - 1
                            ELSE Dist(c, s) - Dist(c, h) - 1 + N)
<1>1. \A s \in Segments : After(s) = IF s + 1 < N THEN s + 1 ELSE 0
  BY RxAssumption, NextMod DEF Segments, After
<1>. QED
  BY <1>1, RxAssumption DEF Segments, Dist, Ahead

(* The segments the completion handler skips are those of the window before   *)
(* the one that is reported.                                                  *)
LEMMA SkippedIs ==
  ASSUME cur \in Segments, NEW h \in Segments
  PROVE  Skipped(h) = {s \in Segments : Dist(cur, s) < Dist(cur, h)} /\ h \notin Skipped(h)
<1>1. cur \in 0 .. N - 1 /\ h \in 0 .. N - 1 /\ N \in Nat /\ N > 1
  BY RxAssumption DEF Segments
<1>2. (h - cur) % N = Ahead(cur, h, N) /\ Ahead(cur, h, N) \in 0 .. N
  BY <1>1, AheadMod
<1>3. {(cur + i) % N : i \in 0 .. Ahead(cur, h, N) - 1}
        = {s \in 0 .. N - 1 : Ahead(cur, s, N) < Ahead(cur, h, N)}
  BY <1>1, <1>2, RingStretch
<1>4. Skipped(h) = {s \in Segments : Dist(cur, s) < Dist(cur, h)}
  BY <1>2, <1>3 DEF Skipped, Dist, Segments
<1>. QED
  BY <1>2, <1>4 DEF Dist

(* What a completion does to the ring.                                        *)
LEMMA CompleteStep ==
  ASSUME Local, DmaRxCompleteHandler, state = "enabled"
  PROVE  LET r == Head(resp) IN
         /\ resp # <<>> /\ r.kind = "complete" /\ resp' = Tail(resp)
         /\ cur' = After(r.handle)
         /\ \A s \in Segments :
              seg'[s] = IF s = r.handle THEN [state |-> "ready", count |-> r.count]
                        ELSE IF Dist(cur, s) < Dist(cur, r.handle) THEN [state |-> "ready", count |-> 0]
                        ELSE seg[s]
         /\ DOMAIN seg' = Segments
         /\ UNCHANGED <<state, next, lock, pc, ix, mem, out, armq, hw, taken, losses, rejects,
                        stopPc, stops, fails, env>>
<1> DEFINE r == Head(resp)
           h == r.handle
<1>1. /\ seg' = [s \in Segments |-> CASE s = h          -> [state |-> "ready", count |-> r.count]
                                      [] s \in Skipped(h) -> [state |-> "ready", count |-> 0]
                                      [] OTHER          -> seg[s]]
      /\ cur' = After(h) /\ UNCHANGED <<state, next>>
  BY DEF DmaRxCompleteHandler
<1>2. /\ resp # <<>> /\ r.kind = "complete" /\ resp' = Tail(resp)
      /\ UNCHANGED <<mem, lock, pc, ix, stopPc, stops, out, fails, armq, hw, taken, losses, rejects, env>>
  BY DEF DmaRxCompleteHandler, Interrupt
<1>5. h \in Segments
  BY <1>2, ResponseHead
<1>6. cur \in Segments
  BY DEF Local, Types, ChannelType
<1> HIDE DEF r, h
<1>3. DOMAIN seg' = Segments
  BY <1>1
<1>4. ASSUME NEW s \in Segments
      PROVE  seg'[s] = IF s = h THEN [state |-> "ready", count |-> r.count]
                       ELSE IF Dist(cur, s) < Dist(cur, h) THEN [state |-> "ready", count |-> 0] ELSE seg[s]
  <2>1. seg'[s] = CASE s = h          -> [state |-> "ready", count |-> r.count]
                    [] s \in Skipped(h) -> [state |-> "ready", count |-> 0]
                    [] OTHER          -> seg[s]
    BY <1>1, Zenon
  <2>2. (s \in Skipped(h) <=> Dist(cur, s) < Dist(cur, h)) /\ h \notin Skipped(h)
    BY <1>5, <1>6, SkippedIs
  <2>3. CASE s = h
    BY <2>1, <2>2, <2>3
  <2>4. CASE s # h /\ s \in Skipped(h)
    BY <2>1, <2>2, <2>4
  <2>5. CASE s # h /\ s \notin Skipped(h)
    BY <2>1, <2>2, <2>5
  <2>. QED
    BY <2>3, <2>4, <2>5
<1>. QED
  BY <1>1, <1>2, <1>3, <1>4 DEF r, h

LEMMA ChannelTypeStep ==
  ASSUME Local, [Next]_vars
  PROVE  ChannelType'
<1>. USE DEF ChannelType
<1>0. ChannelType /\ 0 \in Segments /\ (\A s \in Segments : After(s) \in Segments) /\ Max \in 1 .. 255
      /\ Max' = Max /\ SegRecords' = SegRecords
  <2>1. Max' = Max
    BY SettingStep
  <2>. QED
    BY <2>1, SettingType DEF Local, Types, ControlType, SegRecords
<1>1. CASE UNCHANGED chan
  BY <1>0, <1>1 DEF chan
<1>2. ASSUME NEW h \in Handlers, Enter(h) \/ Lock(h) \/ Leave(h) \/ Post(h)
      PROVE  UNCHANGED chan
  BY <1>2 DEF Enter, Lock, Leave, Post
<1>3. ASSUME NEW h \in Handlers, Deliver(h) PROVE ChannelType'
  <2>1. ix[h] \in Segments /\ [state |-> "arm", count |-> Max] \in SegRecords
    BY <1>0 DEF Local, Types, CallerType, SegRecords
  <2>. QED
    BY <1>0, <1>3, <2>1 DEF Deliver
<1>4. ASSUME NEW h \in Handlers, PostFails(h) PROVE ChannelType'
  <2>1. ix[h] \in Segments
    BY DEF Local, Types, CallerType
  <2>2. [seg[ix[h]] EXCEPT !.state = "ready"] \in SegRecords
    BY <1>0, <2>1, SegRecordState
  <2>. QED
    BY <1>0, <1>4, <2>1, <2>2 DEF PostFails
<1>5. ASSUME NEW h \in Handlers, Advance(h) PROVE ChannelType'
  BY <1>0, <1>5 DEF Advance
<1>6. CASE Enable \/ DisableMark
  BY <1>0, <1>6 DEF Enable, DisableMark
<1>7. CASE DisableReset
  <2>1. \A s \in Segments : [seg[s] EXCEPT !.state = "ready"] \in SegRecords
    BY <1>0, SegRecordState
  <2>. QED
    BY <1>0, <1>7, <2>1 DEF DisableReset
<1>8. CASE DmaRxCompleteHandler
  <2>1. CASE state # "enabled"
    BY <1>1, <1>8, <2>1 DEF DmaRxCompleteHandler
  <2>2. CASE state = "enabled"
    <3> DEFINE r == Head(resp)
    <3>1. r.handle \in Segments /\ r.count \in 0 .. Max
      BY <1>8, <2>2, CompleteStep, ResponseHead
    <3>2. [state |-> "ready", count |-> r.count] \in SegRecords
          /\ [state |-> "ready", count |-> 0] \in SegRecords
      BY <1>0, <3>1 DEF SegRecords
    <3>3. cur' = After(r.handle) /\ UNCHANGED <<state, next>>
      BY <1>8, <2>2, CompleteStep
    <3>4. \A s \in Segments : seg'[s] \in SegRecords
      <4> HIDE DEF r
      <4>1. \A s \in Segments : seg'[s] = [state |-> "ready", count |-> r.count]
              \/ seg'[s] = [state |-> "ready", count |-> 0] \/ seg'[s] = seg[s]
        BY <1>8, <2>2, CompleteStep DEF r
      <4>. QED
        BY <1>0, <3>2, <4>1
    <3>5. seg' = [s \in Segments |-> seg'[s]]
      BY <1>8, <2>2 DEF DmaRxCompleteHandler
    <3>. QED
      BY <1>0, <3>1, <3>3, <3>4, <3>5
  <2>. QED
    BY <2>1, <2>2
<1>9. CASE DmaRxFullHandler
  <2>1. resp # <<>>
    BY <1>9 DEF DmaRxFullHandler, Interrupt
  <2>2. Head(resp).handle \in Segments /\ [state |-> "ready", count |-> 0] \in SegRecords
    BY <1>0, <2>1, ResponseHead DEF SegRecords
  <2>. QED
    BY <1>0, <1>1, <1>9, <2>2 DEF DmaRxFullHandler
<1>10. CASE DisableStop \/ Arm \/ UNCHANGED vars
  BY <1>1, <1>10 DEF DisableStop, Arm, ArmTake, ArmStop, ArmStore, LoseAck, vars
<1>. QED
  BY <1>1, <1>2, <1>3, <1>4, <1>5, <1>6, <1>7, <1>8, <1>9, <1>10 DEF Next, DataHandler, Disable

LEMMA CallerTypeStep ==
  ASSUME Local, [Next]_vars
  PROVE  CallerType'
<1>. USE DEF CallerType
<1>0. CallerType /\ next \in Segments /\ \A s \in Segments : After(s) \in Segments
  BY SettingType DEF Local, Types, ControlType, ChannelType
<1>00. 0 \in Segments
  BY SettingType DEF Local, Types, ControlType
<1>1. ASSUME NEW h \in Handlers, DataHandler(h) PROVE CallerType'
  <2>1. CASE Enter(h) \/ Lock(h)
    BY <1>0, <2>1 DEF Enter, Lock
  <2>2. CASE Deliver(h) \/ Post(h)
    BY <1>0, <2>2 DEF Deliver, Post
  <2>3. CASE Leave(h) \/ PostFails(h)
    BY <1>0, <1>00, <2>3 DEF Leave, PostFails, Unlock
  <2>4. CASE Advance(h)
    BY <1>0, <2>4 DEF Advance
  <2>. QED
    BY <1>1, <2>1, <2>2, <2>3, <2>4 DEF DataHandler
<1>2. CASE Enable
  BY <1>0, <1>2, RxAssumption DEF Enable
<1>3. CASE DmaRxCompleteHandler \/ DmaRxFullHandler
  BY <1>0, <1>3 DEF DmaRxCompleteHandler, DmaRxFullHandler, Interrupt
<1>4. CASE Disable
  BY <1>0, <1>4 DEF Disable, DisableMark, DisableStop, DisableReset, caller
<1>5. CASE Arm
  BY <1>0, <1>5 DEF Arm, ArmTake, ArmStop, ArmStore, LoseAck, caller
<1>6. CASE UNCHANGED vars
  BY <1>0, <1>6 DEF vars, caller
<1>. QED
  BY <1>1, <1>2, <1>3, <1>4, <1>5, <1>6 DEF Next

(* The cells of a segment are given by number, like those passed up.          *)
LEMMA SegmentCells ==
  ASSUME Local, NEW s \in Segments
  PROVE  /\ mem[s] \in [1 .. Max -> 0 .. Cells] /\ seg[s].count \in 0 .. Max
         /\ SubSeq(mem[s], 1, seg[s].count) = [j \in 1 .. seg[s].count |-> mem[s][j]]
         /\ SubSeq(mem[s], 1, seg[s].count) \in Seq(0 .. Cells)
<1>1. mem[s] \in [1 .. Max -> 0 .. Cells] /\ seg[s].count \in 0 .. Max /\ Max \in 1 .. 255
  BY SettingType DEF Local, Types, ControlType, DataType, ChannelType, SegRecords
<1> DEFINE n == seg[s].count
           m == mem[s]
<1> HIDE DEF n, m
<1>2. SubSeq(m, 1, n) = [j \in 1 .. n |-> m[j]]
  BY <1>1 DEF n, m
<1>3. \A j \in 1 .. n : m[j] \in 0 .. Cells
  BY <1>1 DEF n, m
<1>4. n \in Nat
  BY <1>1 DEF n
<1>5. [j \in 1 .. n |-> m[j]] \in Seq(0 .. Cells)
  BY <1>3, <1>4
<1>. QED
  BY <1>1, <1>2, <1>5 DEF n, m

(* The command that hands a segment back.                                     *)
LEMMA PostedCommand ==
  ASSUME Local, NEW h \in Handlers
  PROVE  LET c == [StartCmd(ix[h]) EXCEPT !.handle = next] IN
         /\ c = [op |-> "start", handle |-> next, addr |-> ix[h], count |-> Max]
         /\ c \in Commands /\ c.op = "start" /\ c.count = Max /\ c.addr = ix[h] /\ c.handle = next
<1>1. ix[h] \in Segments /\ next \in Segments
  BY DEF Local, Types, CallerType, ChannelType
<1>2. Max \in 0 .. Max
  <2>1. Max \in 1 .. 255
    BY SettingType DEF Local, Types, ControlType
  <2>. QED
    BY <2>1
<1>. QED
  BY <1>1, <1>2 DEF StartCmd, Commands

LEMMA DataTypeStep ==
  ASSUME Local, [Next]_vars
  PROVE  DataType'
<1>. USE DEF DataType
<1>0. DataType /\ Max \in 1 .. 255 /\ Max' = Max
  <2>1. Max' = Max
    BY SettingStep
  <2>. QED
    BY <2>1, SettingType DEF Local, Types, ControlType
<1>1. ASSUME NEW h \in Handlers, Deliver(h) PROVE DataType'
  <2>1. ix[h] \in Segments
    BY DEF Local, Types, CallerType
  <2>2. PICK x \in Seq(0 .. Cells) : x = SubSeq(mem[ix[h]], 1, seg[ix[h]].count)
    BY <2>1, SegmentCells
  <2>3. out' = out \o x /\ UNCHANGED <<mem, taken>>
    BY <1>1, <2>2 DEF Deliver, arm
  <2>4. out \o x \in Seq(0 .. Cells)
    BY <1>0, <2>2
  <2>. QED
    BY <1>0, <2>3, <2>4
<1>2. ASSUME NEW last \in BOOLEAN, ArmStore(last) PROVE DataType'
  <2> DEFINE d == Head(hw)
             n == d.filled + 1
             m == mem[d.cmd.addr]
  <2>1. d.cmd.addr \in Segments /\ n \in 1 .. Max
    BY <1>2, SegmentHead DEF ArmStore
  <2>2. /\ mem' = [mem EXCEPT ![d.cmd.addr][n] = taken + 1] /\ taken' = taken + 1 /\ out' = out
        /\ taken < Cells
    BY <1>2 DEF ArmStore
  <2>3. taken + 1 \in 0 .. Cells
    BY <1>0, <2>2, RxAssumption
  <2>4. m \in [1 .. Max -> 0 .. Cells] /\ mem' = [mem EXCEPT ![d.cmd.addr] = [m EXCEPT ![n] = taken + 1]]
    BY <1>0, <2>1, <2>2
  <2> HIDE DEF m, n
  <2>5. [m EXCEPT ![n] = taken + 1] \in [1 .. Max -> 0 .. Cells]
    BY <2>1, <2>3, <2>4
  <2>6. mem' \in [Segments -> [1 .. Max -> 0 .. Cells]]
    BY <1>0, <2>1, <2>4, <2>5
  <2>. QED
    BY <1>0, <2>2, <2>3, <2>6
<1>3. CASE UNCHANGED <<mem, taken, out>>
  BY <1>0, <1>3
<1>4. ASSUME NEW h \in Handlers, Enter(h) \/ Lock(h) \/ Leave(h) \/ Post(h) \/ PostFails(h) \/ Advance(h)
      PROVE  DataType'
  BY <1>3, <1>4 DEF Enter, Lock, Leave, Post, PostFails, Advance, arm
<1>5. CASE ArmTake \/ ArmStop \/ LoseAck \/ DmaRxCompleteHandler \/ DmaRxFullHandler
  BY <1>3, <1>5 DEF DmaRxCompleteHandler, DmaRxFullHandler, Interrupt, ArmTake, ArmStop, LoseAck
<1>6. CASE Enable \/ Disable
  BY <1>3, <1>6 DEF Enable, Disable, DisableMark, DisableStop, DisableReset, arm
<1>7. CASE UNCHANGED vars
  BY <1>3, <1>7 DEF vars, arm
<1>. QED
  BY <1>1, <1>2, <1>4, <1>5, <1>6, <1>7 DEF Next, DataHandler, Arm

LEMMA QueueTypeStep ==
  ASSUME Local, [Next]_vars
  PROVE  QueueType'
<1>. USE DEF QueueType
<1>0. /\ QueueType /\ Types /\ QueuesOK /\ Max \in 1 .. 255 /\ Max' = Max
      /\ Commands' = Commands /\ Descriptors' = Descriptors /\ Responses' = Responses
  <2>1. Max' = Max
    BY SettingStep
  <2>. QED
    BY <2>1, SettingType DEF Local, Types, ControlType, Commands, Descriptors, Responses
<1>1. ASSUME NEW h \in Handlers, Post(h) PROVE QueueType'
  <2>1. PICK c \in Commands : c = [StartCmd(ix[h]) EXCEPT !.handle = next]
    BY PostedCommand
  <2>. QED
    BY <1>0, <1>1, <2>1 DEF Post
<1>2. CASE DisableStop
  <2>1. StopCmd \in Commands
    BY <1>0, SettingType DEF Types, ControlType, StopCmd, Commands
  <2>2. (armq' = Append(armq, StopCmd) \/ armq' = armq) /\ UNCHANGED <<hw, resp>>
    BY <1>2 DEF DisableStop
  <2>3. armq \in Seq(Commands)
    BY <1>0
  <2>4. Append(armq, StopCmd) \in Seq(Commands)
    BY <2>1, <2>3
  <2>. QED
    BY <1>0, <2>2, <2>3, <2>4
<1>3. CASE DmaRxCompleteHandler \/ DmaRxFullHandler \/ LoseAck
  <2>1. resp # <<>> /\ resp' = Tail(resp) /\ UNCHANGED <<armq, hw>>
    BY <1>3 DEF DmaRxCompleteHandler, DmaRxFullHandler, Interrupt, LoseAck
  <2>. QED
    BY <1>0, <2>1, ResponseHead
<1>4. CASE ArmTake
  <2>1. Head(armq) \in Commands /\ Tail(armq) \in Seq(Commands) /\ armq' = Tail(armq)
        /\ Head(armq).handle \in Segments /\ Head(armq).count \in 0 .. Max
    BY <1>4, CommandHead DEF ArmTake
  <2>0. 0 \in 0 .. Max
    BY <1>0
  <2>2. PICK d \in Descriptors : d = [cmd |-> Head(armq), filled |-> 0]
    BY <2>0, <2>1 DEF Descriptors
  <2>3. PICK r \in Responses : r = Answer("full", Head(armq), Head(armq).count)
    BY <2>1 DEF Answer, Responses
  <2>4. (hw' = Append(hw, d) /\ resp' = resp) \/ (hw' = hw /\ resp' = Append(resp, r))
    BY <1>4, <2>2, <2>3 DEF ArmTake
  <2>5. Append(hw, d) \in Seq(Descriptors) /\ Append(resp, r) \in Seq(Responses)
    BY <1>0
  <2>. QED
    BY <1>0, <2>1, <2>4, <2>5
<1>5. CASE ArmStop
  <2>1. Tail(armq) \in Seq(Commands)
    BY <1>5, CommandHead DEF ArmStop
  <2>2. ASSUME hw # <<>> PROVE Answer("complete", Head(hw).cmd, Head(hw).filled) \in Responses
    BY <2>2, SegmentHead DEF Answer, Responses
  <2>. QED
    BY <1>0, <1>5, <2>1, <2>2 DEF ArmStop
<1>6. ASSUME NEW last \in BOOLEAN, ArmStore(last) PROVE QueueType'
  <2> DEFINE d == Head(hw)
             n == d.filled + 1
  <2>1. d \in Descriptors /\ d = hw[1] /\ Tail(hw) \in Seq(Descriptors) /\ n \in 0 .. Max
        /\ d.cmd.handle \in Segments /\ 1 \in DOMAIN hw
    BY <1>6, SegmentHead DEF ArmStore
  <2>2. /\ armq' = armq
        /\ \/ hw' = Tail(hw) /\ resp' = Append(resp, Answer("complete", d.cmd, n))
           \/ hw' = [hw EXCEPT ![1].filled = n] /\ resp' = resp
    BY <1>6 DEF ArmStore
  <2> HIDE DEF n
  <2>3. PICK r \in Responses : r = Answer("complete", d.cmd, n)
    BY <2>1 DEF Answer, Responses
  <2>4. [d EXCEPT !.filled = n] \in Descriptors
    BY <2>1 DEF Descriptors
  <2>5. [hw EXCEPT ![1].filled = n] \in Seq(Descriptors)
    BY <1>0, <2>1, <2>4
  <2>6. (hw' = Tail(hw) /\ resp' = Append(resp, r))
        \/ (hw' = [hw EXCEPT ![1].filled = n] /\ resp' = resp)
    BY <2>2, <2>3
  <2>7. Append(resp, r) \in Seq(Responses)
    BY <1>0
  <2>. QED
    BY <1>0, <2>1, <2>2, <2>5, <2>6, <2>7
<1>7. CASE UNCHANGED <<armq, hw, resp>>
  BY <1>0, <1>7
<1>8. ASSUME NEW h \in Handlers,
             Enter(h) \/ Lock(h) \/ Deliver(h) \/ Leave(h) \/ PostFails(h) \/ Advance(h)
      PROVE  QueueType'
  BY <1>7, <1>8 DEF Enter, Lock, Deliver, Leave, PostFails, Advance, arm
<1>9. CASE Enable \/ DisableMark \/ DisableReset
  BY <1>7, <1>9 DEF Enable, DisableMark, DisableReset, arm
<1>10. CASE UNCHANGED vars
  BY <1>7, <1>10 DEF vars, arm
<1>. QED
  BY <1>1, <1>2, <1>3, <1>4, <1>5, <1>6, <1>8, <1>9, <1>10 DEF Next, DataHandler, Disable, Arm

LEMMA QueuesStep ==
  ASSUME Local, [Next]_vars
  PROVE  QueuesOK'
<1>0. QueuesOK /\ Max' = Max /\ QueueType /\ Types /\ Max \in 1 .. 255
  <2>1. Max' = Max
    BY SettingStep
  <2>. QED
    BY <2>1, SettingType DEF Local, Types, ControlType
<1>. USE DEF QueueType
<1>1. ASSUME NEW c \in Commands, c.op = "start" => c.count = Max, armq' = Append(armq, c), hw' = hw
      PROVE  QueuesOK'
  <2>1. \A i \in DOMAIN armq' : armq'[i].op = "start" => armq'[i].count = Max
    BY <1>0, <1>1, AppendIs DEF QueuesOK
  <2>. QED
    BY <1>0, <1>1, <2>1 DEF QueuesOK
<1>2. ASSUME NEW h \in Handlers, Post(h) PROVE QueuesOK'
  <2>1. PICK c \in Commands : c = [StartCmd(ix[h]) EXCEPT !.handle = next] /\ c.count = Max
    BY PostedCommand
  <2>. QED
    BY <1>1, <1>2, <2>1 DEF Post
<1>3. CASE DisableStop
  <2>1. StopCmd \in Commands /\ StopCmd.op # "start"
    BY <1>0, SettingType DEF Types, ControlType, StopCmd, Commands
  <2>2. CASE armq' = armq
    BY <1>0, <1>3, <2>2 DEF DisableStop, QueuesOK
  <2>. QED
    BY <1>1, <1>3, <2>1, <2>2 DEF DisableStop
<1>4. CASE ArmTake
  <2> DEFINE c == Head(armq)
             d == [cmd |-> c, filled |-> 0]
  <2>1. /\ c.op = "start" /\ c.count = Max /\ armq # <<>> /\ armq' = Tail(armq)
        /\ (hw' = Append(hw, d) \/ hw' = hw)
    BY <1>4, CommandHead DEF ArmTake
  <2>2. \A i \in DOMAIN armq' : armq'[i].op = "start" => armq'[i].count = Max
    BY <1>0, <2>1, TailIs DEF QueuesOK
  <2>3. d.cmd.op = "start" /\ d.cmd.count = Max /\ d.filled = 0 /\ d.filled < Max
    BY <1>0, <2>1
  <2> HIDE DEF d
  <2>4. \A i \in DOMAIN hw' : (i \in DOMAIN hw /\ hw'[i] = hw[i]) \/ hw'[i] = d
    BY <1>0, <2>1, AppendIs
  <2>. QED
    BY <1>0, <2>2, <2>3, <2>4 DEF QueuesOK
<1>5. CASE ArmStop
  <2>1. armq # <<>> /\ armq' = Tail(armq) /\ hw' = <<>>
    BY <1>5 DEF ArmStop
  <2>2. \A i \in DOMAIN armq' : armq'[i].op = "start" => armq'[i].count = Max
    BY <1>0, <2>1, TailIs DEF QueuesOK
  <2>. QED
    BY <1>0, <2>1, <2>2 DEF QueuesOK
<1>6. ASSUME NEW last \in BOOLEAN, ArmStore(last) PROVE QueuesOK'
  <2> DEFINE d == Head(hw)
             n == d.filled + 1
  <2>1. /\ hw # <<>> /\ armq' = armq
        /\ hw' = Tail(hw) \/ (hw' = [hw EXCEPT ![1].filled = n] /\ n # d.cmd.count)
    BY <1>6 DEF ArmStore
  <2>2. d = hw[1] /\ d \in Descriptors /\ d.cmd.count = Max /\ n \in 1 .. Max /\ 1 \in DOMAIN hw
    BY <2>1, SegmentHead
  <2>3. CASE hw' = Tail(hw)
    <3>1. \A i \in DOMAIN hw' : i + 1 \in DOMAIN hw /\ hw'[i] = hw[i + 1] /\ i + 1 > 1
      BY <1>0, <2>1, <2>3, TailIs
    <3>2. \A i \in DOMAIN hw : /\ hw[i].cmd.op = "start" /\ hw[i].cmd.count = Max
                               /\ hw[i].filled < Max
                               /\ i > 1 => hw[i].filled = 0
      BY <1>0 DEF QueuesOK
    <3>. QED
      BY <1>0, <2>1, <3>1, <3>2 DEF QueuesOK
  <2>4. CASE hw' = [hw EXCEPT ![1].filled = n] /\ n # d.cmd.count
    <3> HIDE DEF n
    <3>1. DOMAIN hw' = DOMAIN hw /\ \A i \in DOMAIN hw : i # 1 => hw'[i] = hw[i]
      BY <1>0, <2>4
    <3>2. hw'[1].cmd = hw[1].cmd /\ hw'[1].filled = n
      BY <1>0, <2>2, <2>4 DEF Descriptors
    <3>6. n # Max /\ n \in 1 .. Max
      BY <2>2, <2>4
    <3>3. n < Max
      BY <1>0, <3>6
    <3>4. \A i \in DOMAIN hw : /\ hw[i].cmd.op = "start" /\ hw[i].cmd.count = Max
                               /\ hw[i].filled < Max
                               /\ i > 1 => hw[i].filled = 0
      BY <1>0 DEF QueuesOK
    <3>5. \A i \in DOMAIN hw : /\ hw'[i].cmd.op = "start" /\ hw'[i].cmd.count = Max
                               /\ hw'[i].filled < Max
                               /\ i > 1 => hw'[i].filled = 0
      BY <2>2, <3>1, <3>2, <3>3, <3>4
    <3>. QED
      BY <1>0, <2>1, <3>1, <3>5 DEF QueuesOK
  <2>. QED
    BY <2>1, <2>3, <2>4
<1>7. CASE UNCHANGED <<armq, hw>>
  BY <1>0, <1>7 DEF QueuesOK
<1>8. ASSUME NEW h \in Handlers,
             Enter(h) \/ Lock(h) \/ Deliver(h) \/ Leave(h) \/ PostFails(h) \/ Advance(h)
      PROVE  QueuesOK'
  BY <1>7, <1>8 DEF Enter, Lock, Deliver, Leave, PostFails, Advance, arm
<1>9. CASE Enable \/ DisableMark \/ DisableReset
  BY <1>7, <1>9 DEF Enable, DisableMark, DisableReset, arm
<1>10. CASE UNCHANGED vars
  BY <1>7, <1>10 DEF vars, arm
<1>11. CASE DmaRxCompleteHandler \/ DmaRxFullHandler \/ LoseAck
  BY <1>7, <1>11 DEF DmaRxCompleteHandler, DmaRxFullHandler, Interrupt, LoseAck
<1>. QED
  BY <1>2, <1>3, <1>4, <1>5, <1>6, <1>8, <1>9, <1>10, <1>11 DEF Next, DataHandler, Disable, Arm

LEMMA LocalStep == Local /\ [Next]_vars => Local'
BY ControlTypeStep, ChannelTypeStep, CallerTypeStep, DataTypeStep, QueueTypeStep, QueuesStep
DEF Local, Types

LEMMA LocalHolds == Spec => []Local
BY InitLocal, LocalStep, PTL DEF Spec

(* Type correctness: however the link, the ARM and the handlers interleave,   *)
(* indices stay within the ring, cells within their segments, and a segment   *)
(* is never filled beyond what its command allows.                            *)
THEOREM RxTypeCorrect == Spec => []TypeOK
<1>1. Local => TypeOK
  <2> SUFFICES ASSUME Local PROVE TypeOK
    OBVIOUS
  <2>1. \A i \in DOMAIN hw : hw[i].cmd.op = "start" /\ hw[i].filled < hw[i].cmd.count
    BY DEF Local, QueuesOK
  <2>. QED
    BY <2>1 DEF Local, Types, ControlType, ChannelType, CallerType, DataType, SegRecords, TypeOK
<1>. QED
  BY <1>1, LocalHolds, PTL
-------------------------------------------------------------------------------
(* While the link is calm: who holds the lock, and what for,                  *)
Holding == {"look", "post", "advance"}
At(step) == \E h \in Handlers : pc[h] = step
CallersOK ==
  /\ \A h \in Handlers : pc[h] \in Holding <=> lock = h
  /\ lock # "free" => ix[lock] = next

(* and what the channel is like when it is not enabled, and when it never was.*)
StopOK ==
  /\ state # "enabled" => \A h \in Handlers : Idle(h)
  /\ stopPc # "no" => state = "disabled"
  /\ stops = 0 => state # "disabled"
  /\ state = "uninitialized" => armq = <<>> /\ hw = <<>> /\ resp = <<>>
  /\ state # "enabled" /\ stopPc = "no" =>
       cur = next /\ \A s \in Segments : seg[s].state = "ready"
  /\ state = "enabled" => \A i \in DOMAIN armq : armq[i].op = "start"

Orderly == Local /\ CallersOK /\ StopOK

LEMMA InitOrderly == Init => Orderly
<1> SUFFICES ASSUME Init PROVE Orderly
  OBVIOUS
<1>1. CallersOK
  BY RxAssumption DEF Init, CallersOK, Holding
<1>2. StopOK
  BY DEF Init, StopOK, Idle
<1>. QED
  BY <1>1, <1>2, InitLocal DEF Orderly

(* The handler that is in the locked part of DmaRxDataHandler: it alone is,   *)
(* and it works on NextSegment.                                               *)
LEMMA Holder ==
  ASSUME Orderly, NEW h \in Handlers, pc[h] \in Holding
  PROVE  /\ lock = h /\ lock # "free" /\ ix[h] = next
         /\ \A g \in Handlers : pc[g] \in Holding => g = h
         /\ \A step \in Holding : At(step) <=> pc[h] = step
<1>1. lock = h /\ lock # "free" /\ \A g \in Handlers : pc[g] \in Holding => g = h
  BY RxAssumption DEF Orderly, CallersOK
<1>2. \A step \in Holding : At(step) <=> pc[h] = step
  BY <1>1 DEF At
<1>. QED
  BY <1>1, <1>2 DEF Orderly, CallersOK

(* Nobody is, while the lock is free.                                         *)
LEMMA NoHolder ==
  ASSUME Orderly, lock = "free"
  PROVE  /\ \A g \in Handlers : pc[g] \notin Holding
         /\ \A step \in Holding : ~At(step)
<1>1. \A g \in Handlers : pc[g] \notin Holding
  BY RxAssumption DEF Orderly, CallersOK
<1>. QED
  BY <1>1 DEF At

(* Where the handlers are after a step of one of them that holds the lock,    *)
(* or takes it.                                                               *)
LEMMA AtStep ==
  ASSUME Orderly, NEW h \in Handlers, pc[h] \in Holding \/ lock = "free",
         NEW x, pc' = [pc EXCEPT ![h] = x]
  PROVE  /\ \A step \in Holding : At(step)' <=> x = step
         /\ \A g \in Handlers : pc'[g] \in Holding <=> g = h /\ x \in Holding
<1>1. \A g \in Handlers : pc[g] \in Holding => g = h
  BY Holder, NoHolder
<1>2. pc'[h] = x /\ \A g \in Handlers : g # h => pc'[g] = pc[g]
  BY DEF Orderly, Local, Types, CallerType
<1>3. \A step \in Holding : (\E g \in Handlers : pc'[g] = step) <=> x = step
  BY <1>1, <1>2
<1>. QED
  BY <1>1, <1>2, <1>3 DEF At

(* The handlers are idle when the channel is not enabled.                     *)
LEMMA DownIsIdle ==
  ASSUME Orderly, state # "enabled"
  PROVE  lock = "free" /\ \A h \in Handlers : pc[h] = "idle" /\ pc[h] \notin Holding
<1>1. \A h \in Handlers : pc[h] = "idle"
  BY DEF Orderly, StopOK, Idle
<1>2. \A h \in Handlers : pc[h] \notin Holding
  BY <1>1 DEF Holding
<1>3. lock \notin Handlers
  BY <1>2 DEF Orderly, CallersOK
<1>. QED
  BY <1>1, <1>2, <1>3 DEF Orderly, Local, Types, CallerType

LEMMA CallersStep ==
  ASSUME Orderly, [Next]_vars
  PROVE  CallersOK'
<1>0. CallersOK /\ CallerType /\ ChannelType /\ "free" \notin Handlers
  BY RxAssumption DEF Orderly, Local, Types
<1>1. ASSUME NEW h \in Handlers, NEW x, pc[h] = "idle", x \in {"idle", "lock"},
             pc' = [pc EXCEPT ![h] = x], UNCHANGED <<lock, ix, next>>
      PROVE  CallersOK'
  <2>1. \A g \in Handlers : pc'[g] \in Holding <=> pc[g] \in Holding
    BY <1>0, <1>1 DEF CallerType, Holding
  <2>. QED
    BY <1>0, <1>1, <2>1 DEF CallersOK
<1>2. CASE Enable
  <2>1. pc[Opener] = "idle" /\ pc' = [pc EXCEPT ![Opener] = "lock"] /\ UNCHANGED <<lock, ix, next>>
    BY <1>2 DEF Enable, Idle
  <2>. QED
    BY <1>1, <2>1, RxAssumption
<1>3. ASSUME NEW h \in Handlers, Enter(h) PROVE CallersOK'
  BY <1>1, <1>3 DEF Enter, Idle, chan
<1>4. ASSUME NEW h \in Handlers, Lock(h) PROVE CallersOK'
  <2>1. lock = "free" /\ lock' = h /\ pc' = [pc EXCEPT ![h] = "look"]
        /\ ix' = [ix EXCEPT ![h] = next] /\ next' = next
    BY <1>4 DEF Lock, chan
  <2>2. \A g \in Handlers : pc'[g] \in Holding <=> g = h
    BY <2>1, AtStep DEF Holding
  <2>3. ix'[h] = next
    BY <1>0, <2>1 DEF CallerType
  <2>. QED
    BY <1>0, <2>1, <2>2, <2>3 DEF CallersOK
<1>5. ASSUME NEW h \in Handlers, pc[h] \in Holding, Unlock(h) PROVE CallersOK'
  <2>1. lock' = "free" /\ pc' = [pc EXCEPT ![h] = "idle"]
    BY <1>5 DEF Unlock
  <2>2. \A g \in Handlers : pc'[g] \notin Holding
    BY <1>5, <2>1, AtStep DEF Holding
  <2>. QED
    BY <1>0, <2>1, <2>2 DEF CallersOK, Holding
<1>6. ASSUME NEW h \in Handlers, Leave(h) \/ PostFails(h) PROVE CallersOK'
  BY <1>5, <1>6 DEF Leave, PostFails, Holding
<1>7. ASSUME NEW h \in Handlers, Deliver(h) \/ Post(h) PROVE CallersOK'
  <2>1. pc[h] \in Holding /\ UNCHANGED <<lock, ix, next>>
    BY <1>7 DEF Deliver, Post, Holding, chan
  <2>2. PICK x \in Holding : pc' = [pc EXCEPT ![h] = x]
    BY <1>7 DEF Deliver, Post, Holding
  <2>3. \A g \in Handlers : pc'[g] \in Holding <=> g = h
    BY <2>1, <2>2, AtStep
  <2>4. lock = h /\ ix[h] = next
    BY <2>1, Holder
  <2>. QED
    BY <2>1, <2>3, <2>4 DEF CallersOK
<1>8. ASSUME NEW h \in Handlers, Advance(h) PROVE CallersOK'
  <2>1. pc[h] \in Holding /\ pc' = [pc EXCEPT ![h] = "look"] /\ lock' = lock
        /\ ix' = [ix EXCEPT ![h] = After(next)] /\ next' = After(next)
    BY <1>8 DEF Advance, Holding
  <2>2. lock = h /\ \A g \in Handlers : pc'[g] \in Holding <=> g = h
    BY <2>1, AtStep, Holder DEF Holding
  <2>3. ix'[h] = next'
    BY <1>0, <2>1 DEF CallerType
  <2>. QED
    BY <2>1, <2>2, <2>3 DEF CallersOK
<1>9. CASE UNCHANGED <<pc, lock, ix, next>>
  BY <1>0, <1>9 DEF CallersOK
<1>10. CASE DisableMark \/ DisableStop
  BY <1>9, <1>10 DEF DisableMark, DisableStop, caller, chan
<1>11. CASE DisableReset
  <2>1. state # "enabled" /\ UNCHANGED <<pc, lock>>
    BY <1>11 DEF DisableReset, caller, Orderly, StopOK
  <2>2. lock = "free"
    BY <2>1, DownIsIdle
  <2>. QED
    BY <1>0, <2>1, <2>2 DEF CallersOK
<1>12. CASE DmaRxCompleteHandler \/ DmaRxFullHandler
  BY <1>9, <1>12 DEF DmaRxCompleteHandler, DmaRxFullHandler, Interrupt, chan
<1>13. CASE Arm
  BY <1>9, <1>13 DEF Arm, ArmTake, ArmStop, ArmStore, LoseAck, chan, caller
<1>14. CASE UNCHANGED vars
  BY <1>9, <1>14 DEF vars, chan, caller
<1>. QED
  BY <1>2, <1>3, <1>4, <1>6, <1>7, <1>8, <1>10, <1>11, <1>12, <1>13, <1>14 DEF Next, DataHandler, Disable

LEMMA StopStep ==
  ASSUME Orderly, [Next]_vars, Calm'
  PROVE  StopOK'
<1>0. StopOK /\ Types /\ stops \in Nat /\ Smp' = Smp /\ QueueType
  BY SettingStep DEF Orderly, Local, Types, ControlType
<1>. USE DEF QueueType
<1>1. ASSUME NEW h \in Handlers, Enter(h) PROVE StopOK'
  <2>1. UNCHANGED <<state, next, cur, seg, stopPc, stops, armq, hw, resp>> /\ pc[h] = "idle"
        /\ pc' = [pc EXCEPT ![h] = IF state = "enabled" THEN "lock" ELSE "idle"]
    BY <1>1 DEF Enter, chan, arm, Idle
  <2>2. state # "enabled" => \A g \in Handlers : pc'[g] = pc[g]
    BY <1>0, <2>1 DEF Types, CallerType
  <2>. QED
    BY <1>0, <2>1, <2>2 DEF StopOK, Idle
<1>2. ASSUME NEW h \in Handlers, Lock(h) \/ Deliver(h) \/ Leave(h) \/ Post(h) \/ PostFails(h) \/ Advance(h)
      PROVE  StopOK'
  <2>1. pc[h] # "idle" /\ UNCHANGED <<state, stopPc, stops>>
    BY <1>2 DEF Lock, Deliver, Leave, Post, PostFails, Advance, chan
  <2>2. state = "enabled"
    BY <2>1, DownIsIdle
  <2>3. CASE Post(h)
    <3>1. PICK c \in Commands : c = [StartCmd(ix[h]) EXCEPT !.handle = next] /\ c.op = "start"
      BY PostedCommand DEF Orderly
    <3>2. armq' = Append(armq, c)
      BY <2>3, <3>1 DEF Post
    <3>3. \A i \in DOMAIN armq' : armq'[i].op = "start"
      BY <1>0, <2>2, <3>1, <3>2, AppendIs DEF StopOK
    <3>. QED
      BY <1>0, <2>1, <2>2, <3>3 DEF StopOK
  <2>4. CASE ~Post(h)
    <3>1. armq' = armq
      BY <1>2, <2>4 DEF Lock, Deliver, Leave, PostFails, Advance, arm
    <3>. QED
      BY <1>0, <2>1, <2>2, <3>1 DEF StopOK
  <2>. QED
    BY <2>3, <2>4
<1>3. CASE Enable
  <2>1. state' = "enabled" /\ UNCHANGED <<stopPc, stops, armq>> /\ state # "enabled" /\ stopPc = "no"
    BY <1>3 DEF Enable, arm
  <2>2. armq = <<>>
    <3>1. CASE stops = 0
      BY <1>0, <2>1, <3>1 DEF StopOK, Types, ChannelType
    <3>2. CASE stops # 0
      BY <1>3, <2>1, <3>2 DEF Calm, Enable
    <3>. QED
      BY <3>1, <3>2
  <2>. QED
    BY <1>0, <2>1, <2>2 DEF StopOK
<1>4. CASE DisableMark
  <2>1. state' = "disabled" /\ stopPc' = "stop" /\ stops' = stops + 1 /\ pc' = pc
    BY <1>4 DEF DisableMark, caller
  <2>2. ~Smp
    BY <1>0, <2>1 DEF Calm
  <2>3. \A h \in Handlers : Idle(h)
    BY <1>4, <2>2 DEF DisableMark, Quiet
  <2>. QED
    BY <1>0, <2>1, <2>3 DEF StopOK, Idle
<1>5. CASE DisableStop
  <2>1. state = "disabled" /\ stopPc' = "reset" /\ UNCHANGED <<state, pc, stops>>
    BY <1>0, <1>5 DEF DisableStop, StopOK, chan, caller
  <2>. QED
    BY <1>0, <2>1 DEF StopOK, Idle
<1>6. CASE DisableReset
  <2>1. state = "disabled" /\ next' = 0 /\ cur' = 0 /\ stopPc' = "no" /\ UNCHANGED <<state, pc, stops>>
    BY <1>0, <1>6 DEF DisableReset, StopOK, caller
  <2>2. \A s \in Segments : seg'[s].state = "ready"
    BY <1>0, <1>6 DEF DisableReset, Types, ChannelType, SegRecords
  <2>. QED
    BY <1>0, <2>1, <2>2 DEF StopOK, Idle
<1>7. CASE DmaRxCompleteHandler \/ DmaRxFullHandler
  <2>1. UNCHANGED <<state, pc, stopPc, stops, armq, hw>> /\ resp # <<>>
    BY <1>7 DEF DmaRxCompleteHandler, DmaRxFullHandler, Interrupt, chan
  <2>2. CASE state = "enabled"
    BY <1>0, <2>1, <2>2 DEF StopOK
  <2>3. CASE state # "enabled"
    <3>1. UNCHANGED <<next, cur, seg>>
      BY <1>7, <2>3 DEF DmaRxCompleteHandler, DmaRxFullHandler, chan
    <3>. QED
      BY <1>0, <2>1, <3>1 DEF StopOK, Idle
  <2>. QED
    BY <2>2, <2>3
<1>8. CASE ArmTake \/ ArmStop
  <2>1. UNCHANGED <<state, next, cur, seg, pc, stopPc, stops>> /\ armq # <<>> /\ armq' = Tail(armq)
    BY <1>8 DEF ArmTake, ArmStop, chan, caller
  <2>2. \A i \in DOMAIN armq' : i + 1 \in DOMAIN armq /\ armq'[i] = armq[i + 1]
    BY <1>0, <2>1
  <2>. QED
    BY <1>0, <2>1, <2>2 DEF StopOK, Idle
<1>9. CASE LoseAck \/ \E last \in BOOLEAN : ArmStore(last)
  <2>1. UNCHANGED <<state, next, cur, seg, pc, stopPc, stops, armq>> /\ (hw # <<>> \/ resp # <<>>)
    BY <1>9 DEF ArmStore, LoseAck, chan, caller
  <2>. QED
    BY <1>0, <2>1 DEF StopOK, Idle
<1>10. CASE UNCHANGED vars
  BY <1>0, <1>10 DEF vars, chan, caller, arm, StopOK, Idle
<1>. QED
  BY <1>1, <1>2, <1>3, <1>4, <1>5, <1>6, <1>7, <1>8, <1>9, <1>10 DEF Next, DataHandler, Disable, Arm

(* A step into a calm state comes from one.                                   *)
LEMMA CalmBefore ==
  ASSUME Local, [Next]_vars, Calm'
  PROVE  Calm
<1>1. Smp' = Smp /\ stops \in Nat
  BY SettingStep DEF Local, Types, ControlType
<1>2. ASSUME NEW h \in Handlers, DataHandler(h) PROVE stops' = stops
  BY <1>2 DEF DataHandler, Enter, Lock, Deliver, Leave, Post, PostFails, Advance
<1>3. CASE DisableMark
  BY <1>1, <1>3 DEF Calm, DisableMark
<1>4. CASE stops' = stops
  BY <1>1, <1>4 DEF Calm
<1>5. CASE Enable \/ DisableStop \/ DisableReset \/ DmaRxCompleteHandler \/ DmaRxFullHandler
  BY <1>4, <1>5 DEF Enable, DisableStop, DisableReset, DmaRxCompleteHandler, DmaRxFullHandler, Interrupt
<1>6. CASE Arm \/ UNCHANGED vars
  BY <1>4, <1>6 DEF Arm, ArmTake, ArmStop, ArmStore, LoseAck, vars
<1>. QED
  BY <1>2, <1>3, <1>4, <1>5, <1>6 DEF Next, Disable
-------------------------------------------------------------------------------
(* The ring: the ARM's segments are the w places from CurrentSegment on, up   *)
(* to where the next command goes, and the segment a handler is about to hand *)
(* back.                                                                      *)
Top == IF At("advance") THEN After(next) ELSE next
Ring(w) ==
  /\ (w < N /\ Dist(cur, Top) = w) \/ (w = N /\ Top = cur)
  /\ At("post") => w < N
  /\ \A s \in Segments :
       seg[s].state = "arm" <=> Dist(cur, s) < w \/ (At("post") /\ s = next)

(* The segments reported, filled or queued are its places from the b-th on:   *)
(* only lost reports leave places before.                                     *)
Queued(w, b) ==
  /\ b + Len(resp) + Len(hw) + Len(armq) = w
  /\ losses = 0 => b = 0
  /\ \A i \in DOMAIN resp : resp[i].kind = "complete" /\ Dist(cur, resp[i].handle) = b + i - 1
  /\ \A i \in DOMAIN hw : /\ Dist(cur, hw[i].cmd.addr) = b + Len(resp) + i - 1
                          /\ hw[i].cmd.handle = hw[i].cmd.addr
  /\ \A i \in DOMAIN armq : /\ Dist(cur, armq[i].addr) = b + Len(resp) + Len(hw) + i - 1
                            /\ armq[i].handle = armq[i].addr

Placed(w, b) == Ring(w) /\ Queued(w, b)
RingOK == state = "enabled" /\ rejects = 0 => \E w, b \in 0 .. N : Placed(w, b)

(* The ring does not change when neither its indices nor the states of its    *)
(* segments do.                                                               *)
LEMMA RingSame ==
  ASSUME NEW w, Ring(w), cur' = cur, Top' = Top, At("post")' <=> At("post"), next' = next,
         \A s \in Segments : seg'[s].state = seg[s].state
  PROVE  Ring(w)'
BY DEF Ring

(* Nor do the queues' places in it when they are left alone.                  *)
LEMMA QueuesSame ==
  ASSUME NEW w, NEW b, Queued(w, b), UNCHANGED <<cur, armq, hw, resp, losses>>
  PROVE  Queued(w, b)'
BY DEF Queued

(* The queues speak of segments.                                              *)
LEMMA QueueElements ==
  ASSUME Local
  PROVE  /\ \A i \in DOMAIN armq : armq[i] \in Commands /\ armq[i].addr \in Segments
         /\ \A i \in DOMAIN hw : hw[i] \in Descriptors /\ hw[i].cmd.addr \in Segments
         /\ \A i \in DOMAIN resp : resp[i] \in Responses /\ resp[i].handle \in Segments
                                   /\ resp[i].count \in 0 .. Max
         /\ Len(armq) \in Nat /\ Len(hw) \in Nat /\ Len(resp) \in Nat
         /\ DOMAIN armq = 1 .. Len(armq) /\ DOMAIN hw = 1 .. Len(hw) /\ DOMAIN resp = 1 .. Len(resp)
<1>0. armq \in Seq(Commands) /\ hw \in Seq(Descriptors) /\ resp \in Seq(Responses)
  BY DEF Local, Types, QueueType
<1>1. /\ \A i \in DOMAIN armq : armq[i] \in Commands
      /\ \A i \in DOMAIN hw : hw[i] \in Descriptors
      /\ \A i \in DOMAIN resp : resp[i] \in Responses
      /\ Len(armq) \in Nat /\ Len(hw) \in Nat /\ Len(resp) \in Nat
      /\ DOMAIN armq = 1 .. Len(armq) /\ DOMAIN hw = 1 .. Len(hw) /\ DOMAIN resp = 1 .. Len(resp)
  BY <1>0
<1>2. \A c \in Commands : c.addr \in Segments
  BY DEF Commands
<1>3. \A d \in Descriptors : d.cmd \in Commands
  BY DEF Descriptors
<1>4. \A r \in Responses : r.handle \in Segments /\ r.count \in 0 .. Max
  BY DEF Responses
<1>. QED
  BY <1>1, <1>2, <1>3, <1>4

(* What is known of the segments of the window.                               *)
LEMMA Window ==
  ASSUME Orderly, NEW w \in 0 .. N, Ring(w)
  PROVE  /\ cur \in Segments /\ next \in Segments /\ Top \in Segments /\ w \in Nat
         /\ N \in Nat /\ N > 1
         /\ \A s \in Segments : Dist(cur, s) \in 0 .. N - 1
         /\ seg[next].state # "arm" => w < N
         /\ w < N /\ ~At("advance") => Dist(cur, next) = w
         /\ At("post") => ~At("advance") /\ Dist(cur, next) = w
         /\ seg \in [Segments -> SegRecords]
<1>1. cur \in Segments /\ next \in Segments /\ N \in Nat /\ N > 1 /\ After(next) \in Segments
      /\ seg \in [Segments -> SegRecords]
  BY SettingType DEF Orderly, Local, Types, ControlType, ChannelType
<1>2. \A s \in Segments : Dist(cur, s) \in 0 .. N - 1
  BY <1>1, Distances
<1>3. seg[next].state # "arm" => w < N
  BY <1>1, <1>2 DEF Ring
<1>4. w < N /\ ~At("advance") => Dist(cur, next) = w
  BY <1>1, <1>2 DEF Ring, Top
<1>5. ASSUME At("post") PROVE ~At("advance") /\ Dist(cur, next) = w
  <2>1. PICK h \in Handlers : pc[h] = "post"
    BY <1>5 DEF At
  <2>2. ~At("advance")
    BY <2>1, Holder DEF Holding
  <2>. QED
    BY <1>2, <1>5, <2>2 DEF Ring, Top
<1>. QED
  BY <1>1, <1>2, <1>3, <1>4, <1>5 DEF Top

(* A segment that is marked for the ARM, or whose mark is taken off, is the   *)
(* one after the window.                                                      *)
LEMMA MarkRing ==
  ASSUME Orderly, NEW w \in 0 .. N, NEW b \in 0 .. N, Placed(w, b),
         NEW h \in Handlers, Deliver(h) \/ PostFails(h)
  PROVE  Placed(w, b)'
<1>. USE DEF Placed
<1>1. pc[h] \in {"look", "post"} /\ pc[h] \in Holding /\ UNCHANGED <<next, cur, armq, hw, resp, losses>>
  BY DEF Deliver, PostFails, Holding, arm
<1>2. ix[h] = next /\ next \in Segments /\ seg \in [Segments -> SegRecords] /\ cur \in Segments
  BY <1>1, Holder DEF Orderly, Local, Types, ChannelType
<1>3. ~At("advance") /\ (At("post") <=> pc[h] = "post")
  BY <1>1, Holder DEF Holding
<1>5. PICK t \in {"arm", "ready"} :
        /\ seg'[next].state = t /\ \A s \in Segments : s # next => seg'[s] = seg[s]
        /\ ~At("advance")' /\ (At("post")' <=> t = "arm")
        /\ pc[h] = "look" => seg[next].state = "ready"
  <2>1. CASE Deliver(h)
    <3>1. seg' = [seg EXCEPT ![next] = [state |-> "arm", count |-> Max]]
          /\ pc' = [pc EXCEPT ![h] = "post"] /\ seg[next].state = "ready"
      BY <1>2, <2>1 DEF Deliver
    <3>2. ~At("advance")' /\ At("post")'
      BY <1>1, <3>1, AtStep DEF Holding
    <3>. QED
      BY <1>2, <3>1, <3>2
  <2>2. CASE PostFails(h)
    <3>1. seg' = [seg EXCEPT ![next].state = "ready"] /\ pc' = [pc EXCEPT ![h] = "idle"]
          /\ pc[h] = "post"
      BY <1>2, <2>2 DEF PostFails, Unlock
    <3>2. ~At("advance")' /\ ~At("post")'
      BY <1>1, <3>1, AtStep DEF Holding
    <3>3. seg'[next].state = "ready" /\ \A s \in Segments : s # next => seg'[s] = seg[s]
      BY <1>2, <3>1 DEF SegRecords
    <3>. QED
      BY <3>1, <3>2, <3>3
  <2>. QED
    BY <2>1, <2>2
<1>4. w < N /\ Dist(cur, next) = w /\ N \in Nat
  <2>1. w < N /\ N \in Nat
    BY <1>1, <1>3, <1>5, Window DEF Ring
  <2>. QED
    BY <1>3, <2>1, Window
<1>6. Top' = Top
  BY <1>1, <1>3, <1>5 DEF Top
<1>7. \A s \in Segments : s # next => (seg'[s].state = "arm" <=> Dist(cur, s) < w)
  BY <1>5 DEF Ring
<1>8. Ring(w)'
  <2>1. (w < N /\ Dist(cur, Top) = w) \/ (w = N /\ Top = cur)
    BY DEF Ring
  <2>2. ~(Dist(cur, next) < w)
    BY <1>4
  <2>3. \A s \in Segments : seg'[s].state = "arm" <=> Dist(cur, s) < w \/ (At("post")' /\ s = next)
    BY <1>5, <1>7, <2>2
  <2>. QED
    BY <1>1, <1>4, <1>6, <2>1, <2>3 DEF Ring
<1>9. Queued(w, b)'
  BY <1>1, QueuesSame
<1>. QED
  BY <1>8, <1>9

(* A posted command goes to the end of the window, which grows by one.        *)
LEMMA PostRing ==
  ASSUME Orderly, NEW w \in 0 .. N, NEW b \in 0 .. N, Placed(w, b), NEW h \in Handlers, Post(h)
  PROVE  w + 1 \in 0 .. N /\ Placed(w + 1, b)'
<1>. USE DEF Placed
<1>0. PICK c \in Commands : c = [StartCmd(ix[h]) EXCEPT !.handle = next] /\ c.addr = ix[h] /\ c.handle = next
  BY PostedCommand DEF Orderly
<1>1. pc[h] = "post" /\ pc[h] \in Holding /\ pc' = [pc EXCEPT ![h] = "advance"]
      /\ UNCHANGED <<next, cur, seg, hw, resp, losses>> /\ armq' = Append(armq, c)
  BY <1>0 DEF Post, Holding, chan
<1>2. ix[h] = next /\ next \in Segments /\ cur \in Segments /\ armq \in Seq(Commands)
  BY <1>1, Holder DEF Orderly, Local, Types, ChannelType, QueueType
<1>3. At("post") /\ ~At("advance") /\ ~At("post")' /\ At("advance")'
  BY <1>1, Holder, AtStep DEF Holding
<1>4. w < N /\ Dist(cur, next) = w /\ w \in Nat /\ N \in Nat
      /\ \A s \in Segments : Dist(cur, s) \in 0 .. N - 1
  BY <1>3, Window DEF Ring
<1>5. \A s \in Segments : Dist(cur, s) = w <=> s = next
  <2>1. \A s \in Segments : Dist(cur, s) = Dist(cur, next) => s = next
    BY <1>2, Distances
  <2>. QED
    BY <1>2, <1>4, <2>1
<1>6. Ring(w + 1)'
  <2>1. Dist(cur, After(next)) = (IF w + 1 < N THEN w + 1 ELSE 0)
    BY <1>2, <1>4, Distances
  <2>2. After(next) \in Segments /\ (Dist(cur, After(next)) = 0 <=> After(next) = cur)
    BY <1>2, SettingType, Distances DEF Orderly, Local, Types, ControlType
  <2>3. Top' = After(next)
    BY <1>1, <1>3 DEF Top, After
  <2>4. (w + 1 < N /\ Dist(cur, Top') = w + 1) \/ (w + 1 = N /\ Top' = cur)
    BY <1>4, <2>1, <2>2, <2>3
  <2>5. \A s \in Segments : Dist(cur, s) < w + 1 <=> Dist(cur, s) < w \/ s = next
    BY <1>4, <1>5
  <2>6. \A s \in Segments : seg[s].state = "arm" <=> Dist(cur, s) < w + 1
    BY <1>3, <2>5 DEF Ring
  <2>. QED
    BY <1>1, <1>3, <2>4, <2>6 DEF Ring
<1>7. /\ Len(armq') = Len(armq) + 1 /\ Len(armq) \in Nat /\ Len(hw) \in Nat /\ Len(resp) \in Nat
      /\ \A i \in DOMAIN armq' : \/ i \in DOMAIN armq /\ armq'[i] = armq[i]
                                 \/ i = Len(armq) + 1 /\ armq'[i] = c
  BY <1>1, <1>2, AppendIs, QueueElements DEF Orderly
<1>8. Queued(w + 1, b)'
  <2>1. b + Len(resp) + Len(hw) + Len(armq) = w
    BY DEF Queued
  <2>2. b + Len(resp) + Len(hw) + Len(armq') = w + 1
        /\ w = b + Len(resp) + Len(hw) + (Len(armq) + 1) - 1
    BY <1>4, <1>7, <2>1
  <2>3. \A i \in DOMAIN armq' : /\ Dist(cur, armq'[i].addr) = b + Len(resp) + Len(hw) + i - 1
                                /\ armq'[i].handle = armq'[i].addr
    BY <1>0, <1>2, <1>4, <1>7, <2>2 DEF Queued
  <2>. QED
    BY <1>1, <2>2, <2>3 DEF Queued
<1>. QED
  BY <1>4, <1>6, <1>8

(* Stepping over the segment that was posted leaves the window as it is.      *)
LEMMA AdvanceRing ==
  ASSUME Orderly, NEW w \in 0 .. N, NEW b \in 0 .. N, Placed(w, b), NEW h \in Handlers, Advance(h)
  PROVE  Placed(w, b)'
<1>1. pc[h] = "advance" /\ pc[h] \in Holding /\ next' = After(next)
      /\ pc' = [pc EXCEPT ![h] = "look"] /\ UNCHANGED <<cur, seg, armq, hw, resp, losses>>
  BY DEF Advance, Holding, arm
<1>2. At("advance") /\ ~At("post") /\ ~At("advance")' /\ ~At("post")'
  BY <1>1, Holder, AtStep DEF Holding
<1>3. Top' = Top
  BY <1>1, <1>2 DEF Top
<1>4. Ring(w)'
  BY <1>1, <1>2, <1>3 DEF Ring, Placed
<1>. QED
  BY <1>1, <1>4, QueuesSame DEF Placed

(* A completion closes the window up to the segment that was filled, which is *)
(* the first of those outstanding.                                            *)
LEMMA CompleteRing ==
  ASSUME Orderly, NEW w \in 0 .. N, NEW b \in 0 .. N, Placed(w, b),
         DmaRxCompleteHandler, state = "enabled"
  PROVE  \E v \in 0 .. N : Placed(v, 0)'
<1>. USE DEF Placed
<1> DEFINE h == Head(resp).handle
<1>1. /\ cur \in Segments /\ next \in Segments /\ h \in Segments /\ Top \in Segments
      /\ h = resp[1].handle /\ 1 \in DOMAIN resp /\ w \in Nat /\ N \in Nat /\ N > 1
      /\ resp \in Seq(Responses) /\ resp # <<>>
  BY CompleteStep, ResponseHead, Window DEF Orderly, Local, Types, QueueType
<1>2. /\ UNCHANGED <<next, pc, armq, hw, losses>> /\ cur' = After(h) /\ resp' = Tail(resp)
      /\ \A s \in Segments :
           seg'[s].state = IF Dist(cur, s) < Dist(cur, h) \/ s = h THEN "ready" ELSE seg[s].state
  BY CompleteStep DEF Orderly
<1>3. \A s \in Segments : Dist(cur, s) \in 0 .. N - 1
  BY <1>1, Distances
<1>4. Dist(cur, h) = b
  BY <1>1 DEF Queued
<1>5. /\ b + Len(resp) + Len(hw) + Len(armq) = w
      /\ Len(armq) \in Nat /\ Len(hw) \in Nat /\ Len(resp) \in Nat /\ Len(resp) >= 1
      /\ Len(resp') = Len(resp) - 1
      /\ \A i \in DOMAIN resp' : i + 1 \in DOMAIN resp /\ resp'[i] = resp[i + 1]
  BY <1>1, <1>2, QueueElements, TailIs DEF Queued, Orderly
<1>6. \A s \in Segments : Dist(cur', s) = IF Dist(cur, s) > b THEN Dist(cur, s) - b - 1
                                           ELSE Dist(cur, s) - b - 1 + N
  <2>1. \A s \in Segments : Dist(After(h), s) = IF Dist(cur, s) > Dist(cur, h)
                                                 THEN Dist(cur, s) - Dist(cur, h) - 1
                                                 ELSE Dist(cur, s) - Dist(cur, h) - 1 + N
    BY <1>1, Distances
  <2>. QED
    BY <1>2, <1>4, <2>1
<1> HIDE DEF h
<1>7. \A s \in Segments : Dist(cur, s) = b <=> s = h
  <2>1. cur \in Segments /\ h \in Segments
    BY <1>1
  <2>2. \A s \in Segments : Dist(cur, s) = Dist(cur, h) => s = h
    BY <2>1, Distances
  <2>. QED
    BY <1>4, <2>1, <2>2
<1>8. (At("post")' <=> At("post")) /\ (At("advance")' <=> At("advance")) /\ Top' = Top
  BY <1>2 DEF At, Top, After
<1>9. PICK v \in 0 .. N : v = w - b - 1
  BY <1>1, <1>5
<1>10. \A s \in Segments : Dist(cur', s) < v <=> Dist(cur, s) > b /\ Dist(cur, s) < w
  BY <1>1, <1>3, <1>6, <1>9
<1>11. (v < N /\ Dist(cur', Top) = v) \/ (v = N /\ Top = cur')
  <2>1. CASE w < N /\ Dist(cur, Top) = w
    BY <1>1, <1>3, <1>5, <1>6, <1>9, <2>1
  <2>2. CASE w = N /\ Top = cur
    <3>1. Dist(cur, Top) = 0
      BY <1>1, <2>2, Distances
    <3>. QED
      BY <1>1, <1>3, <1>6, <1>9, <2>2, <3>1
  <2>. QED
    BY <2>1, <2>2 DEF Ring
<1>12. \A s \in Segments :
         /\ Dist(cur, s) > b => seg'[s].state = seg[s].state
         /\ Dist(cur, s) <= b => seg'[s].state = "ready"
  BY <1>2, <1>3, <1>4, <1>7
<1>13. Ring(v)'
  <2>1. \A s \in Segments : s = next /\ At("post") => Dist(cur, s) > b
    BY <1>1, <1>5, Window
  <2>2. \A s \in Segments : seg'[s].state = "arm" <=> Dist(cur', s) < v \/ (At("post") /\ s = next)
    BY <1>1, <1>3, <1>10, <1>12, <2>1 DEF Ring
  <2>3. At("post") => v < N
    BY <1>1, <1>5, <1>9
  <2>. QED
    BY <1>2, <1>8, <1>11, <2>2, <2>3 DEF Ring
<1>14. Queued(v, 0)'
  <2>1. \A i \in DOMAIN resp' : resp'[i].kind = "complete" /\ Dist(cur', resp'[i].handle) = 0 + i - 1
    <3>1. \A i \in DOMAIN resp' : /\ resp'[i] = resp[i + 1] /\ resp[i + 1].kind = "complete"
                                  /\ Dist(cur, resp[i + 1].handle) = b + (i + 1) - 1
                                  /\ resp[i + 1].handle \in Segments /\ i \in Nat /\ i >= 1
      BY <1>1, <1>2, <1>5, QueueElements DEF Queued, Orderly
    <3>. QED
      BY <1>6, <3>1
  <2>2. \A i \in DOMAIN hw : /\ Dist(cur', hw[i].cmd.addr) = 0 + Len(resp') + i - 1
                             /\ hw[i].cmd.handle = hw[i].cmd.addr
    <3>1. \A i \in DOMAIN hw : /\ Dist(cur, hw[i].cmd.addr) = b + Len(resp) + i - 1
                               /\ hw[i].cmd.handle = hw[i].cmd.addr
                               /\ hw[i].cmd.addr \in Segments /\ i \in Nat /\ i >= 1
      BY QueueElements DEF Queued, Orderly
    <3>. QED
      BY <1>5, <1>6, <3>1, SMTT(30)
  <2>3. \A i \in DOMAIN armq : /\ Dist(cur', armq[i].addr) = 0 + Len(resp') + Len(hw) + i - 1
                               /\ armq[i].handle = armq[i].addr
    <3>1. \A i \in DOMAIN armq : /\ Dist(cur, armq[i].addr) = b + Len(resp) + Len(hw) + i - 1
                                 /\ armq[i].handle = armq[i].addr
                                 /\ armq[i].addr \in Segments /\ i \in Nat /\ i >= 1
      BY QueueElements DEF Queued, Orderly
    <3>. QED
      BY <1>5, <1>6, <3>1, SMTT(30)
  <2>4. 0 + Len(resp') + Len(hw) + Len(armq) = v
    BY <1>5, <1>9
  <2>. QED
    BY <1>2, <2>1, <2>2, <2>3, <2>4 DEF Queued
<1>. QED
  BY <1>13, <1>14

(* A report that is lost leaves its place before the others.                  *)
LEMMA LoseAckRing ==
  ASSUME Orderly, NEW w \in 0 .. N, NEW b \in 0 .. N, Placed(w, b), LoseAck
  PROVE  b + 1 \in 0 .. N /\ Placed(w, b + 1)'
<1>. USE DEF Placed
<1>1. /\ UNCHANGED <<next, cur, seg, pc, armq, hw>> /\ resp' = Tail(resp) /\ resp # <<>>
      /\ losses' = losses + 1 /\ losses \in Nat
  BY DEF LoseAck, chan, caller, Orderly, Local, Types, ControlType
<1>2. Ring(w)'
  BY <1>1, RingSame DEF At, Top, After
<1>3. /\ \A i \in DOMAIN resp' : i + 1 \in DOMAIN resp /\ resp'[i] = resp[i + 1]
      /\ Len(resp') = Len(resp) - 1 /\ Len(resp) >= 1
      /\ Len(armq) \in Nat /\ Len(hw) \in Nat /\ Len(resp) \in Nat
  BY <1>1, QueueElements, TailIs DEF Orderly, Local, Types, QueueType
<1>4. Queued(w, b + 1)'
  <2>1. b + 1 + Len(resp') + Len(hw) + Len(armq) = w /\ losses' # 0
        /\ b + Len(resp) = b + 1 + Len(resp')
    BY <1>1, <1>3 DEF Queued
  <2>2. \A i \in DOMAIN resp' : resp'[i].kind = "complete" /\ Dist(cur, resp'[i].handle) = b + 1 + i - 1
    <3>1. \A i \in DOMAIN resp' : resp'[i].kind = "complete" /\ i \in Nat
                                  /\ Dist(cur, resp'[i].handle) = b + (i + 1) - 1
      BY <1>1, <1>3, QueueElements DEF Queued, Orderly, Local, Types, QueueType
    <3>. QED
      BY <3>1
  <2>3. \A i \in DOMAIN hw : /\ Dist(cur, hw[i].cmd.addr) = b + 1 + Len(resp') + i - 1
                             /\ hw[i].cmd.handle = hw[i].cmd.addr
    BY <2>1 DEF Queued
  <2>4. \A i \in DOMAIN armq : /\ Dist(cur, armq[i].addr) = b + 1 + Len(resp') + Len(hw) + i - 1
                               /\ armq[i].handle = armq[i].addr
    BY <2>1 DEF Queued
  <2>. QED
    BY <1>1, <2>1, <2>2, <2>3, <2>4 DEF Queued
<1>5. b + 1 \in 0 .. N
  BY <1>3, SettingType DEF Queued, Orderly, Local, Types, ControlType
<1>. QED
  BY <1>2, <1>4, <1>5

(* The ARM takes the next command: the places stay.                           *)
LEMMA ArmTakeRing ==
  ASSUME Orderly, NEW w \in 0 .. N, NEW b \in 0 .. N, Placed(w, b), ArmTake, rejects' = 0
  PROVE  Placed(w, b)'
<1>. USE DEF Placed
<1> DEFINE d == [cmd |-> Head(armq), filled |-> 0]
<1>1. /\ UNCHANGED <<next, cur, seg, pc, resp, losses>> /\ armq' = Tail(armq) /\ armq # <<>>
      /\ hw' = Append(hw, d)
  BY DEF ArmTake, chan, caller, Orderly, Local, Types, ControlType
<1>2. Ring(w)'
  BY <1>1, RingSame DEF At, Top, After
<1>3. armq \in Seq(Commands) /\ hw \in Seq(Descriptors)
      /\ Len(armq) \in Nat /\ Len(hw) \in Nat /\ Len(resp) \in Nat
  BY QueueElements DEF Orderly, Local, Types, QueueType
<1>4. /\ \A i \in DOMAIN armq' : i + 1 \in DOMAIN armq /\ armq'[i] = armq[i + 1] /\ i \in Nat
      /\ Head(armq) = armq[1] /\ 1 \in DOMAIN armq
      /\ Len(armq') = Len(armq) - 1
  BY <1>1, <1>3, TailIs
<1>5. d.cmd = armq[1]
  BY <1>4
<1> HIDE DEF d
<1>6. /\ \A i \in DOMAIN hw' : (i \in DOMAIN hw /\ hw'[i] = hw[i]) \/ (i = Len(hw) + 1 /\ hw'[i] = d)
      /\ Len(hw') = Len(hw) + 1
  BY <1>1, <1>3, AppendIs
<1>7. Queued(w, b)'
  <2>0. /\ Len(armq) \in Nat /\ Len(hw) \in Nat /\ Len(resp) \in Nat
        /\ Len(armq') = Len(armq) - 1 /\ Len(hw') = Len(hw) + 1
        /\ b + Len(resp) + Len(hw) + Len(armq) = w
    BY <1>3, <1>4, <1>6 DEF Queued
  <2>1. b + Len(resp) + Len(hw') + Len(armq') = w
    BY <2>0
  <2>2. \A i \in DOMAIN hw' : /\ Dist(cur, hw'[i].cmd.addr) = b + Len(resp) + i - 1
                              /\ hw'[i].cmd.handle = hw'[i].cmd.addr
    <3>1. Dist(cur, armq[1].addr) = b + Len(resp) + Len(hw) + 1 - 1 /\ armq[1].handle = armq[1].addr
      BY <1>4 DEF Queued
    <3>2. Dist(cur, d.cmd.addr) = b + Len(resp) + (Len(hw) + 1) - 1 /\ d.cmd.handle = d.cmd.addr
      BY <1>5, <2>0, <3>1
    <3>3. \A i \in DOMAIN hw : /\ Dist(cur, hw[i].cmd.addr) = b + Len(resp) + i - 1
                               /\ hw[i].cmd.handle = hw[i].cmd.addr
      BY DEF Queued
    <3>. QED
      BY <1>6, <3>2, <3>3
  <2>3. \A i \in DOMAIN armq' : /\ Dist(cur, armq'[i].addr) = b + Len(resp) + Len(hw') + i - 1
                                /\ armq'[i].handle = armq'[i].addr
    <3> SUFFICES ASSUME NEW i \in DOMAIN armq'
                 PROVE  /\ Dist(cur, armq'[i].addr) = b + Len(resp) + Len(hw') + i - 1
                        /\ armq'[i].handle = armq'[i].addr
      OBVIOUS
    <3>1. i \in Nat /\ i + 1 \in DOMAIN armq /\ armq'[i] = armq[i + 1]
      BY <1>4
    <3>2. Dist(cur, armq[i + 1].addr) = b + Len(resp) + Len(hw) + (i + 1) - 1
          /\ armq[i + 1].handle = armq[i + 1].addr
      BY <3>1 DEF Queued
    <3>3. b + Len(resp) + Len(hw) + (i + 1) - 1 = b + Len(resp) + Len(hw') + i - 1
      BY <2>0, <3>1
    <3>. QED
      BY <3>1, <3>2, <3>3
  <2>. QED
    BY <1>1, <2>1, <2>2, <2>3, SMTT(30) DEF Queued
<1>. QED
  BY <1>2, <1>7

(* The ARM stores a cell, and with the last one of a segment reports it.      *)
LEMMA ArmStoreRing ==
  ASSUME Orderly, NEW w \in 0 .. N, NEW b \in 0 .. N, Placed(w, b),
         NEW last \in BOOLEAN, ArmStore(last)
  PROVE  Placed(w, b)'
<1>. USE DEF Placed
<1> DEFINE d == Head(hw)
           n == d.filled + 1
           r == Answer("complete", d.cmd, n)
<1>1. /\ UNCHANGED <<next, cur, seg, pc, armq, losses>> /\ hw # <<>>
      /\ \/ hw' = Tail(hw) /\ resp' = Append(resp, r)
         \/ hw' = [hw EXCEPT ![1].filled = n] /\ resp' = resp
  BY DEF ArmStore, chan, caller
<1>2. Ring(w)'
  BY <1>1, RingSame DEF At, Top, After
<1>3. hw \in Seq(Descriptors) /\ resp \in Seq(Responses)
      /\ Len(armq) \in Nat /\ Len(hw) \in Nat /\ Len(resp) \in Nat
  BY QueueElements DEF Orderly, Local, Types, QueueType
<1>4. d = hw[1] /\ 1 \in DOMAIN hw /\ r.kind = "complete" /\ r.handle = d.cmd.handle
      /\ d \in Descriptors
  BY <1>1, SegmentHead DEF Answer, Orderly
<1> HIDE DEF r, d, n
<1>5. CASE hw' = [hw EXCEPT ![1].filled = n] /\ resp' = resp
  <2>1. DOMAIN hw' = DOMAIN hw /\ Len(hw') = Len(hw) /\ \A i \in DOMAIN hw : hw'[i].cmd = hw[i].cmd
    BY <1>3, <1>4, <1>5 DEF Descriptors
  <2>. QED
    BY <1>1, <1>2, <1>5, <2>1 DEF Queued
<1>6. CASE hw' = Tail(hw) /\ resp' = Append(resp, r)
  <2>1. /\ \A i \in DOMAIN hw' : i + 1 \in DOMAIN hw /\ hw'[i] = hw[i + 1] /\ i \in Nat
        /\ Len(hw') = Len(hw) - 1
    BY <1>1, <1>3, <1>6, TailIs
  <2>2. /\ \A i \in DOMAIN resp' : (i \in DOMAIN resp /\ resp'[i] = resp[i])
                                   \/ (i = Len(resp) + 1 /\ resp'[i] = r)
        /\ Len(resp') = Len(resp) + 1
    BY <1>3, <1>6, AppendIs
  <2>0. /\ Len(armq) \in Nat /\ Len(hw) \in Nat /\ Len(resp) \in Nat
        /\ Len(resp') = Len(resp) + 1 /\ Len(hw') = Len(hw) - 1
        /\ b + Len(resp) + Len(hw) + Len(armq) = w
    BY <1>3, <2>1, <2>2 DEF Queued
  <2>3. b + Len(resp') + Len(hw') + Len(armq) = w
    BY <2>0
  <2>4. \A i \in DOMAIN resp' : resp'[i].kind = "complete" /\ Dist(cur, resp'[i].handle) = b + i - 1
    <3>1. Dist(cur, d.cmd.addr) = b + Len(resp) + 1 - 1 /\ d.cmd.handle = d.cmd.addr
      BY <1>4 DEF Queued
    <3>2. r.kind = "complete" /\ Dist(cur, r.handle) = b + (Len(resp) + 1) - 1
      BY <1>4, <2>0, <3>1
    <3>3. \A i \in DOMAIN resp : resp[i].kind = "complete" /\ Dist(cur, resp[i].handle) = b + i - 1
      BY DEF Queued
    <3>. QED
      BY <2>2, <3>2, <3>3
  <2>5. \A i \in DOMAIN hw' : /\ Dist(cur, hw'[i].cmd.addr) = b + Len(resp') + i - 1
                              /\ hw'[i].cmd.handle = hw'[i].cmd.addr
    <3> SUFFICES ASSUME NEW i \in DOMAIN hw'
                 PROVE  /\ Dist(cur, hw'[i].cmd.addr) = b + Len(resp') + i - 1
                        /\ hw'[i].cmd.handle = hw'[i].cmd.addr
      OBVIOUS
    <3>1. i \in Nat /\ i + 1 \in DOMAIN hw /\ hw'[i] = hw[i + 1]
      BY <2>1
    <3>2. Dist(cur, hw[i + 1].cmd.addr) = b + Len(resp) + (i + 1) - 1
          /\ hw[i + 1].cmd.handle = hw[i + 1].cmd.addr
      BY <3>1 DEF Queued
    <3>3. b + Len(resp) + (i + 1) - 1 = b + Len(resp') + i - 1
      BY <2>0, <3>1
    <3>. QED
      BY <3>1, <3>2, <3>3
  <2>6. \A i \in DOMAIN armq : /\ Dist(cur, armq[i].addr) = b + Len(resp') + Len(hw') + i - 1
                               /\ armq[i].handle = armq[i].addr
    <3>1. Len(resp') + Len(hw') = Len(resp) + Len(hw)
      BY <1>3, <2>1, <2>2, SMTT(30)
    <3>. QED
      BY <1>3, <2>1, <2>2, <3>1 DEF Queued
  <2>. QED
    BY <1>1, <1>2, <2>3, <2>4, <2>5, <2>6 DEF Queued
<1>. QED
  BY <1>1, <1>5, <1>6

(* When the channel is enabled there is nothing in the ring, and nothing on   *)
(* its way.                                                                   *)
LEMMA EnableRing ==
  ASSUME Orderly, Calm, Enable
  PROVE  Placed(0, 0)'
<1>1. state # "enabled" /\ stopPc = "no" /\ UNCHANGED <<cur, next, seg, armq, hw, resp>>
      /\ pc' = [pc EXCEPT ![Opener] = "lock"]
  BY DEF Enable, arm
<1>2. armq = <<>> /\ hw = <<>> /\ resp = <<>>
  <2>1. CASE stops = 0
    BY <1>1, <2>1 DEF Orderly, Local, StopOK, Types, ChannelType
  <2>2. CASE stops # 0
    BY <2>2 DEF Calm, Enable
  <2>. QED
    BY <2>1, <2>2
<1>3. cur = next /\ cur \in Segments /\ \A s \in Segments : seg[s].state = "ready"
  BY <1>1 DEF Orderly, Local, StopOK, Types, ChannelType
<1>4. ~At("post")' /\ ~At("advance")'
  BY <1>1, DownIsIdle, AtStep, RxAssumption DEF Holding
<1>5. N \in Nat /\ 0 < N /\ \A s \in Segments : Dist(cur, s) \in 0 .. N - 1 /\ (Dist(cur, s) = 0 <=> s = cur)
  BY <1>3, RxAssumption, Distances
<1>6. Ring(0)'
  <2>1. Top' = cur
    BY <1>1, <1>3, <1>4 DEF Top
  <2>2. 0 < N /\ Dist(cur, Top') = 0
    BY <1>3, <1>5, <2>1
  <2>3. \A s \in Segments : ~(Dist(cur, s) < 0)
    BY <1>5
  <2>. QED
    BY <1>1, <1>3, <1>4, <2>2, <2>3 DEF Ring
<1>7. Queued(0, 0)'
  BY <1>1, <1>2 DEF Queued
<1>. QED
  BY <1>6, <1>7 DEF Placed

LEMMA RingStep ==
  ASSUME Orderly, RingOK, [Next]_vars, Calm'
  PROVE  RingOK'
<1> SUFFICES ASSUME state' = "enabled", rejects' = 0 PROVE \E w, b \in 0 .. N : Placed(w, b)'
  BY DEF RingOK
<1>0. N \in Nat /\ 0 \in 0 .. N /\ rejects \in Nat
  BY RxAssumption DEF Orderly, Local, Types, ControlType
<1>1. CASE Enable
  <2>1. Calm
    BY CalmBefore DEF Orderly
  <2>. QED
    BY <1>0, <1>1, <2>1, EnableRing
<1>2. CASE ~Enable
  <2>1. state = "enabled" /\ rejects = 0
    <3>1. ASSUME NEW h \in Handlers, DataHandler(h) PROVE state' = state /\ rejects' = rejects
      BY <3>1 DEF DataHandler, Enter, Lock, Deliver, Leave, Post, PostFails, Advance, chan, arm
    <3>2. CASE DisableMark \/ DisableStop \/ DisableReset
      BY <3>2 DEF DisableMark, DisableStop, DisableReset, chan, arm
    <3>3. CASE ArmStop \/ LoseAck \/ \E last \in BOOLEAN : ArmStore(last)
      BY <3>3 DEF ArmStop, ArmStore, LoseAck, chan
    <3>4. CASE ArmTake
      BY <1>0, <3>4 DEF ArmTake, chan
    <3>5. CASE UNCHANGED vars
      BY <3>5 DEF vars, chan, arm
    <3>6. CASE DmaRxCompleteHandler \/ DmaRxFullHandler
      BY <3>6 DEF DmaRxCompleteHandler, DmaRxFullHandler, Interrupt, chan
    <3>. QED
      BY <1>2, <3>1, <3>2, <3>3, <3>4, <3>5, <3>6 DEF Next, Disable, Arm
  <2>2. PICK w \in 0 .. N, b \in 0 .. N : Placed(w, b)
    BY <2>1 DEF RingOK
  <2>3. ASSUME NEW h \in Handlers, Enter(h) \/ Lock(h) \/ Leave(h)
        PROVE  Placed(w, b)'
    <3>1. UNCHANGED <<next, cur, seg, armq, hw, resp, losses>>
      BY <2>3 DEF Enter, Lock, Leave, chan, arm
    <3>2. PICK x \in {"lock", "look", "idle"} : pc' = [pc EXCEPT ![h] = x]
      BY <2>3 DEF Enter, Lock, Leave, Unlock
    <3>3. pc[h] \notin {"post", "advance"} /\ pc \in [Handlers -> {"idle", "lock", "look", "post", "advance"}]
      BY <2>3 DEF Enter, Lock, Leave, Idle, Orderly, Local, Types, CallerType
    <3>4. (At("post")' <=> At("post")) /\ (At("advance")' <=> At("advance"))
      BY <3>2, <3>3 DEF At
    <3>5. Top' = Top
      BY <3>1, <3>4 DEF Top, After
    <3>. QED
      BY <2>2, <3>1, <3>4, <3>5, RingSame, QueuesSame DEF Placed
  <2>4. ASSUME NEW h \in Handlers, DataHandler(h) PROVE \E v, a \in 0 .. N : Placed(v, a)'
    <3>1. CASE Enter(h) \/ Lock(h) \/ Leave(h)
      BY <2>2, <2>3, <3>1
    <3>2. CASE Deliver(h) \/ PostFails(h)
      BY <2>2, <3>2, MarkRing
    <3>3. CASE Post(h)
      BY <2>2, <3>3, PostRing
    <3>4. CASE Advance(h)
      BY <2>2, <3>4, AdvanceRing
    <3>. QED
      BY <2>4, <3>1, <3>2, <3>3, <3>4 DEF DataHandler
  <2>5. CASE UNCHANGED vars
    <3>1. UNCHANGED <<next, cur, seg, pc, armq, hw, resp, losses>>
      BY <2>5 DEF vars, chan, caller, arm
    <3>2. Ring(w)' /\ Queued(w, b)'
      BY <2>2, <3>1, RingSame, QueuesSame DEF At, Top, After, Placed
    <3>. QED
      BY <2>2, <3>2 DEF Placed
  <2>6. CASE ArmStop
    <3>1. 1 \in DOMAIN armq /\ armq[1].op = "stop"
      BY <2>6, CommandHead DEF ArmStop, Orderly
    <3>. QED
      BY <2>1, <3>1 DEF Orderly, StopOK
  <2>7. CASE Disable
    <3>1. stopPc = "no"
      BY <2>1 DEF Orderly, StopOK
    <3>. QED
      BY <2>7, <3>1 DEF Disable, DisableMark, DisableStop, DisableReset
  <2>8. CASE DmaRxCompleteHandler
    <3>1. \E v \in 0 .. N : Placed(v, 0)'
      BY <2>1, <2>2, <2>8, CompleteRing
    <3>. QED
      BY <1>0, <3>1
  <2>9. CASE DmaRxFullHandler
    <3>1. 1 \in DOMAIN resp /\ resp[1].kind = "full"
      BY <2>9, ResponseHead DEF DmaRxFullHandler, Interrupt, Orderly
    <3>. QED
      BY <2>2, <3>1 DEF Placed, Queued
  <2>10. CASE ArmTake \/ \E last \in BOOLEAN : ArmStore(last)
    BY <2>2, <2>10, ArmTakeRing, ArmStoreRing
  <2>11. CASE LoseAck
    BY <2>2, <2>11, LoseAckRing
  <2>. QED
    BY <1>2, <2>4, <2>5, <2>6, <2>7, <2>8, <2>9, <2>10, <2>11 DEF Next, Arm
<1>. QED
  BY <1>1, <1>2
-------------------------------------------------------------------------------
Inv == Local /\ (Calm => Orderly /\ RingOK)

LEMMA InitInv == Init => Inv
<1> SUFFICES ASSUME Init PROVE Inv
  OBVIOUS
<1>1. Orderly
  BY InitOrderly
<1>2. RingOK
  BY DEF RingOK, Init
<1>. QED
  BY <1>1, <1>2 DEF Inv, Orderly

LEMMA StepInv == Inv /\ [Next]_vars => Inv'
<1> SUFFICES ASSUME Inv, [Next]_vars PROVE Inv'
  OBVIOUS
<1>1. Local'
  BY LocalStep DEF Inv
<1>2. ASSUME Calm' PROVE Orderly' /\ RingOK'
  <2>1. Orderly /\ RingOK
    BY <1>2, CalmBefore DEF Inv
  <2>. QED
    BY <1>1, <1>2, <2>1, CallersStep, StopStep, RingStep DEF Orderly
<1>. QED
  BY <1>1, <1>2 DEF Inv

LEMMA Invariance == Spec => []Inv
BY InitInv, StepInv, PTL DEF Spec

(* The handles of what is outstanding, one by one.                            *)
LEMMA OutstandingIs ==
  ASSUME Local
  PROVE  /\ Outstanding \in Seq(Segments)
         /\ Len(Outstanding) = Len(resp) + Len(hw) + Len(armq)
         /\ \A k \in 1 .. Len(resp) : Outstanding[k] = resp[k].handle
         /\ \A k \in 1 .. Len(hw) : Outstanding[Len(resp) + k] = hw[k].cmd.handle
         /\ \A k \in 1 .. Len(armq) : Outstanding[Len(resp) + Len(hw) + k] = armq[k].handle
<1>1. /\ DOMAIN resp = 1 .. Len(resp) /\ DOMAIN hw = 1 .. Len(hw) /\ DOMAIN armq = 1 .. Len(armq)
      /\ Len(resp) \in Nat /\ Len(hw) \in Nat /\ Len(armq) \in Nat
      /\ \A i \in DOMAIN armq : armq[i] \in Commands
      /\ \A i \in DOMAIN hw : hw[i] \in Descriptors
      /\ \A i \in DOMAIN resp : resp[i] \in Responses
  BY QueueElements
<1>2. /\ \A i \in DOMAIN armq : armq[i].handle \in Segments
      /\ \A i \in DOMAIN hw : hw[i].cmd.handle \in Segments
      /\ \A i \in DOMAIN resp : resp[i].handle \in Segments
  BY <1>1 DEF Commands, Descriptors, Responses
<1>0. /\ [i \in DOMAIN resp |-> resp[i].handle] \in Seq(Segments)
      /\ [i \in DOMAIN hw |-> hw[i].cmd.handle] \in Seq(Segments)
      /\ [i \in DOMAIN armq |-> armq[i].handle] \in Seq(Segments)
  BY <1>1, <1>2
<1>3. PICK a \in Seq(Segments) : a = [i \in DOMAIN resp |-> resp[i].handle]
  BY <1>0
<1>4. PICK b \in Seq(Segments) : b = [i \in DOMAIN hw |-> hw[i].cmd.handle]
  BY <1>0
<1>5. PICK c \in Seq(Segments) : c = [i \in DOMAIN armq |-> armq[i].handle]
  BY <1>0
<1>6. Outstanding = a \o (b \o c)
  BY <1>3, <1>4, <1>5, Zenon DEF Outstanding
<1>7. Len(a) = Len(resp) /\ \A i \in 1 .. Len(resp) : a[i] = resp[i].handle
  BY <1>1, <1>3
<1>8. Len(b) = Len(hw) /\ \A i \in 1 .. Len(hw) : b[i] = hw[i].cmd.handle
  BY <1>1, <1>4
<1>9. Len(c) = Len(armq) /\ \A i \in 1 .. Len(armq) : c[i] = armq[i].handle
  BY <1>1, <1>5
<1>10. /\ Outstanding \in Seq(Segments) /\ Len(Outstanding) = Len(a) + Len(b) + Len(c)
       /\ \A k \in 1 .. Len(a) : Outstanding[k] = a[k]
       /\ \A k \in 1 .. Len(b) : Outstanding[Len(a) + k] = b[k]
       /\ \A k \in 1 .. Len(c) : Outstanding[Len(a) + Len(b) + k] = c[k]
  <2>1. PICK q : q = Outstanding
    OBVIOUS
  <2>2. q = a \o (b \o c)
    BY <1>6, <2>1
  <2>3. /\ q \in Seq(Segments) /\ Len(q) = Len(a) + Len(b) + Len(c)
        /\ \A k \in 1 .. Len(a) : q[k] = a[k]
        /\ \A k \in 1 .. Len(b) : q[Len(a) + k] = b[k]
        /\ \A k \in 1 .. Len(c) : q[Len(a) + Len(b) + k] = c[k]
    BY <2>2, ThreeConcatIs
  <2>. QED
    BY <2>1, <2>3, Zenon
<1>. QED
  BY <1>7, <1>8, <1>9, <1>10

(* Each of them has its place in the ring.                                    *)
LEMMA OutstandingPlaces ==
  ASSUME Local, NEW w \in 0 .. N, NEW b \in 0 .. N, Placed(w, b)
  PROVE  \A k \in 1 .. Len(Outstanding) : Dist(cur, Outstanding[k]) = b + k - 1
<1> SUFFICES ASSUME NEW k \in 1 .. Len(Outstanding) PROVE Dist(cur, Outstanding[k]) = b + k - 1
  OBVIOUS
<1>1. /\ DOMAIN resp = 1 .. Len(resp) /\ DOMAIN hw = 1 .. Len(hw) /\ DOMAIN armq = 1 .. Len(armq)
      /\ Len(resp) \in Nat /\ Len(hw) \in Nat /\ Len(armq) \in Nat
  BY QueueElements
<1>2. Len(Outstanding) = Len(resp) + Len(hw) + Len(armq)
  BY OutstandingIs
<1>3. CASE k <= Len(resp)
  <2>1. k \in 1 .. Len(resp) /\ k \in DOMAIN resp
    BY <1>1, <1>3
  <2>2. Outstanding[k] = resp[k].handle
    BY <2>1, OutstandingIs
  <2>. QED
    BY <2>1, <2>2 DEF Placed, Queued
<1>4. CASE ~(k <= Len(resp)) /\ k <= Len(resp) + Len(hw)
  <2>0. k - Len(resp) \in 1 .. Len(hw) /\ k = Len(resp) + (k - Len(resp))
    BY <1>1, <1>2, <1>4
  <2>1. PICK i \in 1 .. Len(hw) : k = Len(resp) + i
    BY <2>0
  <2>2. Outstanding[k] = hw[i].cmd.handle
    BY <2>1, OutstandingIs
  <2>3. Dist(cur, hw[i].cmd.handle) = b + Len(resp) + i - 1
    BY <1>1, <2>1 DEF Placed, Queued
  <2>. QED
    BY <1>1, <2>1, <2>2, <2>3
<1>5. CASE ~(k <= Len(resp)) /\ ~(k <= Len(resp) + Len(hw))
  <2>0. k - Len(resp) - Len(hw) \in 1 .. Len(armq)
        /\ k = Len(resp) + Len(hw) + (k - Len(resp) - Len(hw))
    BY <1>1, <1>2, <1>5
  <2>1. PICK i \in 1 .. Len(armq) : k = Len(resp) + Len(hw) + i
    BY <2>0
  <2>2. Outstanding[k] = armq[i].handle
    BY <2>1, OutstandingIs
  <2>3. Dist(cur, armq[i].handle) = b + Len(resp) + Len(hw) + i - 1
    BY <1>1, <2>1 DEF Placed, Queued
  <2>. QED
    BY <1>1, <2>1, <2>2, <2>3
<1>. QED
  BY <1>3, <1>4, <1>5

(* While the channel runs, the ARM has exactly the window of the ring, each   *)
(* segment of it once, and reports its segments one after the other from      *)
(* CurrentSegment on: for every size of the ring and however reports, refused *)
(* commands and stops interleave with the handlers.                           *)
THEOREM RxRingIsSound == Spec => [](Calm => RingSound)
<1>1. ASSUME Orderly, NEW w \in 0 .. N, NEW b \in 0 .. N, Placed(w, b)
      PROVE  /\ \A p \in InFlight : seg[CommandOf(p).addr].state = "arm"
             /\ \A p, q \in InFlight : p # q => CommandOf(p).addr # CommandOf(q).addr
  <2> DEFINE place(p) == IF p[1] = "hw" THEN b + Len(resp) + p[2] - 1
                         ELSE b + Len(resp) + Len(hw) + p[2] - 1
  <2>1. /\ DOMAIN hw = 1 .. Len(hw) /\ DOMAIN armq = 1 .. Len(armq)
        /\ Len(resp) \in Nat /\ Len(hw) \in Nat /\ Len(armq) \in Nat
        /\ b + Len(resp) + Len(hw) + Len(armq) = w
    BY <1>1, QueueElements DEF Orderly, Placed, Queued
  <2>2. ASSUME NEW p \in InFlight
        PROVE  /\ Dist(cur, CommandOf(p).addr) = place(p) /\ place(p) < w
               /\ CommandOf(p).addr \in Segments
    <3>1. PICK i : (i \in DOMAIN hw /\ p = <<"hw", i>>) \/ (i \in DOMAIN armq /\ p = <<"armq", i>>)
      BY DEF InFlight
    <3>2. CASE i \in DOMAIN hw /\ p = <<"hw", i>>
      <4>1. CommandOf(p) = hw[i].cmd /\ place(p) = b + Len(resp) + i - 1
        BY <3>2 DEF CommandOf
      <4>2. Dist(cur, hw[i].cmd.addr) = b + Len(resp) + i - 1 /\ hw[i].cmd.addr \in Segments
        BY <1>1, <3>2, QueueElements DEF Orderly, Placed, Queued
      <4>3. b + Len(resp) + i - 1 < w
        BY <2>1, <3>2
      <4>. QED
        BY <4>1, <4>2, <4>3
    <3>3. CASE i \in DOMAIN armq /\ p = <<"armq", i>>
      <4>1. CommandOf(p) = armq[i] /\ place(p) = b + Len(resp) + Len(hw) + i - 1
        BY <3>3 DEF CommandOf
      <4>2. Dist(cur, armq[i].addr) = b + Len(resp) + Len(hw) + i - 1 /\ armq[i].addr \in Segments
        BY <1>1, <3>3, QueueElements DEF Orderly, Placed, Queued
      <4>3. b + Len(resp) + Len(hw) + i - 1 < w
        BY <2>1, <3>3
      <4>. QED
        BY <4>1, <4>2, <4>3
    <3>. QED
      BY <3>1, <3>2, <3>3
  <2>3. \A p, q \in InFlight : place(p) = place(q) => p = q
    <3> SUFFICES ASSUME NEW p \in InFlight, NEW q \in InFlight, place(p) = place(q) PROVE p = q
      OBVIOUS
    <3>1. PICK i : (i \in DOMAIN hw /\ p = <<"hw", i>>) \/ (i \in DOMAIN armq /\ p = <<"armq", i>>)
      BY DEF InFlight
    <3>2. PICK j : (j \in DOMAIN hw /\ q = <<"hw", j>>) \/ (j \in DOMAIN armq /\ q = <<"armq", j>>)
      BY DEF InFlight
    <3>3. i \in Nat /\ j \in Nat /\ i >= 1 /\ j >= 1
          /\ (p[1] = "hw" => i <= Len(hw)) /\ (q[1] = "hw" => j <= Len(hw))
          /\ p[2] = i /\ q[2] = j
      BY <2>1, <3>1, <3>2
    <3>4. i = j /\ (p[1] = "hw" <=> q[1] = "hw")
      BY <2>1, <3>3, SMTT(30)
    <3>. QED
      BY <3>1, <3>2, <3>4
  <2>4. \A s \in Segments : Dist(cur, s) < w => seg[s].state = "arm"
    BY <1>1 DEF Placed, Ring
  <2> HIDE DEF place
  <2>. QED
    BY <2>2, <2>3, <2>4
<1>2. ASSUME Orderly, NEW w \in 0 .. N, NEW b \in 0 .. N, Placed(w, b)
      PROVE  /\ \A i \in 1 .. Len(Outstanding) - 1 : Outstanding[i + 1] = After(Outstanding[i])
             /\ Outstanding # <<>> /\ losses = 0 => Outstanding[1] = cur
  <2>1. /\ Outstanding \in Seq(Segments) /\ Len(Outstanding) = Len(resp) + Len(hw) + Len(armq)
        /\ \A k \in 1 .. Len(Outstanding) : Dist(cur, Outstanding[k]) = b + k - 1
    BY <1>2, OutstandingIs, OutstandingPlaces DEF Orderly
  <2>2. /\ Len(resp) \in Nat /\ Len(hw) \in Nat /\ Len(armq) \in Nat
        /\ b + Len(resp) + Len(hw) + Len(armq) = w /\ (losses = 0 => b = 0)
    BY <1>2, QueueElements DEF Orderly, Placed, Queued
  <2>3. cur \in Segments /\ N \in Nat /\ N > 1 /\ \A s \in Segments : After(s) \in Segments
    BY SettingType, <1>2 DEF Orderly, Local, Types, ControlType, ChannelType
  <2>4. ASSUME NEW i \in 1 .. Len(Outstanding) - 1 PROVE Outstanding[i + 1] = After(Outstanding[i])
    <3>1. PICK s \in Segments, t \in Segments : s = Outstanding[i] /\ t = Outstanding[i + 1]
      BY <2>1
    <3>2. i \in 1 .. Len(Outstanding) /\ i + 1 \in 1 .. Len(Outstanding) /\ b + (i + 1) - 1 < N
      BY <2>1, <2>2, <2>3
    <3>3. Dist(cur, s) = b + i - 1 /\ Dist(cur, t) = b + (i + 1) - 1
      BY <2>1, <3>1, <3>2
    <3>4. Dist(cur, After(s)) = (IF Dist(cur, s) + 1 < N THEN Dist(cur, s) + 1 ELSE 0)
      BY <2>3, Distances
    <3>5. Dist(cur, After(s)) = Dist(cur, t)
      BY <3>2, <3>3, <3>4
    <3>6. After(s) \in Segments
      BY <2>3
    <3>7. After(s) = t
      BY <2>3, <3>5, <3>6, Distances
    <3>. QED
      BY <3>1, <3>7
  <2>5. ASSUME Outstanding # <<>>, losses = 0 PROVE Outstanding[1] = cur
    <3>1. 1 \in 1 .. Len(Outstanding) /\ Outstanding[1] \in Segments
      BY <2>1, <2>5
    <3>2. Dist(cur, Outstanding[1]) = 0
      BY <2>1, <2>2, <2>5, <3>1
    <3>. QED
      BY <2>3, <3>1, <3>2, Distances
  <2>. QED
    BY <2>4, <2>5
<1>3. Inv => (Calm => RingSound)
  <2> SUFFICES ASSUME Inv, Calm, state = "enabled", rejects = 0
               PROVE  RingSound
    BY DEF RingSound, ArmOwnsSegments, RingOrder
  <2>1. Orderly /\ RingOK
    BY DEF Inv
  <2>2. PICK w \in 0 .. N, b \in 0 .. N : Placed(w, b)
    BY <2>1 DEF RingOK
  <2>. QED
    BY <1>1, <1>2, <2>1, <2>2 DEF RingSound, ArmOwnsSegments, RingOrder
<1>. QED
  BY <1>3, Invariance, PTL
-------------------------------------------------------------------------------
(* The cells.  While no command was refused and the link never went down,     *)
(* what is counted in a segment, in a report or in a segment that is being    *)
(* filled was stored there.                                                   *)
Held(m, t, s, k) == \A j \in 1 .. k : m[s][j] \in 1 .. t
Stored(s, k) == Held(mem, taken, s, k)
CellsStored ==
  /\ \A s \in Segments : seg[s].state = "ready" => Stored(s, seg[s].count)
  /\ \A i \in DOMAIN resp : resp[i].kind = "complete" => Stored(resp[i].handle, resp[i].count)
  /\ \A i \in DOMAIN hw : /\ Stored(hw[i].cmd.addr, hw[i].filled)
                          /\ hw[i].cmd.handle = hw[i].cmd.addr
  /\ \A i \in DOMAIN armq : armq[i].handle = armq[i].addr
  /\ \A i \in DOMAIN out : out[i] \in 1 .. taken
StoredOK == fails = 0 /\ stops = 0 => CellsStored

LEMMA StoredSame ==
  ASSUME CellsStored, UNCHANGED <<seg, resp, hw, armq, out, mem, taken>>
  PROVE  CellsStored'
BY DEF CellsStored, Stored

(* A segment the ARM has handed over, or that was rejected or given up, keeps *)
(* to what was stored.                                                        *)
LEMMA ResponseStored ==
  ASSUME Local, CellsStored, DmaRxCompleteHandler \/ DmaRxFullHandler
  PROVE  CellsStored'
<1>1. /\ resp # <<>> /\ resp' = Tail(resp) /\ UNCHANGED <<hw, armq, out, mem, taken>>
      /\ resp \in Seq(Responses)
  BY DEF DmaRxCompleteHandler, DmaRxFullHandler, Interrupt, Local, Types, QueueType
<1>2. \A i \in DOMAIN resp' : i + 1 \in DOMAIN resp /\ resp'[i] = resp[i + 1]
  BY <1>1, TailIs
<1>3. \A s \in Segments : seg'[s].state = "ready" => Stored(s, seg'[s].count)
  <2>1. CASE state # "enabled"
    BY <1>1, <2>1 DEF DmaRxCompleteHandler, DmaRxFullHandler, CellsStored, chan
  <2>2. CASE state = "enabled" /\ DmaRxCompleteHandler
    <3>1. /\ Head(resp).kind = "complete"
          /\ \A s \in Segments :
               seg'[s] = IF s = Head(resp).handle THEN [state |-> "ready", count |-> Head(resp).count]
                         ELSE IF Dist(cur, s) < Dist(cur, Head(resp).handle)
                              THEN [state |-> "ready", count |-> 0] ELSE seg[s]
      BY <2>2, CompleteStep
    <3>2. 1 \in DOMAIN resp /\ Head(resp) = resp[1]
      BY <1>1, TailIs
    <3>3. Stored(Head(resp).handle, Head(resp).count)
      BY <3>1, <3>2 DEF CellsStored
    <3>4. \A s : Stored(s, 0)
      BY DEF Stored, Held
    <3> DEFINE r == Head(resp)
    <3> HIDE DEF r
    <3>5. \A s \in Segments : \/ s = r.handle /\ seg'[s].count = r.count
                              \/ seg'[s].count = 0 \/ seg'[s] = seg[s]
      BY <3>1 DEF r
    <3>. QED
      BY <3>3, <3>4, <3>5 DEF CellsStored, r
  <2>3. CASE state = "enabled" /\ DmaRxFullHandler
    <3>1. seg' = [seg EXCEPT ![Head(resp).handle] = [state |-> "ready", count |-> 0]]
          /\ seg \in [Segments -> SegRecords]
      BY <2>3 DEF DmaRxFullHandler, Local, Types, ChannelType
    <3>2. \A s \in Segments : seg'[s].count = 0 \/ seg'[s] = seg[s]
      BY <3>1
    <3>3. \A s : Stored(s, 0)
      BY DEF Stored, Held
    <3>. QED
      BY <3>2, <3>3 DEF CellsStored
  <2>. QED
    BY <2>1, <2>2, <2>3
<1>. QED
  BY <1>1, <1>2, <1>3 DEF CellsStored, Stored

(* A cell is stored without harm to those stored before.                      *)
LEMMA ArmStored ==
  ASSUME Local, CellsStored, NEW last \in BOOLEAN, ArmStore(last)
  PROVE  CellsStored'
<1>0. PICK d, n, a, r : /\ d = Head(hw) /\ n = d.filled + 1 /\ a = d.cmd.addr
                        /\ r = Answer("complete", d.cmd, n)
  OBVIOUS
<1>1. /\ hw # <<>> /\ taken' = taken + 1 /\ UNCHANGED <<seg, armq, out>>
      /\ mem' = [mem EXCEPT ![a][n] = taken + 1]
      /\ \/ hw' = Tail(hw) /\ resp' = Append(resp, r)
         \/ hw' = [hw EXCEPT ![1].filled = n] /\ resp' = resp
  BY <1>0 DEF ArmStore, chan
<1>2. /\ d = hw[1] /\ 1 \in DOMAIN hw /\ a \in Segments /\ n \in 1 .. Max /\ d.filled \in Nat
      /\ d.cmd \in Commands /\ d \in Descriptors
  BY <1>0, <1>1, SegmentHead
<1>3. /\ mem \in [Segments -> [1 .. Max -> 0 .. Cells]] /\ taken \in Nat /\ Max \in Nat
  <2>1. Max \in 1 .. 255
    BY SettingType DEF Local, Types, ControlType
  <2>. QED
    BY <2>1, RxAssumption DEF Local, Types, DataType
<1>15. hw \in Seq(Descriptors) /\ resp \in Seq(Responses)
  BY DEF Local, Types, QueueType
<1>4. r.kind = "complete" /\ r.handle = d.cmd.handle /\ r.count = n
  BY <1>0 DEF Answer
<1>5. d.cmd.handle = a /\ Held(mem, taken, a, d.filled)
  BY <1>0, <1>2 DEF CellsStored, Stored
<1>6. \A s \in Segments, j \in 1 .. Max : mem'[s][j] = IF s = a /\ j = n THEN taken + 1 ELSE mem[s][j]
  BY <1>1, <1>2, <1>3
<1>7. \A s \in Segments, k \in 0 .. Max : Held(mem, taken, s, k) => Held(mem', taken', s, k)
  <2> SUFFICES ASSUME NEW s \in Segments, NEW k \in 0 .. Max, Held(mem, taken, s, k), NEW j \in 1 .. k
               PROVE  mem'[s][j] \in 1 .. taken'
    BY DEF Held
  <2>1. j \in 1 .. Max /\ mem[s][j] \in 1 .. taken
    BY <1>3 DEF Held
  <2>. QED
    BY <1>1, <1>3, <1>6, <2>1
<1>8. Held(mem', taken', a, n)
  <2> SUFFICES ASSUME NEW j \in 1 .. n PROVE mem'[a][j] \in 1 .. taken'
    BY DEF Held
  <2>1. j \in 1 .. Max /\ (j = n \/ j \in 1 .. d.filled)
    BY <1>0, <1>2, <1>3
  <2>2. CASE j = n
    BY <1>1, <1>2, <1>3, <1>6, <2>1, <2>2
  <2>3. CASE j # n
    <3>1. mem[a][j] \in 1 .. taken
      BY <1>5, <2>1, <2>3 DEF Held
    <3>. QED
      BY <1>1, <1>2, <1>3, <1>6, <2>1, <2>3, <3>1
  <2>. QED
    BY <2>2, <2>3
<1>9. \A s \in Segments : seg[s].state = "ready" => Held(mem', taken', s, seg[s].count)
  BY <1>7, SegmentCells DEF CellsStored, Stored
<1>10. \A i \in DOMAIN out : out[i] \in 1 .. taken'
  BY <1>1, <1>3 DEF CellsStored
<1>11. \A i \in DOMAIN resp : resp[i].kind = "complete" => Held(mem', taken', resp[i].handle, resp[i].count)
  BY <1>7, QueueElements DEF CellsStored, Stored
<1>12. \A i \in DOMAIN hw : /\ Held(mem', taken', hw[i].cmd.addr, hw[i].filled)
                            /\ hw[i].cmd.handle = hw[i].cmd.addr
  <2>1. \A i \in DOMAIN hw : hw[i].cmd.addr \in Segments /\ hw[i].filled \in 0 .. Max
    BY QueueElements DEF Descriptors
  <2>. QED
    BY <1>7, <2>1 DEF CellsStored, Stored
<1>16. \A i \in DOMAIN armq : armq[i].handle = armq[i].addr
  BY DEF CellsStored
<1>17. ASSUME /\ \A i \in DOMAIN hw' : hw'[i].cmd.handle = hw'[i].cmd.addr
                              /\ Held(mem', taken', hw'[i].cmd.addr, hw'[i].filled),
              \A i \in DOMAIN resp' : resp'[i].kind = "complete" =>
                Held(mem', taken', resp'[i].handle, resp'[i].count)
       PROVE  CellsStored'
  <2>1. \A s \in Segments : seg'[s].state = "ready" => Held(mem', taken', s, seg'[s].count)
    BY <1>1, <1>9
  <2>2. (\A i \in DOMAIN out' : out'[i] \in 1 .. taken')
        /\ \A i \in DOMAIN armq' : armq'[i].handle = armq'[i].addr
    BY <1>1, <1>10, <1>16
  <2>. QED
    BY <1>17, <2>1, <2>2 DEF CellsStored, Stored
<1>13. CASE hw' = [hw EXCEPT ![1].filled = n] /\ resp' = resp
  <2>1. DOMAIN hw' = DOMAIN hw /\ \A i \in DOMAIN hw : hw'[i].cmd = hw[i].cmd
          /\ (i = 1 => hw'[i].filled = n) /\ (i # 1 => hw'[i] = hw[i])
    BY <1>2, <1>15, <1>13 DEF Descriptors
  <2>2. \A i \in DOMAIN hw' : Held(mem', taken', hw'[i].cmd.addr, hw'[i].filled)
    <3>1. \A i \in DOMAIN hw : i = 1 => hw'[i].cmd.addr = a
      BY <1>0, <1>2, <2>1
    <3>. QED
      BY <1>8, <1>12, <2>1, <3>1
  <2>3. \A i \in DOMAIN hw' : hw'[i].cmd.handle = hw'[i].cmd.addr
    BY <1>12, <2>1
  <2>4. \A i \in DOMAIN resp' : resp'[i].kind = "complete" =>
          Held(mem', taken', resp'[i].handle, resp'[i].count)
    BY <1>11, <1>13
  <2>. QED
    BY <1>17, <2>2, <2>3, <2>4
<1>14. CASE hw' = Tail(hw) /\ resp' = Append(resp, r)
  <2>1. \A i \in DOMAIN hw' : i + 1 \in DOMAIN hw /\ hw'[i] = hw[i + 1]
    BY <1>1, <1>15, <1>14, TailIs
  <2>2. \A i \in DOMAIN resp' : (i \in DOMAIN resp /\ resp'[i] = resp[i]) \/ resp'[i] = r
    BY <1>15, <1>14, AppendIs
  <2>3. \A i \in DOMAIN resp' : resp'[i].kind = "complete" =>
          Held(mem', taken', resp'[i].handle, resp'[i].count)
    BY <1>4, <1>5, <1>8, <1>11, <2>2
  <2>4. \A i \in DOMAIN hw' : hw'[i].cmd.handle = hw'[i].cmd.addr
                              /\ Held(mem', taken', hw'[i].cmd.addr, hw'[i].filled)
    BY <1>12, <2>1
  <2>. QED
    BY <1>17, <2>3, <2>4
<1>. QED
  BY <1>1, <1>13, <1>14

(* Passing a segment up: what goes up was stored.                             *)
LEMMA DeliverStored ==
  ASSUME Local, CellsStored, NEW h \in Handlers, Deliver(h)
  PROVE  CellsStored'
<1>1. PICK s, c, u : s \in Segments /\ s = ix[h] /\ c = seg[s].count /\ u = SubSeq(mem[s], 1, c)
  BY DEF Local, Types, CallerType
<1>2. /\ seg[s].state = "ready" /\ out' = out \o u
      /\ seg' = [seg EXCEPT ![s] = [state |-> "arm", count |-> Max]]
      /\ UNCHANGED <<mem, resp, hw, armq, taken>>
  BY <1>1 DEF Deliver, arm
<1>3. seg \in [Segments -> SegRecords] /\ out \in Seq(0 .. Cells)
  BY DEF Local, Types, ChannelType, DataType
<1>4. u \in Seq(0 .. Cells) /\ u = [j \in 1 .. c |-> mem[s][j]] /\ c \in 0 .. Max
  BY <1>1, SegmentCells
<1>5. \A j \in 1 .. c : u[j] \in 1 .. taken
  BY <1>1, <1>2, <1>4 DEF CellsStored, Stored, Held
<1>6. \A i \in DOMAIN out' : out'[i] \in 1 .. taken
  <2>0. c \in Nat
    BY <1>4, SettingType DEF Local, Types, ControlType
  <2>1. Len(u) = c /\ Len(out) \in Nat /\ DOMAIN out = 1 .. Len(out)
    BY <1>3, <1>4, <2>0
  <2>2. /\ out' \in Seq(0 .. Cells) /\ Len(out') = Len(out) + c
        /\ \A k \in 1 .. Len(out) : out'[k] = out[k]
        /\ \A k \in 1 .. c : out'[Len(out) + k] = u[k]
    BY <1>2, <1>3, <1>4, <2>1, ConcatIs
  <2> SUFFICES ASSUME NEW i \in 1 .. Len(out) + c PROVE out'[i] \in 1 .. taken
    BY <2>2
  <2>3. CASE i <= Len(out)
    <3>1. i \in 1 .. Len(out)
      BY <2>0, <2>1, <2>3
    <3>. QED
      BY <2>1, <2>2, <3>1 DEF CellsStored
  <2>4. CASE i > Len(out)
    <3>1. i - Len(out) \in 1 .. c /\ Len(out) + (i - Len(out)) = i
      BY <2>0, <2>1, <2>4
    <3>. QED
      BY <2>2, <3>1, <1>5
  <2>. QED
    BY <2>0, <2>1, <2>3, <2>4
<1>7. \A r \in Segments : seg'[r].state = "ready" => seg'[r] = seg[r] /\ seg[r].state = "ready"
  BY <1>2, <1>3
<1>. QED
  BY <1>2, <1>6, <1>7 DEF CellsStored, Stored

LEMMA StoredStep ==
  ASSUME Inv, StoredOK, [Next]_vars
  PROVE  StoredOK'
<1> SUFFICES ASSUME fails' = 0, stops' = 0 PROVE CellsStored'
  BY DEF StoredOK
<1>0. Local /\ fails \in Nat /\ stops \in Nat
  BY DEF Inv, Local, Types, ControlType
<1>1. CASE UNCHANGED <<fails, stops>>
  <2>1. Orderly /\ CellsStored /\ state # "disabled" /\ stopPc = "no"
    BY <1>1 DEF Inv, Calm, StoredOK, Orderly, StopOK, Local, Types, ControlType
  <2>2. CASE UNCHANGED <<seg, resp, hw, armq, out, mem, taken>>
    BY <2>1, <2>2, StoredSame
  <2>3. ASSUME NEW h \in Handlers, Enter(h) \/ Lock(h) \/ Leave(h) \/ Advance(h)
        PROVE  CellsStored'
    BY <2>2, <2>3 DEF Enter, Lock, Leave, Advance, arm, chan
  <2>4. ASSUME NEW h \in Handlers, Deliver(h) PROVE CellsStored'
    BY <1>0, <2>1, <2>4, DeliverStored
  <2>5. ASSUME NEW h \in Handlers, Post(h) PROVE CellsStored'
    <3>1. PICK c \in Commands : c = [StartCmd(ix[h]) EXCEPT !.handle = next] /\ c.addr = ix[h] /\ c.handle = next
      BY <1>0, <2>5, PostedCommand
    <3>2. pc[h] \in Holding /\ armq' = Append(armq, c) /\ UNCHANGED <<seg, mem, hw, resp, out, taken>>
      BY <2>5, <3>1 DEF Post, Holding, chan
    <3>3. c.handle = c.addr
      BY <2>1, <3>1, <3>2, Holder
    <3>4. \A i \in DOMAIN armq' : (i \in DOMAIN armq /\ armq'[i] = armq[i]) \/ armq'[i] = c
      BY <1>0, <3>2, AppendIs DEF Local, Types, QueueType
    <3>5. \A i \in DOMAIN armq' : armq'[i].handle = armq'[i].addr
      BY <2>1, <3>3, <3>4 DEF CellsStored
    <3>. QED
      BY <2>1, <3>2, <3>5 DEF CellsStored, Stored
  <2>6. CASE LoseAck
    <3>1. resp # <<>> /\ resp' = Tail(resp) /\ UNCHANGED <<seg, mem, hw, armq, out, taken>>
      BY <2>6 DEF LoseAck, chan
    <3>2. \A i \in DOMAIN resp' : i + 1 \in DOMAIN resp /\ resp'[i] = resp[i + 1]
      BY <1>0, <3>1, TailIs DEF Local, Types, QueueType
    <3>. QED
      BY <2>1, <3>1, <3>2 DEF CellsStored, Stored
  <2>7. CASE ArmTake
    <3>1. PICK c, d, r : c = Head(armq) /\ d = [cmd |-> c, filled |-> 0] /\ r = Answer("full", c, c.count)
      OBVIOUS
    <3>2. /\ armq # <<>> /\ armq' = Tail(armq) /\ UNCHANGED <<seg, mem, out, taken>>
          /\ \/ hw' = Append(hw, d) /\ resp' = resp
             \/ resp' = Append(resp, r) /\ hw' = hw
      BY <2>7, <3>1 DEF ArmTake, chan
    <3>3. armq \in Seq(Commands) /\ hw \in Seq(Descriptors) /\ resp \in Seq(Responses)
      BY <1>0 DEF Local, Types, QueueType
    <3>4. (\A i \in DOMAIN armq' : i + 1 \in DOMAIN armq /\ armq'[i] = armq[i + 1])
          /\ c = armq[1] /\ 1 \in DOMAIN armq
      BY <3>1, <3>2, <3>3, TailIs
    <3>5. \A i \in DOMAIN hw' : (i \in DOMAIN hw /\ hw'[i] = hw[i]) \/ hw'[i] = d
      BY <3>2, <3>3, AppendIs
    <3>6. \A i \in DOMAIN resp' : (i \in DOMAIN resp /\ resp'[i] = resp[i]) \/ resp'[i] = r
      BY <3>2, <3>3, AppendIs
    <3>7. d.cmd.handle = d.cmd.addr /\ Held(mem, taken, d.cmd.addr, d.filled)
      BY <2>1, <3>1, <3>4 DEF CellsStored, Held
    <3>8. r.kind # "complete"
      BY <3>1 DEF Answer
    <3>9. /\ \A i \in DOMAIN hw' : /\ Held(mem, taken, hw'[i].cmd.addr, hw'[i].filled)
                                   /\ hw'[i].cmd.handle = hw'[i].cmd.addr
          /\ \A i \in DOMAIN resp' : resp'[i].kind = "complete" =>
                Held(mem, taken, resp'[i].handle, resp'[i].count)
          /\ \A i \in DOMAIN armq' : armq'[i].handle = armq'[i].addr
      BY <2>1, <3>4, <3>5, <3>6, <3>7, <3>8 DEF CellsStored, Stored
    <3>. QED
      BY <2>1, <3>2, <3>9 DEF CellsStored, Stored
  <2>8. CASE ArmStop
    <3>1. armq # <<>> /\ Head(armq).op = "stop"
      BY <2>8 DEF ArmStop
    <3>2. Head(armq) = armq[1] /\ 1 \in DOMAIN armq
      BY <1>0, <3>1, CommandHead
    <3>. QED
      BY <2>1, <3>1, <3>2 DEF Orderly, StopOK, Local, Types, ChannelType
  <2>9. ASSUME NEW last \in BOOLEAN, ArmStore(last) PROVE CellsStored'
    BY <1>0, <2>1, <2>9, ArmStored
  <2>10. CASE DmaRxCompleteHandler \/ DmaRxFullHandler
    BY <1>0, <2>1, <2>10, ResponseStored
  <2>11. CASE DisableStop \/ DisableReset
    BY <2>1, <2>11 DEF DisableStop, DisableReset
  <2>12. CASE DisableMark
    BY <1>0, <1>1, <2>12 DEF DisableMark
  <2>13. ASSUME NEW h \in Handlers, PostFails(h) PROVE CellsStored'
    BY <1>0, <1>1, <2>13 DEF PostFails
  <2>14. CASE Enable \/ UNCHANGED vars
    BY <2>2, <2>14 DEF Enable, vars, arm, chan
  <2>. QED
    BY <2>3, <2>4, <2>5, <2>6, <2>7, <2>8, <2>9, <2>10, <2>11, <2>12, <2>13, <2>14
    DEF Next, DataHandler, Disable, Arm
<1>2. fails' \in {fails, fails + 1} /\ stops' \in {stops, stops + 1}
  <2>1. ASSUME NEW h \in Handlers, DataHandler(h) PROVE fails' \in {fails, fails + 1} /\ stops' = stops
    BY <2>1 DEF DataHandler, Enter, Lock, Deliver, Leave, Post, PostFails, Advance
  <2>2. CASE Arm
    BY <2>2 DEF Arm, ArmTake, ArmStop, ArmStore, LoseAck
  <2>3. CASE Disable
    BY <2>3 DEF Disable, DisableMark, DisableStop, DisableReset
  <2>. QED
    BY <2>1, <2>2, <2>3 DEF Next, vars, Enable, DmaRxCompleteHandler, DmaRxFullHandler, Interrupt
<1>. QED
  BY <1>0, <1>1, <1>2
-------------------------------------------------------------------------------
(* Which cells those are, while nothing was rejected either.  A batch of k    *)
(* cells is in segment s: consecutive ones, newer than those that went up,    *)
(* and among the t the ARM has handed over.                                   *)
Batch(m, o, t, s, k) ==
  /\ k > 0 /\ m[s][1] + k <= t + 1
  /\ \A j \in 1 .. k : m[s][j] = m[s][1] + j - 1
  /\ \A i \in DOMAIN o : o[i] < m[s][1]
Before(m, s, k, r) == m[s][1] + k <= m[r][1]
Within(m, c, s, k) == m[s][1] <= c /\ c < m[s][1] + k

(* A segment the host has still to pass up holds a batch, one that is         *)
(* reported does, and the ARM goes on from the last one.                      *)
Fresh(s)   == seg[s].state = "ready" /\ seg[s].count > 0
FreshOK    == \A s \in Segments : Fresh(s) => Batch(mem, out, HandedOver, s, seg[s].count)
ReportsOK  == \A i \in DOMAIN resp :
                Batch(mem, out, HandedOver, resp[i].handle, resp[i].count)
FillingOK  == hw # <<>> => \A j \in 1 .. hw[1].filled : mem[hw[1].cmd.addr][j] = HandedOver + j

(* The batches follow each other around the ring,                             *)
FreshOrder == \A s, r \in Segments :
  Fresh(s) /\ Fresh(r) /\ Dist(cur, s) < Dist(cur, r) => Before(mem, s, seg[s].count, r)
FreshFirst == \A s \in Segments, i \in DOMAIN resp :
  Fresh(s) => Before(mem, s, seg[s].count, resp[i].handle)
ReportOrder == \A i, j \in DOMAIN resp :
  i < j => Before(mem, resp[i].handle, resp[i].count, resp[j].handle)

(* what went up is in order, and nothing is missing unless a report is.       *)
Passed   == /\ HandedOver \in Nat /\ \A i \in DOMAIN out : out[i] <= HandedOver
            /\ \A i, j \in DOMAIN out : i < j => out[i] < out[j]
There(c) == \/ \E s \in Segments : Fresh(s) /\ Within(mem, c, s, seg[s].count)
            \/ \E i \in DOMAIN resp : Within(mem, c, resp[i].handle, resp[i].count)
AllThere == losses = 0 => /\ \A i \in DOMAIN out : out[i] = i
                          /\ \A c \in Len(out) + 1 .. HandedOver : There(c)

Batches == /\ FreshOK /\ ReportsOK /\ FillingOK
           /\ FreshOrder /\ FreshFirst /\ ReportOrder
           /\ Passed /\ AllThere
BatchesOK == fails = 0 /\ stops = 0 /\ rejects = 0 => Batches

(* Steps that touch no cell and no report.                                    *)
LEMMA BatchesSame ==
  ASSUME Batches, UNCHANGED <<seg, mem, out, resp, cur, losses, HandedOver>>, FillingOK'
  PROVE  Batches'
<1>1. \A s : Fresh(s)' <=> Fresh(s)
  BY DEF Fresh
<1>2. FreshOK' /\ ReportsOK'
  BY <1>1 DEF Batches, FreshOK, ReportsOK
<1>3. FreshOrder' /\ FreshFirst' /\ ReportOrder'
  BY <1>1 DEF Batches, FreshOrder, FreshFirst, ReportOrder
<1>4. Passed'
  BY DEF Batches, Passed
<1>5. AllThere'
  <2>1. \A c : There(c) => There(c)'
    BY <1>1 DEF There
  <2>. QED
    BY <2>1 DEF Batches, AllThere
<1>. QED
  BY <1>2, <1>3, <1>4, <1>5 DEF Batches

(* What a segment's memory and the counts are.                                *)
LEMMA CellNumbers ==
  ASSUME Local
  PROVE  /\ \A s \in Segments, j \in 1 .. Max : mem[s][j] \in Int
         /\ \A s \in Segments : mem[s][1] \in Int /\ seg[s].count \in Nat /\ seg[s].count <= Max
         /\ \A i \in DOMAIN resp : resp[i].handle \in Segments /\ resp[i].count \in Nat /\ resp[i].count <= Max
         /\ \A i \in DOMAIN out : out[i] \in Int /\ i \in Nat
         /\ taken \in Nat /\ HandedOver \in Int /\ Max \in Nat /\ Len(out) \in Nat
<1>1. Max \in 1 .. 255
  BY SettingType DEF Local, Types, ControlType
<1>2. /\ mem \in [Segments -> [1 .. Max -> 0 .. Cells]] /\ seg \in [Segments -> SegRecords]
      /\ taken \in 0 .. Cells /\ out \in Seq(0 .. Cells)
  BY DEF Local, Types, DataType, ChannelType
<1>3. \A s \in Segments : seg[s].count \in 0 .. Max
  BY <1>2 DEF SegRecords
<1>4. HandedOver \in Int
  <2>1. CASE hw = <<>>
    BY <1>2, <2>1 DEF HandedOver
  <2>2. CASE hw # <<>>
    <3>1. Head(hw).filled \in Nat
      BY <2>2, SegmentHead
    <3>. QED
      BY <1>2, <2>2, <3>1 DEF HandedOver
  <2>. QED
    BY <2>1, <2>2
<1>5. \A s \in Segments, j \in 1 .. Max : mem[s][j] \in 0 .. Cells
  BY <1>2
<1>6. \A i \in DOMAIN out : out[i] \in 0 .. Cells /\ i \in Nat
  <2>1. PICK S : S = 0 .. Cells
    OBVIOUS
  <2>2. out \in Seq(S) /\ \A i \in DOMAIN out : out[i] \in S /\ i \in Nat
    <3>1. out \in Seq(S)
      BY <1>2, <2>1
    <3>. QED
      BY <3>1
  <2>. QED
    BY <2>1, <2>2
<1>7. Len(out) \in Nat
  BY <1>2
<1>8. \A i \in DOMAIN resp : resp[i].handle \in Segments /\ resp[i].count \in 0 .. Max
  BY QueueElements
<1>. QED
  BY <1>1, <1>2, <1>3, <1>4, <1>5, <1>6, <1>7, <1>8, RxAssumption

(* A report that is lost takes its batch with it.                             *)
LEMMA LoseAckBatches ==
  ASSUME Local, Batches, LoseAck
  PROVE  Batches'
<1>1. resp # <<>> /\ resp' = Tail(resp) /\ losses' = losses + 1 /\ losses \in Nat
      /\ UNCHANGED <<seg, mem, out, cur, hw, taken>>
  BY DEF LoseAck, chan, Local, Types, ControlType
<1>2. /\ \A i \in DOMAIN resp' : i + 1 \in DOMAIN resp /\ resp'[i] = resp[i + 1]
      /\ \A i, j \in DOMAIN resp' : i < j => i + 1 < j + 1
  BY <1>1, TailIs DEF Local, Types, QueueType
<1>3. HandedOver' = HandedOver /\ \A s : Fresh(s)' <=> Fresh(s)
  BY <1>1 DEF HandedOver, Fresh
<1>4. FreshOK' /\ ReportsOK' /\ FillingOK'
  BY <1>1, <1>2, <1>3 DEF Batches, FreshOK, ReportsOK, FillingOK
<1>5. FreshOrder' /\ FreshFirst' /\ ReportOrder'
  BY <1>1, <1>2, <1>3 DEF Batches, FreshOrder, FreshFirst, ReportOrder
<1>6. Passed' /\ AllThere'
  BY <1>1, <1>3 DEF Batches, Passed, AllThere
<1>. QED
  BY <1>4, <1>5, <1>6 DEF Batches

(* A segment goes up: it is the oldest one the host has, and what it holds    *)
(* comes right after what went up before.                                     *)
LEMMA DeliverBatches ==
  ASSUME Orderly, CellsStored, Batches, NEW w \in 0 .. N, Ring(w),
         NEW h \in Handlers, Deliver(h)
  PROVE  Batches'
<1>0. PICK s \in Segments : s = ix[h]
  BY DEF Orderly, Local, Types, CallerType
<1>1. PICK c, u, f, l : /\ s = ix[h] /\ c = seg[s].count /\ u = SubSeq(mem[s], 1, c)
                        /\ f = mem[s][1] /\ l = Len(out)
  BY <1>0
<1>2. /\ pc[h] = "look" /\ seg[s].state = "ready" /\ out' = out \o u
      /\ seg' = [seg EXCEPT ![s] = [state |-> "arm", count |-> Max]]
      /\ UNCHANGED <<mem, resp, hw, armq, taken, cur, losses>>
  BY <1>1 DEF Deliver, arm
<1>3. seg \in [Segments -> SegRecords] /\ out \in Seq(0 .. Cells) /\ Local
  BY DEF Orderly, Local, Types, ChannelType, DataType
<1>4. u \in Seq(0 .. Cells) /\ u = [j \in 1 .. c |-> mem[s][j]] /\ c \in Nat
      /\ l \in Nat /\ f \in Int
  BY <1>1, <1>3, SegmentCells, CellNumbers
<1>5. /\ Len(out') = l + c
      /\ \A k \in 1 .. l : out'[k] = out[k]
      /\ \A k \in 1 .. c : out'[l + k] = mem[s][k]
      /\ DOMAIN out' = 1 .. l + c /\ DOMAIN out = 1 .. l
  <2>1. Len(u) = c /\ \A k \in 1 .. c : u[k] = mem[s][k]
    BY <1>4
  <2>2. DOMAIN out = 1 .. l /\ l \in Nat
    BY <1>1, <1>3
  <2>3. PICK S : out \in Seq(S) /\ u \in Seq(S)
    BY <1>3, <1>4
  <2>4. /\ Len(out \o u) = Len(out) + Len(u) /\ out \o u \in Seq(S)
        /\ \A k \in 1 .. Len(out) : (out \o u)[k] = out[k]
        /\ \A k \in 1 .. Len(u) : (out \o u)[Len(out) + k] = u[k]
    BY <2>3, ConcatIs
  <2>5. out' = out \o u /\ l = Len(out)
    BY <1>1, <1>2
  <2>. QED
    BY <2>1, <2>2, <2>4, <2>5
<1>6. HandedOver' = HandedOver
  BY <1>2 DEF HandedOver
<1>7. \A r \in Segments : Fresh(r)' <=> r # s /\ Fresh(r)
  BY <1>2, <1>3 DEF Fresh
<1>8. \A r \in Segments : r # s => seg'[r] = seg[r]
  BY <1>2, <1>3
(* the segments after it, and the reports, hold newer cells                   *)
<1>9. \A r \in Segments : r # s /\ seg[r].state = "ready" => Dist(cur, s) < Dist(cur, r)
  <2>1. s = next /\ ~At("advance") /\ ~At("post")
    BY <1>1, <1>2, Holder DEF Holding
  <2>2. seg[s].state # "arm" /\ cur \in Segments /\ w \in Nat /\ N \in Nat
    BY <1>2, Window
  <2>3. w < N /\ Dist(cur, s) = w
    BY <2>1, <2>2, Window
  <2>4. \A r \in Segments : r # s => Dist(cur, r) # w
    BY <2>2, <2>3, Distances
  <2>5. \A r \in Segments : Dist(cur, r) \in Nat
    BY <2>2, Window
  <2>6. \A r \in Segments : seg[r].state = "ready" => ~(Dist(cur, r) < w)
    BY DEF Ring
  <2>. QED
    BY <2>2, <2>3, <2>4, <2>5, <2>6
<1>10. c > 0 => /\ Fresh(s) /\ Batch(mem, out, HandedOver, s, c)
                /\ \A r \in Segments : r # s /\ Fresh(r) => f + c <= mem[r][1]
                /\ \A i \in DOMAIN resp : f + c <= mem[resp[i].handle][1]
  BY <1>1, <1>2, <1>9 DEF Fresh, Batches, FreshOK, FreshOrder, FreshFirst, Before
<1>11. c > 0 => /\ f + c <= HandedOver + 1 /\ \A j \in 1 .. c : mem[s][j] = f + j - 1
                /\ \A i \in 1 .. l : out[i] < f
  BY <1>1, <1>5, <1>10 DEF Batch
<1>12. /\ HandedOver \in Nat /\ \A i \in 1 .. l : out[i] <= HandedOver /\ out[i] \in Int
       /\ \A i, j \in 1 .. l : i < j => out[i] < out[j]
  BY <1>3, <1>5, CellNumbers DEF Batches, Passed
(* so what comes out is one of the cells out already or one of its batch      *)
<1>13. ASSUME NEW i \in DOMAIN out'
       PROVE  \/ i \in 1 .. l /\ out'[i] = out[i]
              \/ c > 0 /\ i - l \in 1 .. c /\ out'[i] = f + (i - l) - 1
  <2>1. CASE i <= l
    BY <1>4, <1>5, <2>1
  <2>2. CASE i > l
    <3>1. PICK k \in 1 .. c : k = i - l
      BY <1>4, <1>5, <2>2
    <3>2. c > 0 /\ out'[l + k] = mem[s][k] /\ l + k = i
      BY <1>4, <1>5, <3>1
    <3>. QED
      BY <1>11, <3>1, <3>2
  <2>. QED
    BY <1>4, <1>5, <2>1, <2>2
<1>14. \A v \in Int : (\A i \in 1 .. l : out[i] < v) /\ (c > 0 => f + c <= v) => \A i \in DOMAIN out' : out'[i] < v
  <2> SUFFICES ASSUME NEW v \in Int, \A i \in 1 .. l : out[i] < v, c > 0 => f + c <= v, NEW i \in DOMAIN out'
               PROVE  out'[i] < v
    OBVIOUS
  <2>1. CASE i \in 1 .. l /\ out'[i] = out[i]
    BY <2>1
  <2>2. CASE c > 0 /\ i - l \in 1 .. c /\ out'[i] = f + (i - l) - 1
    <3>1. PICK k \in 1 .. c : k = i - l
      BY <2>2
    <3>2. out'[i] = f + k - 1 /\ f + c <= v
      BY <2>2, <3>1
    <3>. QED
      BY <1>4, <3>1, <3>2
  <2>. QED
    BY <1>13, <2>1, <2>2
<1>15. FreshOK'
  <2> SUFFICES ASSUME NEW r \in Segments, r # s, Fresh(r) PROVE Batch(mem', out', HandedOver', r, seg'[r].count)
    BY <1>7 DEF FreshOK
  <2>1. Batch(mem, out, HandedOver, r, seg[r].count) /\ mem[r][1] \in Int
    BY <1>3, CellNumbers DEF Batches, FreshOK
  <2>2. \A i \in DOMAIN out' : out'[i] < mem[r][1]
    BY <1>5, <1>10, <1>14, <2>1 DEF Batch
  <2>. QED
    BY <1>2, <1>6, <1>8, <2>1, <2>2 DEF Batch
<1>16. ReportsOK'
  <2> SUFFICES ASSUME NEW i \in DOMAIN resp
               PROVE  Batch(mem', out', HandedOver', resp[i].handle, resp[i].count)
    BY <1>2 DEF ReportsOK
  <2>1. Batch(mem, out, HandedOver, resp[i].handle, resp[i].count) /\ mem[resp[i].handle][1] \in Int
    BY <1>3, CellNumbers DEF Batches, ReportsOK
  <2>2. \A k \in DOMAIN out' : out'[k] < mem[resp[i].handle][1]
    BY <1>5, <1>10, <1>14, <2>1 DEF Batch
  <2>. QED
    BY <1>2, <1>6, <2>1, <2>2 DEF Batch
<1>17. FillingOK'
  BY <1>2, <1>6 DEF Batches, FillingOK
<1>18. FreshOrder' /\ FreshFirst' /\ ReportOrder'
  <2>1. FreshOrder'
    BY <1>2, <1>7, <1>8 DEF Batches, FreshOrder
  <2>2. FreshFirst'
    BY <1>2, <1>7, <1>8 DEF Batches, FreshFirst
  <2>. QED
    BY <1>2, <2>1, <2>2 DEF Batches, ReportOrder
<1>19. Passed'
  <2>1. \A i \in DOMAIN out' : out'[i] <= HandedOver
    <3>1. \A i \in DOMAIN out' : out'[i] < HandedOver + 1
      <4>1. HandedOver + 1 \in Int /\ (\A i \in 1 .. l : out[i] < HandedOver + 1)
            /\ (c > 0 => f + c <= HandedOver + 1)
        BY <1>11, <1>12
      <4>. QED
        BY <1>14, <4>1
    <3>2. \A i \in DOMAIN out' : out'[i] \in Int
      BY <1>4, <1>12, <1>13
    <3>. QED
      BY <1>12, <3>1, <3>2
  <2>2. ASSUME NEW i \in DOMAIN out', NEW j \in DOMAIN out', i < j PROVE out'[i] < out'[j]
    <3>0. i \in Nat /\ j \in Nat
      BY <1>4, <1>5
    <3>1. CASE j \in 1 .. l /\ out'[j] = out[j]
      <4>1. i \in 1 .. l
        BY <1>4, <1>5, <2>2, <3>0, <3>1
      <4>. QED
        BY <1>5, <1>12, <2>2, <3>1, <4>1
    <3>2. CASE c > 0 /\ j - l \in 1 .. c /\ out'[j] = f + (j - l) - 1
      <4>1. CASE i \in 1 .. l /\ out'[i] = out[i]
        <5>1. out[i] < f /\ out[i] \in Int
          BY <1>11, <1>12, <3>2, <4>1
        <5>. QED
          BY <1>4, <3>0, <3>2, <4>1, <5>1
      <4>2. CASE c > 0 /\ i - l \in 1 .. c /\ out'[i] = f + (i - l) - 1
        BY <1>4, <2>2, <3>0, <3>2, <4>2
      <4>. QED
        BY <1>13, <4>1, <4>2
    <3>. QED
      BY <1>13, <3>1, <3>2
  <2>. QED
    BY <1>6, <1>12, <2>1, <2>2 DEF Passed
<1>20. AllThere'
  <2> SUFFICES ASSUME losses = 0
               PROVE  /\ \A i \in DOMAIN out' : out'[i] = i
                      /\ \A x \in Len(out') + 1 .. HandedOver' : There(x)'
    BY <1>2 DEF AllThere
  <2>1. (\A i \in 1 .. l : out[i] = i) /\ \A x \in l + 1 .. HandedOver : There(x)
    BY <1>1, <1>5 DEF Batches, AllThere
  <2>2. c > 0 => f = l + 1
    <3> SUFFICES ASSUME c > 0 PROVE f = l + 1
      OBVIOUS
    <3>1. f >= l + 1
      <4>1. CASE l = 0
        <5>1. Stored(s, c)
          BY <1>1, <1>2 DEF CellsStored
        <5>2. 1 \in 1 .. c /\ taken \in Nat
          BY <1>3, <1>4, CellNumbers
        <5>3. f \in 1 .. taken
          BY <1>1, <5>1, <5>2 DEF Stored, Held
        <5>. QED
          BY <1>4, <4>1, <5>2, <5>3
      <4>2. CASE l # 0
        <5>1. l \in 1 .. l
          BY <1>4, <4>2
        <5>2. out[l] = l /\ out[l] < f
          BY <1>11, <2>1, <5>1
        <5>. QED
          BY <1>4, <5>2
      <4>. QED
        BY <4>1, <4>2
    <3>2. l + 1 \in l + 1 .. HandedOver /\ l + 1 \in Int
      BY <1>4, <1>11, <1>12, <3>1
    <3>3. There(l + 1)
      BY <2>1, <3>2
    <3>4. ASSUME NEW r \in Segments, Fresh(r), Within(mem, l + 1, r, seg[r].count) PROVE f <= l + 1
      <4>1. mem[r][1] <= l + 1 /\ mem[r][1] \in Int
        BY <1>3, <3>4, CellNumbers DEF Within
      <4>2. r = s \/ f + c <= mem[r][1]
        BY <1>10, <3>4
      <4>. QED
        BY <1>1, <1>4, <4>1, <4>2, SMTT(30)
    <3>5. ASSUME NEW i \in DOMAIN resp, Within(mem, l + 1, resp[i].handle, resp[i].count) PROVE f <= l + 1
      <4>1. mem[resp[i].handle][1] <= l + 1 /\ mem[resp[i].handle][1] \in Int
        BY <1>3, <3>5, CellNumbers DEF Within
      <4>2. f + c <= mem[resp[i].handle][1]
        BY <1>10
      <4>. QED
        BY <1>4, <4>1, <4>2
    <3>6. f <= l + 1
      BY <3>3, <3>4, <3>5 DEF There
    <3>. QED
      BY <1>4, <3>1, <3>6
  <2>3. \A i \in DOMAIN out' : out'[i] = i
    <3> SUFFICES ASSUME NEW i \in 1 .. l + c PROVE out'[i] = i
      BY <1>5
    <3>1. CASE i \in 1 .. l /\ out'[i] = out[i]
      BY <2>1, <3>1
    <3>2. CASE c > 0 /\ i - l \in 1 .. c /\ out'[i] = f + (i - l) - 1
      BY <1>4, <2>2, <3>2
    <3>. QED
      BY <1>5, <1>13, <3>1, <3>2
  <2>4. ASSUME NEW x \in l + c + 1 .. HandedOver PROVE There(x)'
    <3>1. x \in l + 1 .. HandedOver /\ x \in Int /\ x >= l + c + 1
      BY <1>4, <1>12
    <3>2. There(x)
      BY <2>1, <3>1
    <3>3. ~(Fresh(s) /\ Within(mem, x, s, seg[s].count))
      <4>1. CASE c > 0
        <5>1. f = l + 1 /\ f = mem[s][1] /\ c = seg[s].count /\ l \in Nat /\ c \in Nat
          BY <1>1, <1>4, <2>2, <4>1
        <5>2. ~(x < f + c)
          BY <3>1, <5>1
        <5>. QED
          BY <5>1, <5>2 DEF Within
      <4>2. CASE ~(c > 0)
        BY <1>1, <4>2 DEF Fresh
      <4>. QED
        BY <4>1, <4>2
    <3>4. CASE \E r \in Segments : Fresh(r) /\ Within(mem, x, r, seg[r].count)
      <4>1. PICK r \in Segments : Fresh(r) /\ Within(mem, x, r, seg[r].count) /\ r # s
        BY <3>3, <3>4
      <4>. QED
        BY <1>2, <1>7, <1>8, <4>1 DEF There
    <3>5. CASE \E i \in DOMAIN resp : Within(mem, x, resp[i].handle, resp[i].count)
      BY <1>2, <3>5 DEF There
    <3>. QED
      BY <3>2, <3>4, <3>5 DEF There
  <2>. QED
    BY <1>5, <1>6, <2>3, <2>4
<1>. QED
  BY <1>15, <1>16, <1>17, <1>18, <1>19, <1>20 DEF Batches

(* The host takes note of a report: its segment becomes the last of those the *)
(* host has still to pass up.                                                 *)
LEMMA CompleteBatches ==
  ASSUME Orderly, Batches, NEW w \in 0 .. N, NEW b \in 0 .. N, Placed(w, b),
         DmaRxCompleteHandler, state = "enabled"
  PROVE  Batches'
<1>. USE DEF Placed
<1>0. PICK h \in Segments : h = resp[1].handle /\ 1 \in DOMAIN resp
                            /\ Head(resp) = resp[1] /\ resp # <<>>
  BY CompleteStep, ResponseHead DEF Orderly
<1>1. PICK k : h = resp[1].handle /\ k = resp[1].count /\ 1 \in DOMAIN resp
               /\ Head(resp) = resp[1] /\ resp # <<>>
  BY <1>0
<1>2. /\ resp' = Tail(resp) /\ cur' = After(h)
      /\ UNCHANGED <<mem, out, armq, hw, taken, losses>>
      /\ \A s \in Segments : seg'[s] = IF s = h THEN [state |-> "ready", count |-> k]
                                       ELSE IF Dist(cur, s) < Dist(cur, h) THEN [state |-> "ready", count |-> 0]
                                       ELSE seg[s]
  BY <1>1, CompleteStep DEF Orderly
<1>3. /\ \A i \in DOMAIN resp' : i + 1 \in DOMAIN resp /\ resp'[i] = resp[i + 1] /\ i + 1 > 1
      /\ \A i, j \in DOMAIN resp' : i < j => i + 1 < j + 1
      /\ \A i \in DOMAIN resp : i # 1 => i > 1
  BY <1>1, <1>2, TailIs DEF Orderly, Local, Types, QueueType
<1>4. /\ cur \in Segments /\ w \in Nat /\ N \in Nat /\ Dist(cur, h) = b /\ Local
      /\ \A s \in Segments : Dist(cur, s) \in 0 .. N - 1
  BY <1>1, Window DEF Queued, Orderly
<1>5. b < w
  <2>1. b + Len(resp) + Len(hw) + Len(armq) = w /\ Len(resp) \in Nat /\ Len(hw) \in Nat
        /\ Len(armq) \in Nat /\ DOMAIN resp = 1 .. Len(resp)
    BY <1>4, QueueElements DEF Queued
  <2>2. 1 \in 1 .. Len(resp)
    BY <1>1, <2>1
  <2>. QED
    BY <2>1, <2>2
<1>6. \A s \in Segments : Fresh(s) => Dist(cur, s) > b /\ s # h
  <2>1. \A s \in Segments : Dist(cur, s) < w => seg[s].state = "arm"
    BY DEF Ring
  <2>2. \A s \in Segments : Fresh(s) => ~(Dist(cur, s) < w)
    BY <2>1 DEF Fresh
  <2>3. \A s \in Segments : ~(Dist(cur, s) < w) => Dist(cur, s) > b
    BY <1>4, <1>5
  <2>. QED
    BY <1>4, <1>5, <2>2, <2>3
<1>7. k > 0 /\ k \in Nat /\ Batch(mem, out, HandedOver, h, k)
  BY <1>1, <1>4, CellNumbers DEF Batches, ReportsOK, Batch
<1>8. \A s \in Segments : s # h => seg'[s] = seg[s] \/ seg'[s] = [state |-> "ready", count |-> 0]
  BY <1>2
<1>9. \A s \in Segments : Fresh(s) => seg'[s] = seg[s] /\ Fresh(s)'
  <2>1. \A s \in Segments : Fresh(s) => s # h /\ ~(Dist(cur, s) < Dist(cur, h))
    BY <1>4, <1>6
  <2>. QED
    BY <1>2, <2>1 DEF Fresh
<1>10. \A s \in Segments : Fresh(s)' => s = h \/ Fresh(s)
  BY <1>8 DEF Fresh
<1>11. Fresh(h)' /\ seg'[h].count = k
  BY <1>2, <1>7 DEF Fresh
<1>12. HandedOver' = HandedOver
  BY <1>2 DEF HandedOver
<1>13. FreshOK'
  BY <1>2, <1>7, <1>9, <1>10, <1>11, <1>12 DEF Batches, FreshOK
<1>14. ReportsOK' /\ FillingOK'
  BY <1>2, <1>3, <1>12 DEF Batches, ReportsOK, FillingOK
<1>15. \A s, r \in Segments : Fresh(s)' /\ Fresh(r)' /\ Dist(cur', s) < Dist(cur', r) =>
           Fresh(s) /\ (r = h \/ (Fresh(r) /\ Dist(cur, s) < Dist(cur, r)))
  <2> SUFFICES ASSUME NEW s \in Segments, NEW r \in Segments, Fresh(s)', Fresh(r)',
                      Dist(cur', s) < Dist(cur', r)
               PROVE  Fresh(s) /\ (r = h \/ (Fresh(r) /\ Dist(cur, s) < Dist(cur, r)))
    OBVIOUS
  <2>1. \A x \in Segments : Dist(cur', x) = IF Dist(cur, x) > Dist(cur, h)
                                              THEN Dist(cur, x) - Dist(cur, h) - 1
                                              ELSE Dist(cur, x) - Dist(cur, h) - 1 + N
    <3>1. cur \in Segments /\ h \in Segments
      BY <1>4
    <3>2. \A x \in Segments : Dist(After(h), x) = IF Dist(cur, x) > Dist(cur, h)
                                                    THEN Dist(cur, x) - Dist(cur, h) - 1
                                                    ELSE Dist(cur, x) - Dist(cur, h) - 1 + N
      BY <3>1, Distances
    <3>. QED
      BY <1>2, <3>2
  <2>2. Dist(cur', h) = N - 1
    BY <1>4, <2>1
  <2>3. \A x \in Segments : Fresh(x) => Dist(cur', x) = Dist(cur, x) - b - 1
    BY <1>4, <1>6, <2>1
  <2>4. Dist(cur', r) \in 0 .. N - 1 /\ Dist(cur', s) \in 0 .. N - 1
    <3>1. cur' \in Segments
      BY <1>2, <1>4, SettingType DEF Local, Types, ControlType
    <3>. QED
      BY <3>1, Distances
  <2>5. s # h
    BY <1>4, <2>2, <2>4
  <2>6. CASE r = h
    BY <1>10, <2>5, <2>6
  <2>7. CASE r # h
    <3>1. Fresh(s) /\ Fresh(r)
      BY <1>10, <2>5, <2>7
    <3>2. Dist(cur, s) - b - 1 < Dist(cur, r) - b - 1 /\ Dist(cur, s) \in Int /\ Dist(cur, r) \in Int
      BY <1>4, <2>3, <3>1
    <3>. QED
      BY <1>4, <3>1, <3>2
  <2>. QED
    BY <2>6, <2>7
<1>16. FreshOrder'
  <2> SUFFICES ASSUME NEW s \in Segments, NEW r \in Segments, Fresh(s)', Fresh(r)',
                      Dist(cur', s) < Dist(cur', r)
               PROVE  Before(mem', s, seg'[s].count, r)
    BY DEF FreshOrder
  <2>1. Before(mem, s, seg[s].count, r)
    BY <1>1, <1>15 DEF Batches, FreshOrder, FreshFirst
  <2>. QED
    BY <1>2, <1>9, <1>15, <2>1
<1>17. FreshFirst'
  <2> SUFFICES ASSUME NEW s \in Segments, NEW i \in DOMAIN resp', Fresh(s)'
               PROVE  Before(mem', s, seg'[s].count, resp'[i].handle)
    BY DEF FreshFirst
  <2>1. i + 1 \in DOMAIN resp /\ resp'[i] = resp[i + 1] /\ 1 < i + 1
    BY <1>3
  <2>2. CASE s = h
    <3>1. Before(mem, resp[1].handle, resp[1].count, resp[i + 1].handle)
      BY <1>1, <2>1 DEF Batches, ReportOrder
    <3>. QED
      BY <1>1, <1>2, <1>11, <2>1, <2>2, <3>1
  <2>3. CASE s # h
    <3>1. Fresh(s) /\ seg'[s] = seg[s]
      BY <1>9, <1>10, <2>3
    <3>. QED
      BY <1>2, <2>1, <3>1 DEF Batches, FreshFirst
  <2>. QED
    BY <2>2, <2>3
<1>18. ReportOrder'
  BY <1>2, <1>3 DEF Batches, ReportOrder
<1>19. Passed'
  BY <1>2, <1>12 DEF Batches, Passed
<1>20. AllThere'
  <2>1. ASSUME NEW x, There(x) PROVE There(x)'
    <3>1. CASE \E s \in Segments : Fresh(s) /\ Within(mem, x, s, seg[s].count)
      BY <1>2, <1>9, <3>1 DEF There
    <3>2. ASSUME NEW i \in DOMAIN resp, Within(mem, x, resp[i].handle, resp[i].count)
          PROVE  There(x)'
      <4>1. CASE i = 1
        BY <1>1, <1>2, <1>11, <3>2, <4>1 DEF There
      <4>2. CASE i # 1
        <5>1. PICK j : j \in DOMAIN resp' /\ resp'[j] = resp[i]
          <6>1. resp \in Seq(Responses)
            BY <1>4 DEF Local, Types, QueueType
          <6>2. i - 1 \in DOMAIN Tail(resp) /\ Tail(resp)[i - 1] = resp[i]
            BY <1>1, <4>2, <6>1, <3>2
          <6>. QED
            BY <1>2, <6>2
        <5>. QED
          BY <1>2, <3>2, <5>1 DEF There
      <4>. QED
        BY <4>1, <4>2
    <3>. QED
      BY <2>1, <3>1, <3>2 DEF There
  <2>. QED
    BY <1>2, <1>12, <2>1 DEF Batches, AllThere
<1>. QED
  BY <1>13, <1>14, <1>16, <1>17, <1>18, <1>19, <1>20 DEF Batches

(* A cell arrives: it continues what is being filled, and what is handed over *)
(* comes after everything handed over before.                                 *)
LEMMA ArmStoreBatches ==
  ASSUME Orderly, Batches, NEW w \in 0 .. N, NEW b \in 0 .. N, Placed(w, b),
         NEW last \in BOOLEAN, ArmStore(last)
  PROVE  Batches'
<1>. USE DEF Placed
<1>1. PICK d, n, a, r, H : /\ d = Head(hw) /\ n = d.filled + 1 /\ a = d.cmd.addr
                           /\ r = Answer("complete", d.cmd, n) /\ H = HandedOver
  OBVIOUS
<1>2. /\ hw # <<>> /\ taken' = taken + 1 /\ UNCHANGED <<seg, armq, out, cur, losses>>
      /\ mem' = [mem EXCEPT ![a][n] = taken + 1]
      /\ \/ last /\ hw' = Tail(hw) /\ resp' = Append(resp, r)
         \/ ~last /\ hw' = [hw EXCEPT ![1].filled = n] /\ resp' = resp
  BY <1>1 DEF ArmStore, chan
<1>3. /\ d = hw[1] /\ 1 \in DOMAIN hw /\ a \in Segments /\ n \in 1 .. Max /\ d.filled \in Nat
      /\ d \in Descriptors
  BY <1>1, <1>2, SegmentHead DEF Orderly
<1>4. /\ Local /\ hw \in Seq(Descriptors) /\ resp \in Seq(Responses)
      /\ mem \in [Segments -> [1 .. Max -> 0 .. Cells]]
  BY DEF Orderly, Local, Types, QueueType, DataType
<1>5. /\ taken \in Nat /\ Max \in Nat /\ n \in Nat /\ n > 0
      /\ H = taken - d.filled /\ H \in Nat /\ taken + 1 = H + n
  <2>1. taken \in Nat /\ Max \in Nat /\ H \in Nat
    BY <1>1, <1>4, CellNumbers DEF Batches, Passed
  <2>2. H = taken - d.filled
    BY <1>1, <1>2 DEF HandedOver
  <2>. QED
    BY <1>1, <1>3, <2>1, <2>2
<1>6. \A j \in 1 .. n - 1 : mem[a][j] = H + j
  <2>1. \A j \in 1 .. d.filled : mem[a][j] = H + j
    BY <1>1, <1>2, <1>3 DEF Batches, FillingOK
  <2>2. n - 1 = d.filled
    BY <1>1, <1>3
  <2>. QED
    BY <2>1, <2>2
<1>7. \A s \in Segments : s # a => mem'[s] = mem[s]
  BY <1>2, <1>3, <1>4
<1>8. \A j \in 1 .. n : mem'[a][j] = H + j
  <2> SUFFICES ASSUME NEW j \in 1 .. n PROVE mem'[a][j] = H + j
    OBVIOUS
  <2>0. j \in 1 .. Max /\ mem'[a][j] = IF j = n THEN taken + 1 ELSE mem[a][j]
    <3>1. j \in 1 .. Max
      BY <1>3, <1>5
    <3>. QED
      BY <1>2, <1>3, <1>4, <3>1
  <2>1. CASE j = n
    BY <1>5, <2>0, <2>1
  <2>2. CASE j # n
    <3>1. j \in 1 .. n - 1
      BY <1>5, <2>2
    <3>. QED
      BY <1>6, <2>0, <2>2, <3>1
  <2>. QED
    BY <2>1, <2>2
(* the segment being filled is none of the others                             *)
<1>9. /\ \A s \in Segments : Fresh(s) => s # a
      /\ \A i \in DOMAIN resp : resp[i].handle # a /\ resp[i].handle \in Segments
      /\ d.cmd.handle = a
  <2>1. /\ b + Len(resp) + Len(hw) + Len(armq) = w /\ Len(resp) \in Nat /\ Len(hw) \in Nat
        /\ Len(armq) \in Nat /\ DOMAIN resp = 1 .. Len(resp) /\ DOMAIN hw = 1 .. Len(hw)
    BY <1>4, QueueElements DEF Queued
  <2>2. Dist(cur, a) = b + Len(resp) + 1 - 1 /\ d.cmd.handle = a
    BY <1>1, <1>3 DEF Queued
  <2>3. 1 \in 1 .. Len(hw) /\ b \in Nat /\ w \in Nat
    BY <1>3, <2>1, Window DEF Queued
  <2>4. Dist(cur, a) < w /\ Dist(cur, a) = b + Len(resp)
    BY <2>1, <2>2, <2>3
  <2>5. seg[a].state = "arm"
    BY <1>3, <2>4 DEF Ring
  <2>6. \A i \in DOMAIN resp : Dist(cur, resp[i].handle) = b + i - 1 /\ resp[i].handle \in Segments
    BY <1>4, QueueElements DEF Queued
  <2>7. \A i \in DOMAIN resp : b + i - 1 # b + Len(resp)
    BY <2>1, <2>3
  <2>8. \A i \in DOMAIN resp : resp[i].handle # a
    BY <2>4, <2>6, <2>7
  <2>. QED
    BY <2>2, <2>5, <2>6, <2>8 DEF Fresh
<1>10. r.handle = a /\ r.count = n
  BY <1>1, <1>9 DEF Answer
<1>11. HandedOver' = IF last THEN H + n ELSE H
  <2>1. CASE last
    <3>1. hw' = Tail(hw) /\ taken' = taken + 1
      BY <1>2, <2>1
    <3>2. CASE hw' = <<>>
      BY <1>5, <2>1, <3>1, <3>2 DEF HandedOver
    <3>3. CASE hw' # <<>>
      <4>1. Head(hw') = hw'[1] /\ 1 \in DOMAIN hw'
        BY <1>2, <1>4, <3>1, <3>3
      <4>2. 1 + 1 \in DOMAIN hw /\ hw'[1] = hw[1 + 1] /\ 1 + 1 > 1
        BY <1>2, <1>4, <3>1, <4>1, TailIs
      <4>3. Head(hw').filled = 0
        BY <1>4, <4>1, <4>2 DEF Local, QueuesOK
      <4>. QED
        BY <1>5, <2>1, <3>1, <3>3, <4>3 DEF HandedOver
    <3>. QED
      BY <3>2, <3>3
  <2>2. CASE ~last
    <3>1. hw' = [hw EXCEPT ![1].filled = n] /\ taken' = taken + 1
      BY <1>2, <2>2
    <3>2. hw' # <<>> /\ Head(hw') = hw'[1] /\ hw'[1].filled = n
      BY <1>2, <1>3, <1>4, <3>1 DEF Descriptors
    <3>3. hw' # <<>> /\ Head(hw').filled = n
      BY <3>2
    <3>4. HandedOver' = taken' - Head(hw').filled
      BY <3>3 DEF HandedOver
    <3>5. taken' = taken + 1 /\ taken + 1 = H + n /\ n \in Nat /\ H \in Nat
      BY <1>2, <1>5
    <3>6. HandedOver' = (H + n) - n
      BY <3>3, <3>4, <3>5
    <3>. QED
      BY <2>2, <3>5, <3>6
  <2>. QED
    BY <2>1, <2>2
<1>12. HandedOver' \in Nat /\ HandedOver' >= H
  BY <1>5, <1>11
<1>13. \A s : Fresh(s)' <=> Fresh(s)
  BY <1>2 DEF Fresh
<1>14. ASSUME NEW s \in Segments, NEW k, s # a, Batch(mem, out, H, s, k), k \in Nat
       PROVE  Batch(mem', out', HandedOver', s, k)
  <2>1. mem[s][1] \in Int
    BY <1>4, CellNumbers
  <2>2. mem[s][1] + k <= HandedOver' + 1
    BY <1>5, <1>12, <1>14, <2>1 DEF Batch
  <2>. QED
    BY <1>2, <1>7, <1>14, <2>2 DEF Batch
<1>15. FreshOK'
  BY <1>1, <1>2, <1>4, <1>9, <1>13, <1>14, CellNumbers DEF Batches, FreshOK
<1>16. \A i \in DOMAIN resp : /\ Batch(mem', out', HandedOver', resp[i].handle, resp[i].count)
                              /\ mem'[resp[i].handle] = mem[resp[i].handle]
  BY <1>1, <1>4, <1>7, <1>9, <1>14, CellNumbers DEF Batches, ReportsOK
<1>17. last => Batch(mem', out', HandedOver', a, n) /\ mem'[a][1] = H + 1
  <2> SUFFICES ASSUME last PROVE Batch(mem', out', HandedOver', a, n) /\ mem'[a][1] = H + 1
    OBVIOUS
  <2>1. mem'[a][1] = H + 1
    BY <1>5, <1>8
  <2>2. \A i \in DOMAIN out : out[i] < H + 1
    <3>1. \A i \in DOMAIN out : out[i] <= HandedOver /\ out[i] \in Int
      BY <1>4, CellNumbers DEF Batches, Passed
    <3>2. H = HandedOver /\ H \in Nat
      BY <1>1, <1>5
    <3>. QED
      BY <3>1, <3>2
  <2>3. \A j \in 1 .. n : mem'[a][j] = mem'[a][1] + j - 1
    BY <1>5, <1>8, <2>1, SMTT(30)
  <2>4. mem'[a][1] + n <= HandedOver' + 1
    BY <1>5, <1>11, <2>1
  <2>. QED
    BY <1>2, <1>5, <2>1, <2>2, <2>3, <2>4 DEF Batch
<1>18. \A i \in DOMAIN resp' :
         \/ i \in DOMAIN resp /\ resp'[i] = resp[i]
         \/ last /\ i = Len(resp) + 1 /\ resp'[i] = r
  <2>1. CASE ~last
    BY <1>2, <2>1
  <2>2. CASE last
    <3>1. resp' = Append(resp, r)
      BY <1>2, <2>2
    <3>. QED
      BY <1>4, <2>2, <3>1, AppendIs
  <2>. QED
    BY <2>1, <2>2
<1>19. ReportsOK'
  BY <1>10, <1>16, <1>17, <1>18 DEF ReportsOK
<1>20. FillingOK'
  <2> SUFFICES ASSUME hw' # <<>>, NEW j \in 1 .. hw'[1].filled
               PROVE  mem'[hw'[1].cmd.addr][j] = HandedOver' + j
    BY DEF FillingOK
  <2>1. CASE ~last
    <3>1. hw'[1].filled = n /\ hw'[1].cmd = d.cmd
      BY <1>2, <1>3, <1>4, <2>1 DEF Descriptors
    <3>. QED
      BY <1>1, <1>8, <1>11, <2>1, <3>1
  <2>2. CASE last
    <3>1. hw' = Tail(hw)
      BY <1>2, <2>2
    <3>2. 1 \in DOMAIN hw'
      BY <1>2, <1>4, <3>1
    <3>3. 1 + 1 \in DOMAIN hw /\ hw'[1] = hw[1 + 1] /\ 1 + 1 > 1
      BY <1>2, <1>4, <3>1, <3>2, TailIs
    <3>4. hw'[1].filled = 0
      BY <1>4, <3>3 DEF Local, QueuesOK
    <3>. QED
      BY <3>4
  <2>. QED
    BY <2>1, <2>2
<1>21. FreshOrder'
  BY <1>2, <1>7, <1>9, <1>13 DEF Batches, FreshOrder, Before
<1>22. FreshFirst'
  <2> SUFFICES ASSUME NEW s \in Segments, NEW i \in DOMAIN resp', Fresh(s)
               PROVE  Before(mem', s, seg[s].count, resp'[i].handle)
    BY <1>2, <1>13 DEF FreshFirst
  <2>1. mem'[s] = mem[s]
    BY <1>7, <1>9
  <2>2. CASE i \in DOMAIN resp /\ resp'[i] = resp[i]
    BY <1>16, <2>1, <2>2 DEF Batches, FreshFirst, Before
  <2>3. CASE last /\ resp'[i] = r
    BY <1>1, <1>10, <1>17, <2>1, <2>3 DEF Batches, FreshOK, Before, Batch
  <2>. QED
    BY <1>18, <2>2, <2>3
<1>23. ReportOrder'
  <2> SUFFICES ASSUME NEW i \in DOMAIN resp', NEW j \in DOMAIN resp', i < j
               PROVE  Before(mem', resp'[i].handle, resp'[i].count, resp'[j].handle)
    BY DEF ReportOrder
  <2>1. i \in DOMAIN resp /\ resp'[i] = resp[i]
    <3>1. CASE ~last
      BY <1>2, <3>1
    <3>2. CASE last
      <4>1. resp' = Append(resp, r)
        BY <1>2, <3>2
      <4>2. i \in DOMAIN resp
        BY <1>4, <4>1, AppendIs
      <4>. QED
        BY <1>4, <4>1, <4>2
    <3>. QED
      BY <3>1, <3>2
  <2>2. CASE j \in DOMAIN resp /\ resp'[j] = resp[j]
    BY <1>16, <2>1, <2>2 DEF Batches, ReportOrder, Before
  <2>3. CASE last /\ resp'[j] = r
    <3>1. Batch(mem, out, H, resp[i].handle, resp[i].count)
      BY <1>1, <2>1 DEF Batches, ReportsOK
    <3>. QED
      BY <1>10, <1>16, <1>17, <2>1, <2>3, <3>1 DEF Before, Batch
  <2>. QED
    BY <1>18, <2>2, <2>3
<1>24. Passed'
  <2>1. \A i \in DOMAIN out : out[i] <= H /\ out[i] \in Int
    BY <1>1, <1>4, CellNumbers DEF Batches, Passed
  <2>2. \A i \in DOMAIN out : out[i] <= HandedOver'
    BY <1>5, <1>12, <2>1
  <2>. QED
    BY <1>2, <1>12, <2>2 DEF Batches, Passed
<1>25. AllThere'
  <2> SUFFICES ASSUME losses = 0, NEW c \in Len(out) + 1 .. HandedOver' PROVE There(c)'
    BY <1>2 DEF Batches, AllThere
  <2>0. c \in Int /\ Len(out) \in Nat /\ c >= Len(out) + 1 /\ c <= HandedOver'
    BY <1>4, <1>12, CellNumbers
  <2>1. CASE c <= H
    <3>1. There(c)
      <4>1. c \in Len(out) + 1 .. H
        BY <1>5, <2>0, <2>1
      <4>. QED
        BY <1>1, <4>1 DEF Batches, AllThere
    <3>2. ASSUME NEW s \in Segments, Fresh(s), Within(mem, c, s, seg[s].count) PROVE There(c)'
      BY <1>2, <1>7, <1>9, <1>13, <3>2 DEF There, Within
    <3>3. ASSUME NEW i \in DOMAIN resp, Within(mem, c, resp[i].handle, resp[i].count) PROVE There(c)'
      <4>1. i \in DOMAIN resp' /\ resp'[i] = resp[i]
        <5>1. CASE ~last
          BY <1>2, <5>1
        <5>2. CASE last
          <6>1. resp' = Append(resp, r)
            BY <1>2, <5>2
          <6>. QED
            BY <1>4, <6>1
        <5>. QED
          BY <5>1, <5>2
      <4>. QED
        BY <1>16, <3>3, <4>1 DEF There, Within
    <3>. QED
      BY <3>1, <3>2, <3>3 DEF There
  <2>2. CASE c > H
    <3>1. last /\ c <= H + n
      BY <1>5, <1>11, <2>0, <2>2
    <3>2. PICK i \in DOMAIN resp' : resp'[i] = r
      <4>1. resp' = Append(resp, r)
        BY <1>2, <3>1
      <4>2. Len(resp) + 1 \in DOMAIN resp' /\ resp'[Len(resp) + 1] = r
        BY <1>4, <4>1
      <4>. QED
        BY <4>2
    <3>3. Within(mem', c, a, n)
      BY <1>5, <1>17, <2>0, <2>2, <3>1, SMTT(30) DEF Within
    <3>. QED
      BY <1>10, <3>2, <3>3 DEF There
  <2>. QED
    BY <1>5, <2>0, <2>1, <2>2
<1>. QED
  BY <1>15, <1>19, <1>20, <1>21, <1>22, <1>23, <1>24, <1>25 DEF Batches

(* A command is taken: it is not filled yet.                                  *)
LEMMA ArmTakeBatches ==
  ASSUME Local, Batches, ArmTake, rejects' = 0
  PROVE  Batches'
<1>1. PICK d : d = [cmd |-> Head(armq), filled |-> 0]
  OBVIOUS
<1>2. hw' = Append(hw, d) /\ UNCHANGED <<seg, mem, out, resp, cur, losses, taken>>
  BY <1>1 DEF ArmTake, chan, Local, Types, ControlType
<1>3. hw \in Seq(Descriptors) /\ d.filled = 0
  BY <1>1 DEF Local, Types, QueueType
<1>4. CASE hw = <<>>
  <2>1. hw' # <<>> /\ Head(hw') = d /\ hw'[1] = d
    BY <1>2, <1>3, <1>4
  <2>2. HandedOver' = HandedOver
    BY <1>2, <1>3, <1>4, <2>1 DEF HandedOver
  <2>3. FillingOK'
    BY <1>3, <2>1 DEF FillingOK
  <2>. QED
    BY <1>2, <2>2, <2>3, BatchesSame
<1>5. CASE hw # <<>>
  <2>1. hw' # <<>> /\ Head(hw') = Head(hw) /\ hw'[1] = hw[1]
    BY <1>2, <1>3, <1>5
  <2>2. HandedOver' = HandedOver
    BY <1>2, <1>5, <2>1 DEF HandedOver
  <2>3. FillingOK'
    BY <1>2, <1>5, <2>1, <2>2 DEF Batches, FillingOK
  <2>. QED
    BY <1>2, <2>2, <2>3, BatchesSame
<1>. QED
  BY <1>4, <1>5

LEMMA BatchesStep ==
  ASSUME Inv, StoredOK, BatchesOK, [Next]_vars
  PROVE  BatchesOK'
<1> SUFFICES ASSUME fails' = 0, stops' = 0, rejects' = 0 PROVE Batches'
  BY DEF BatchesOK
<1>0. Local /\ fails \in Nat /\ stops \in Nat /\ rejects \in Nat
  BY DEF Inv, Local, Types, ControlType
<1>1. CASE UNCHANGED <<fails, stops>> /\ rejects = 0
  <2>1. /\ Orderly /\ CellsStored /\ Batches /\ state # "disabled" /\ stopPc = "no"
        /\ state = "enabled" \/ (state = "uninitialized" /\ armq = <<>> /\ hw = <<>> /\ resp = <<>>)
    BY <1>1 DEF Inv, Calm, StoredOK, BatchesOK, Orderly, StopOK, Local, Types, ControlType, ChannelType
  <2>2. state = "enabled" => \E w, b \in 0 .. N : Placed(w, b)
    BY <1>1 DEF Inv, Calm, RingOK
  <2>3. CASE UNCHANGED <<seg, mem, out, resp, cur, hw, taken, losses>>
    <3>1. HandedOver' = HandedOver /\ FillingOK'
      BY <2>1, <2>3 DEF HandedOver, Batches, FillingOK
    <3>. QED
      BY <2>1, <2>3, <3>1, BatchesSame
  <2>4. ASSUME NEW h \in Handlers, Enter(h) \/ Lock(h) \/ Leave(h) \/ Post(h) \/ Advance(h)
        PROVE  Batches'
    BY <2>3, <2>4 DEF Enter, Lock, Leave, Post, Advance, arm, chan
  <2>5. ASSUME NEW h \in Handlers, Deliver(h) PROVE Batches'
    <3>1. pc[h] = "look"
      BY <2>5 DEF Deliver
    <3>2. state = "enabled"
      BY <2>1, <3>1, DownIsIdle DEF Holding
    <3>3. PICK w \in 0 .. N, b \in 0 .. N : Placed(w, b)
      BY <2>2, <3>2
    <3>. QED
      BY <2>1, <2>5, <3>3, DeliverBatches DEF Placed
  <2>6. CASE LoseAck
    BY <1>0, <2>1, <2>6, LoseAckBatches
  <2>7. CASE ArmTake
    BY <1>0, <2>1, <2>7, ArmTakeBatches
  <2>8. CASE ArmStop
    <3>1. armq # <<>> /\ Head(armq).op = "stop"
      BY <2>8 DEF ArmStop
    <3>2. Head(armq) = armq[1] /\ 1 \in DOMAIN armq
      BY <1>0, <3>1, CommandHead
    <3>. QED
      BY <2>1, <3>1, <3>2 DEF Orderly, StopOK
  <2>9. ASSUME NEW last \in BOOLEAN, ArmStore(last) PROVE Batches'
    <3>1. hw # <<>>
      BY <2>9 DEF ArmStore
    <3>2. PICK w \in 0 .. N, b \in 0 .. N : Placed(w, b)
      BY <2>1, <2>2, <3>1
    <3>. QED
      BY <2>1, <2>9, <3>2, ArmStoreBatches
  <2>10. CASE DmaRxCompleteHandler \/ DmaRxFullHandler
    <3>1. resp # <<>> /\ state = "enabled"
      BY <2>1, <2>10 DEF DmaRxCompleteHandler, DmaRxFullHandler, Interrupt
    <3>2. PICK w \in 0 .. N, b \in 0 .. N : Placed(w, b)
      BY <2>2, <3>1
    <3>3. Head(resp).kind = "complete"
      BY <1>0, <3>1, <3>2, ResponseHead DEF Placed, Queued
    <3>4. DmaRxCompleteHandler
      BY <2>10, <3>3 DEF DmaRxFullHandler, Interrupt
    <3>. QED
      BY <2>1, <3>1, <3>2, <3>4, CompleteBatches
  <2>11. CASE DisableStop \/ DisableReset
    BY <2>1, <2>11 DEF DisableStop, DisableReset
  <2>12. CASE DisableMark
    BY <1>0, <1>1, <2>12 DEF DisableMark
  <2>13. ASSUME NEW h \in Handlers, PostFails(h) PROVE Batches'
    BY <1>0, <1>1, <2>13 DEF PostFails
  <2>14. CASE Enable \/ UNCHANGED vars
    BY <2>3, <2>14 DEF Enable, vars, arm, chan
  <2>. QED
    BY <2>4, <2>5, <2>6, <2>7, <2>8, <2>9, <2>10, <2>11, <2>12, <2>13, <2>14
    DEF Next, DataHandler, Disable, Arm
<1>2. /\ fails' \in {fails, fails + 1} /\ stops' \in {stops, stops + 1}
      /\ rejects' \in {rejects, rejects + 1}
  <2>1. ASSUME NEW h \in Handlers, DataHandler(h)
        PROVE  fails' \in {fails, fails + 1} /\ UNCHANGED <<stops, rejects>>
    BY <2>1 DEF DataHandler, Enter, Lock, Deliver, Leave, Post, PostFails, Advance, arm
  <2>2. CASE Arm
    BY <2>2 DEF Arm, ArmTake, ArmStop, ArmStore, LoseAck
  <2>3. CASE Disable
    BY <2>3 DEF Disable, DisableMark, DisableStop, DisableReset, arm
  <2>. QED
    BY <2>1, <2>2, <2>3 DEF Next, vars, Enable, DmaRxCompleteHandler, DmaRxFullHandler, Interrupt, arm
<1>. QED
  BY <1>0, <1>1, <1>2

(* The invariant of the cells; the counts stay within what the setting says.  *)
Bounded == fails <= env.fail /\ stops <= env.stop /\ rejects <= env.reject
CellInv == Inv /\ StoredOK /\ BatchesOK /\ Bounded

LEMMA InitCells == Init => CellInv
<1> SUFFICES ASSUME Init PROVE CellInv
  OBVIOUS
<1>1. Inv /\ Max \in 1 .. 255
  BY InitInv, SettingType DEF Init
<1>2. /\ out = <<>> /\ hw = <<>> /\ resp = <<>> /\ armq = <<>> /\ taken = 0
      /\ \A s \in Segments : seg[s].count = 0
      /\ fails = 0 /\ stops = 0 /\ rejects = 0 /\ env \in Settings
  BY DEF Init
<1>3. StoredOK
  BY <1>2 DEF StoredOK, CellsStored, Stored, Held
<1>4. HandedOver = 0
  BY <1>2 DEF HandedOver
<1>5. \A s \in Segments : ~Fresh(s)
  BY <1>2 DEF Fresh
<1>6. FreshOK /\ FreshOrder /\ FreshFirst /\ Passed
  BY <1>2, <1>4, <1>5 DEF FreshOK, FreshOrder, FreshFirst, Passed
<1>7. ReportsOK /\ FillingOK /\ ReportOrder /\ AllThere
  BY <1>2, <1>4 DEF ReportsOK, FillingOK, ReportOrder, AllThere
<1>8. Bounded
  BY <1>2, RxAssumption DEF Bounded
<1>. QED
  BY <1>1, <1>3, <1>6, <1>7, <1>8 DEF CellInv, BatchesOK, Batches

LEMMA BoundedStep ==
  ASSUME Local, Bounded, [Next]_vars
  PROVE  Bounded'
<1>0. /\ env' = env /\ fails \in Nat /\ stops \in Nat /\ rejects \in Nat
      /\ env.fail \in Nat /\ env.stop \in Nat /\ env.reject \in Nat
  BY SettingStep, RxAssumption DEF Local, Types, ControlType
<1>. USE DEF Bounded
<1>1. CASE UNCHANGED <<fails, stops, rejects>>
  BY <1>0, <1>1
<1>2. ASSUME NEW h \in Handlers, DataHandler(h) PROVE Bounded'
  <2>1. CASE PostFails(h)
    BY <1>0, <2>1 DEF PostFails, arm
  <2>2. CASE ~PostFails(h)
    BY <1>1, <1>2, <2>2 DEF DataHandler, Enter, Lock, Deliver, Leave, Post, Advance, arm
  <2>. QED
    BY <2>1, <2>2
<1>3. CASE DisableMark
  BY <1>0, <1>3 DEF DisableMark, arm
<1>4. CASE DisableStop
  BY <1>0, <1>4 DEF DisableStop
<1>5. CASE DisableReset \/ Enable \/ UNCHANGED vars
  BY <1>1, <1>5 DEF DisableReset, Enable, vars, arm
<1>6. CASE ArmTake
  BY <1>0, <1>6 DEF ArmTake
<1>7. CASE ArmStop \/ LoseAck \/ \E last \in BOOLEAN : ArmStore(last)
  BY <1>1, <1>7 DEF ArmStop, LoseAck, ArmStore
<1>8. CASE DmaRxCompleteHandler \/ DmaRxFullHandler
  BY <1>1, <1>8 DEF DmaRxCompleteHandler, DmaRxFullHandler, Interrupt
<1>. QED
  BY <1>2, <1>3, <1>4, <1>5, <1>6, <1>7, <1>8 DEF Next, Disable, Arm

LEMMA CellStep == CellInv /\ [Next]_vars => CellInv'
BY StepInv, StoredStep, BatchesStep, BoundedStep DEF CellInv, Inv

LEMMA CellInvariance == Spec => []CellInv
BY InitCells, CellStep, PTL DEF Spec

(* Only new cells: unless a command was refused or the link went down, what   *)
(* is passed up was received, whatever the ARM rejects and whichever reports  *)
(* are lost; and unless a segment was rejected nothing is passed up twice.    *)
THEOREM RxOnlyNewCells == Spec => []OnlyNewCells
<1>1. CellInv => OnlyNewCells
  <2> SUFFICES ASSUME CellInv, fails = 0, stops = 0
               PROVE  /\ \A i \in DOMAIN out : out[i] \in 1 .. taken
                      /\ rejects = 0 => \A i, j \in DOMAIN out : i # j => out[i] # out[j]
    BY DEF OnlyNewCells
  <2>1. \A i \in DOMAIN out : out[i] \in 1 .. taken
    BY DEF CellInv, StoredOK, CellsStored
  <2>2. ASSUME rejects = 0, NEW i \in DOMAIN out, NEW j \in DOMAIN out, i # j PROVE out[i] # out[j]
    <3>1. /\ i \in Nat /\ j \in Nat /\ out[i] \in Int /\ out[j] \in Int
          /\ (i < j => out[i] < out[j]) /\ (j < i => out[j] < out[i])
      BY <2>2, CellNumbers DEF CellInv, Inv, BatchesOK, Batches, Passed
    <3>. QED
      BY <2>2, <3>1
  <2>. QED
    BY <2>1, <2>2
<1>. QED
  BY <1>1, CellInvariance, PTL
-------------------------------------------------------------------------------
(* The pipe.  Whether the line is steady is part of the setting of a run.     *)
LEMMA PipeStep ==
  ASSUME CellInv, CellInv', [Next]_vars
  PROVE  [Pipe!Next]_Pipe!vars
<1>0. /\ Steady' = Steady /\ losses \in Nat /\ Local /\ taken \in Nat /\ out \in Seq(0 .. Cells)
  BY SettingStep, CellNumbers DEF Steady, CellInv, Inv, Local, Types, ControlType, DataType
<1>1. CASE UNCHANGED <<taken, out, losses>>
  BY <1>0, <1>1 DEF Pipe!vars
<1>2. CASE LoseAck
  <2>1. losses' = losses + 1 /\ UNCHANGED <<taken, out>>
    BY <1>2 DEF LoseAck
  <2>2. losses' > 0
    BY <1>0, <2>1
  <2>. QED
    BY <1>0, <2>1, <2>2 DEF Pipe!Next, Pipe!Lose
<1>3. ASSUME NEW last \in BOOLEAN, ArmStore(last) PROVE [Pipe!Next]_Pipe!vars
  <2>1. taken' = taken + 1 /\ taken < Cells /\ UNCHANGED <<out, losses>>
    BY <1>3 DEF ArmStore
  <2>2. CASE ~Steady
    BY <1>0, <2>1, <2>2 DEF Pipe!vars
  <2>3. CASE Steady
    <3>1. taken' \in (taken + 1) .. Cells
      BY <1>0, <2>1, RxAssumption
    <3>. QED
      BY <1>0, <2>1, <2>3, <3>1 DEF Pipe!Next, Pipe!Take
  <2>. QED
    BY <2>2, <2>3
<1>4. ASSUME NEW h \in Handlers, Deliver(h) PROVE [Pipe!Next]_Pipe!vars
  <2>1. PICK u \in Seq(0 .. Cells) : out' = out \o u
    <3>1. ix[h] \in Segments
      BY <1>0 DEF Local, Types, CallerType
    <3>. QED
      BY <1>0, <1>4, <3>1, SegmentCells DEF Deliver
  <2>2. UNCHANGED <<taken, losses>>
    BY <1>4 DEF Deliver, arm
  <2>3. CASE ~Steady
    BY <1>0, <2>2, <2>3 DEF Pipe!vars
  <2>4. CASE u = <<>>
    <3>1. out' = out
      BY <1>0, <2>1, <2>4, ConcatEmptySeq
    <3>. QED
      BY <1>1, <2>2, <3>1
  <2>5. CASE Steady /\ u # <<>>
    <3>0. PICK l \in Nat : l = Len(out)
      BY <1>0
    <3>1. /\ Len(out') = l + Len(u) /\ out' \in Seq(0 .. Cells) /\ Len(u) \in Nat
          /\ \A k \in 1 .. l : out'[k] = out[k]
      BY <1>0, <2>1, <3>0, ConcatIs
    <3>2. Len(out') > l /\ Len(out') \in Nat /\ DOMAIN out' = 1 .. Len(out')
      <4>1. Len(u) > 0
        BY <2>1, <2>5
      <4>. QED
        BY <3>0, <3>1, <4>1
    <3>3. SubSeq(out', 1, l) = out
      BY <1>0, <3>0, <3>1, <3>2
    <3>4. fails' = 0 /\ stops' = 0 /\ rejects' = 0 /\ losses' = losses
      <4>1. /\ env'.fail = 0 /\ env'.stop = 0 /\ env'.reject = 0
            /\ fails' \in Nat /\ stops' \in Nat /\ rejects' \in Nat
            /\ fails' <= env'.fail /\ stops' <= env'.stop /\ rejects' <= env'.reject
        BY <1>0, <2>5 DEF Steady, CellInv, Inv, Local, Types, ControlType, Bounded
      <4>. QED
        BY <2>2, <4>1
    <3>5. /\ \A i \in DOMAIN out' : out'[i] \in 1 .. taken
          /\ \A i, j \in DOMAIN out' : i < j => out'[i] < out'[j]
          /\ losses = 0 => \A i \in DOMAIN out' : out'[i] = i
      BY <2>2, <3>4 DEF CellInv, StoredOK, CellsStored, BatchesOK, Batches, Passed, AllThere
    <3>6. ASSUME NEW i \in l + 1 .. Len(out')
          PROVE  /\ out'[i] <= taken /\ out'[i] > Pipe!Newest(SubSeq(out', 1, i - 1))
                 /\ ~(losses > 0) => out'[i] = i
      <4>1. i \in DOMAIN out' /\ i \in Nat /\ i >= 1
        BY <3>0, <3>2
      <4>2. out'[i] <= taken /\ out'[i] >= 1 /\ out'[i] \in Nat
        BY <1>0, <3>5, <4>1
      <4>3. ~(losses > 0) => out'[i] = i
        BY <1>0, <3>5, <4>1
      <4>4. CASE i = 1
        <5>1. SubSeq(out', 1, i - 1) = <<>>
          BY <3>1, <4>4
        <5>. QED
          BY <4>2, <4>3, <5>1 DEF Pipe!Newest
      <4>5. CASE i # 1
        <5>1. i - 1 \in DOMAIN out' /\ i - 1 < i /\ i - 1 \in Nat /\ i - 1 >= 1 /\ i - 1 <= Len(out')
          BY <3>2, <4>1, <4>5
        <5>2. out'[i - 1] < out'[i]
          BY <3>5, <4>1, <5>1
        <5>3. PICK q : q = SubSeq(out', 1, i - 1)
          OBVIOUS
        <5>4. q # <<>> /\ Len(q) = i - 1 /\ q[i - 1] = out'[i - 1]
          BY <3>1, <5>1, <5>3
        <5>5. Pipe!Newest(q) = out'[i - 1]
          BY <5>4 DEF Pipe!Newest
        <5>. QED
          BY <4>2, <4>3, <5>2, <5>3, <5>5
      <4>. QED
        BY <4>4, <4>5
    <3>7. Pipe!Emit
      BY <1>0, <2>2, <2>5, <3>0, <3>2, <3>3, <3>6 DEF Pipe!Emit
    <3>. QED
      BY <3>7 DEF Pipe!Next
  <2>. QED
    BY <2>3, <2>4, <2>5
<1>5. ASSUME NEW h \in Handlers, Enter(h) \/ Lock(h) \/ Leave(h) \/ Post(h) \/ PostFails(h) \/ Advance(h)
      PROVE  UNCHANGED <<taken, out, losses>>
  BY <1>5 DEF Enter, Lock, Leave, Post, PostFails, Advance, arm
<1>6. CASE Enable \/ Disable \/ UNCHANGED vars
  BY <1>1, <1>6 DEF Enable, Disable, DisableMark, DisableStop, DisableReset, vars, arm
<1>7. CASE DmaRxCompleteHandler \/ DmaRxFullHandler
  BY <1>1, <1>7 DEF DmaRxCompleteHandler, DmaRxFullHandler, Interrupt
<1>8. CASE ArmTake \/ ArmStop
  BY <1>1, <1>8 DEF ArmTake, ArmStop
<1>. QED
  BY <1>1, <1>2, <1>3, <1>4, <1>5, <1>6, <1>7, <1>8 DEF Next, DataHandler, Arm

(* The channel is a pipe: for every size of the ring and of its segments and  *)
(* any number of handlers and of processors, on a line that stays up and with *)
(* an ARM that neither refuses nor rejects, cells are passed up in the order  *)
(* they arrived, none twice, and none is missing unless a report was lost.    *)
THEOREM RxCellsInOrder == Spec => CellsInOrder
<1>1. Init => Pipe!Init
  BY DEF Init, Pipe!Init
<1>2. CellInv /\ CellInv' /\ [Next]_vars => [Pipe!Next]_Pipe!vars
  BY PipeStep
<1>. QED
  BY <1>1, <1>2, CellInvariance, PTL DEF Spec, CellsInOrder, Pipe!Spec
===============================================================================
