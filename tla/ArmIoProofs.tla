------------------------------ MODULE ArmIoProofs ------------------------------
(* The invariants of ArmIo, and that it is a CmdChannel, for every set of     *)
(* commands and events and every number of calls and reports.                 *)
EXTENDS ArmIo, SequenceTheorems, TLAPS
--------------------------------------------------------------------------------
(* A queue is its head and the rest.                                          *)
LEMMA HeadAndTail ==
  ASSUME NEW S, NEW q \in Seq(S), q # <<>>
  PROVE  /\ Head(q) \in S /\ Tail(q) \in Seq(S) /\ <<Head(q)>> \in Seq(S)
         /\ <<Head(q)>> \o Tail(q) = q
<1>1. Head(q) \in S /\ Tail(q) \in Seq(S)
  OBVIOUS
<1>2. <<Head(q)>> \in Seq(S)
  BY <1>1
<1>3. <<Head(q)>> \o Tail(q) = q
  <2>1. Len(<<Head(q)>> \o Tail(q)) = Len(q)
    OBVIOUS
  <2>2. \A i \in 1 .. Len(q) : (<<Head(q)>> \o Tail(q))[i] = q[i]
    OBVIOUS
  <2>3. <<Head(q)>> \o Tail(q) \in Seq(S)
    BY <1>1, <1>2
  <2>. QED
    BY <2>1, <2>2, <2>3, SeqEqual
<1>. QED
  BY <1>1, <1>2, <1>3

(* Queues in a row can be joined in any order.                                *)
LEMMA JoinQueues ==
  ASSUME NEW S, NEW r \in Seq(S), NEW u \in Seq(S), NEW q \in Seq(S)
  PROVE  r \o u \in Seq(S) /\ (r \o u) \o q = r \o (u \o q)
<1>1. r \o u \in Seq(S)
  BY ConcatProperties
<1>2. (r \o u) \o q = r \o (u \o q)
  BY ConcatAssociative
<1>. QED
  BY <1>1, <1>2, Zenon

(* Three queues in a row, the one that is furthest on its way first.          *)
InLine(r, u, q) == (r \o u) \o q

(* Four queues in a row can be joined from either end.                        *)
Joined(r, u, h, t) == (r \o (u \o h)) \o t = (r \o u) \o (h \o t)

LEMMA FourQueues ==
  ASSUME NEW S, NEW r \in Seq(S), NEW u \in Seq(S), NEW h \in Seq(S), NEW t \in Seq(S)
  PROVE  Joined(r, u, h, t)
<1>1. (r \o u) \o h = r \o (u \o h) /\ r \o u \in Seq(S)
  BY JoinQueues
<1> DEFINE x == r \o u
<1>2. x \in Seq(S)
  BY <1>1
<1> HIDE DEF x
<1>3. (x \o h) \o t = x \o (h \o t)
  BY <1>2, JoinQueues
<1>. QED
  BY <1>1, <1>3, Zenon DEF x, Joined

(* The head of a queue moves to the end of the queue before it.               *)
LEMMA MoveHead ==
  ASSUME NEW S, NEW r \in Seq(S), NEW u \in Seq(S), NEW q \in Seq(S), q # <<>>
  PROVE  InLine(r, Append(u, Head(q)), Tail(q)) = InLine(r, u, q)
<1>1. <<Head(q)>> \in Seq(S) /\ Tail(q) \in Seq(S) /\ Head(q) \in S
  BY HeadAndTail
<1>2. <<Head(q)>> \o Tail(q) = q
  BY HeadAndTail
<1>3. Append(u, Head(q)) = u \o <<Head(q)>>
  BY <1>1, AppendIsConcat
<1>4. Joined(r, u, <<Head(q)>>, Tail(q))
  BY <1>1, FourQueues
<1>. QED
  BY <1>2, <1>3, <1>4, Zenon DEF InLine, Joined

(* What is added to the last queue is added to the whole.                     *)
LEMMA JoinAppend ==
  ASSUME NEW S, NEW x \in Seq(S), NEW q \in Seq(S), NEW e \in S
  PROVE  x \o Append(q, e) = Append(x \o q, e)
<1>1. <<e>> \in Seq(S) /\ x \o q \in Seq(S)
  BY ConcatProperties
<1>2. Append(q, e) = q \o <<e>> /\ Append(x \o q, e) = (x \o q) \o <<e>>
  BY <1>1, AppendIsConcat
<1>3. (x \o q) \o <<e>> = x \o (q \o <<e>>)
  BY <1>1, JoinQueues
<1>. QED
  BY <1>2, <1>3, Zenon

(* The element that follows the front part of a queue.                        *)
LEMMA NextInLine ==
  ASSUME NEW S, NEW r \in Seq(S), NEW e \in S, NEW q \in Seq(S), NEW whole,
         whole = InLine(r, <<e>>, q)
  PROVE  Len(r) < Len(whole) /\ whole[Len(r) + 1] = e
<1> DEFINE x == r \o <<e>>
<1>1. x \in Seq(S) /\ Len(x) = Len(r) + 1 /\ x[Len(r) + 1] = e /\ Len(r) \in Nat
  OBVIOUS
<1>2. whole = x \o q
  BY DEF InLine
<1> HIDE DEF x
<1>3. Len(whole) = Len(x) + Len(q) /\ Len(q) \in Nat
  BY <1>1, <1>2
<1>4. whole[Len(r) + 1] = x[Len(r) + 1]
  BY <1>1, <1>2
<1>. QED
  BY <1>1, <1>3, <1>4
--------------------------------------------------------------------------------
(* What the command register holds, as a queue.                               *)
Reg == IF reg = NoCmd THEN <<>> ELSE <<reg>>

(* Every command accepted was taken, is in the register or waits.             *)
NoneLost == InLine(taken, Reg, fifo) = accepted

(* Who holds WriteLock can rely on a register found empty, and if it was full *)
(* then CMDE has not been handled since.                                      *)
StatHolds ==
  pCommand # NoCmd =>
    IF CommandEmpty THEN reg = NoCmd ELSE reg # NoCmd \/ "CMDE" \in latched \cup event

(* The ISR decodes events after it has handled those of the hardware, and the *)
(* tasklet has a copy only while it works on it.                              *)
InTurn ==
  /\ event # {} => post = None
  /\ need => irq # "idle"
  /\ dpc \in {"idle", "copy"} => copy = {}

(* On one processor ISR and tasklet read and write InterruptStatus in one go. *)
Undisturbed ==
  ~smp => /\ dpc \in {"mask", "store"} => irq = "idle"
          /\ dpc = "store" => loaded = status \ copy
          /\ post # None => old = status

IInv == TypeOK /\ NoneLost /\ StatHolds /\ NextCommandDue /\ InTurn /\ Undisturbed /\ EventsKept
-------------------------------------------------------------------------------
(* What calP46DPCWriteNextCommand leaves behind.                              *)
LEMMA WriteNextType ==
  ASSUME TypeOK, NEW enabled \in SUBSET Owned, "DATAF" \in enabled, WriteNextCommand(enabled)
  PROVE  /\ fifo' \in Seq(Cmds) /\ reg' \in Cmds \cup {NoCmd}
         /\ ier' \in SUBSET Owned /\ "DATAF" \in ier'
         /\ ~(fifo' # <<>> /\ reg' = NoCmd)
         /\ "CMDE" \in enabled => "CMDE" \in ier' \/ reg' \in BootCmds
<1>0. fifo \in Seq(Cmds) /\ reg \in Cmds \cup {NoCmd} /\ NoCmd \notin Cmds
  BY ArmIoAssumption DEF TypeOK, CommandsOK
<1>1. CASE fifo # <<>> /\ reg = NoCmd
  <2>1. reg' = Head(fifo) /\ fifo' = Tail(fifo) /\ ier' = Masked(Head(fifo), enabled)
    BY <1>1 DEF WriteNextCommand
  <2>2. Head(fifo) \in Cmds /\ Tail(fifo) \in Seq(Cmds)
    BY <1>0, <1>1, HeadAndTail
  <2>. QED
    BY <1>0, <2>1, <2>2 DEF Masked, Owned
<1>2. CASE fifo # <<>> /\ reg # NoCmd
  <2>1. fifo' = <<Head(fifo)>> \o Tail(fifo) /\ ier' = enabled /\ reg' = reg
    BY <1>2 DEF WriteNextCommand
  <2>2. fifo' = fifo
    BY <1>0, <1>2, <2>1, HeadAndTail
  <2>. QED
    BY <1>0, <1>2, <2>1, <2>2
<1>3. CASE fifo = <<>>
  BY <1>0, <1>3 DEF WriteNextCommand
<1>. QED
  BY <1>1, <1>2, <1>3

(* A call in progress leaves room for what it adds.                           *)
LEMMA OneMore ==
  ASSUME CommandsOK, pCommand # NoCmd
  PROVE  /\ Append(accepted, pCommand) \in Seq(Cmds)
         /\ Len(Append(accepted, pCommand)) + fails <= MaxCalls
         /\ Len(accepted) + (fails + 1) <= MaxCalls
<1>1. /\ accepted \in Seq(Cmds) /\ pCommand \in Cmds /\ fails \in Nat
      /\ Len(accepted) + fails < MaxCalls
  BY DEF CommandsOK
<1>2. Len(accepted) \in Nat /\ MaxCalls \in Nat
  <2>1. MaxCalls \in {MaxCalls, MaxReports}
    OBVIOUS
  <2>. QED
    BY <1>1, <2>1, LenProperties, ArmIoAssumption
<1>3. Append(accepted, pCommand) \in Seq(Cmds)
      /\ Len(Append(accepted, pCommand)) = Len(accepted) + 1
  BY <1>1
<1>. QED
  BY <1>1, <1>2, <1>3

(* Callers, the ISR and the ARM move commands.                                *)
LEMMA CommandsStep == TypeOK /\ [Next]_vars => CommandsOK'
<1> SUFFICES ASSUME TypeOK, [Next]_vars PROVE CommandsOK'
  OBVIOUS
<1>0. CommandsOK /\ ier \in SUBSET Owned /\ "DATAF" \in ier /\ Owned \in SUBSET Owned
      /\ "DATAF" \in Owned
  BY DEF TypeOK, ChipOK, Owned
<1>1. CASE Lock
  BY <1>0, <1>1 DEF CommandsOK, Lock, queue, arm
<1>2. CASE Queue
  <2>1. /\ fifo' = Append(fifo, pCommand) /\ pCommand' = NoCmd /\ CommandEmpty' = FALSE
        /\ UNCHANGED <<fails, reg, taken>>
    BY <1>2 DEF Queue, arm
  <2>2. pCommand \in Cmds /\ fifo' \in Seq(Cmds)
    BY <1>0, <1>2, <2>1 DEF CommandsOK, Queue
  <2>3. accepted' \in Seq(Cmds) /\ Len(accepted') + fails <= MaxCalls
    BY <1>0, <1>2, <2>2, OneMore DEF Queue
  <2>. QED
    BY <1>0, <2>1, <2>2, <2>3 DEF CommandsOK
<1>3. CASE NoMemory
  <2>1. /\ fails' = fails + 1 /\ pCommand' = NoCmd /\ CommandEmpty' = FALSE
        /\ UNCHANGED <<fifo, accepted, reg, taken>>
    BY <1>3 DEF NoMemory, arm
  <2>2. fails' \in Nat /\ Len(accepted) + fails' <= MaxCalls
    BY <1>0, <1>3, <2>1, OneMore DEF NoMemory, CommandsOK
  <2>. QED
    BY <1>0, <2>1, <2>2 DEF CommandsOK
<1>4. CASE Write
  <2>1. /\ reg' = pCommand /\ pCommand' = NoCmd /\ CommandEmpty' = FALSE
        /\ UNCHANGED <<fails, fifo, taken>>
    BY <1>4 DEF Write, arm
  <2>2. pCommand \in Cmds
    BY <1>0, <1>4 DEF CommandsOK, Write
  <2>3. accepted' \in Seq(Cmds) /\ Len(accepted') + fails <= MaxCalls
    BY <1>0, <1>4, <2>2, OneMore DEF Write
  <2>. QED
    BY <1>0, <2>1, <2>2, <2>3 DEF CommandsOK
<1>5. CASE IsrCommandEmpty \/ IsrArmReady
  <2>1. WriteNextCommand(ier) /\ UNCHANGED <<writer, accepted, fails, taken>>
    BY <1>5 DEF IsrCommandEmpty, IsrArmReady, arm
  <2>. QED
    BY <1>0, <2>1, WriteNextType DEF CommandsOK, writer
<1>6. CASE IsrBootAnswer
  <2>1. WriteNextCommand(Owned) /\ UNCHANGED <<writer, accepted, fails, taken>>
    BY <1>6 DEF IsrBootAnswer, ReadResponse
  <2>. QED
    BY <1>0, <2>1, WriteNextType DEF CommandsOK, writer
<1>7. CASE ArmTake
  BY <1>0, <1>7 DEF CommandsOK, ArmTake, writer, queue
<1>8. CASE UNCHANGED <<writer, queue, reg, taken>>
  BY <1>0, <1>8 DEF CommandsOK, writer, queue
<1>. QED
  BY <1>1, <1>2, <1>3, <1>4, <1>5, <1>6, <1>7, <1>8 DEF Next, vars, arm, queue, Isr, IsrEnter,
     IsrClear, IsrNoResponse, IsrDecode, ReadResponse, IsrSetEvent, IsrEnd, Dpc, DpcStart,
     DpcCopy, DpcMask, DpcStore, DpcRun, ArmAnswer, ArmReport

(* The registers of the chip and the responses of the ARM.                    *)
LEMMA ChipStep == TypeOK /\ [Next]_vars => ChipOK'
<1> SUFFICES ASSUME TypeOK, [Next]_vars PROVE ChipOK'
  OBVIOUS
<1>0. ChipOK /\ Owned \in SUBSET Owned /\ Owned = {"CMDE", "DATAF"}
  BY DEF TypeOK, Owned
<1>1. CASE Write
  BY <1>0, <1>1 DEF ChipOK, Write, Masked, arm
<1>2. CASE IsrClear
  BY <1>0, <1>2 DEF ChipOK, IsrClear, arm
<1>3. CASE IsrCommandEmpty \/ IsrArmReady
  <2>1. WriteNextCommand(ier) /\ UNCHANGED <<arm, latched>>
    BY <1>3 DEF IsrCommandEmpty, IsrArmReady
  <2>2. ier \in SUBSET Owned /\ "DATAF" \in ier
    BY <1>0 DEF ChipOK
  <2>. QED
    BY <1>0, <2>1, <2>2, WriteNextType DEF ChipOK, arm
<1>4. CASE ReadResponse /\ (WriteNextCommand(Owned) \/ UNCHANGED ier)
  <2>1. resp # <<>> /\ resp' = Tail(resp) /\ latched' \in SUBSET Owned
        /\ UNCHANGED <<busy, reports>>
    BY <1>0, <1>4 DEF ReadResponse, ChipOK
  <2>2. Tail(resp) \in Seq(Events \cup {Boot, Ready})
    BY <1>0, <2>1, HeadAndTail DEF ChipOK
  <2>3. ier' \in SUBSET Owned /\ "DATAF" \in ier'
    BY <1>0, <1>4, WriteNextType DEF ChipOK
  <2>. QED
    BY <1>0, <2>1, <2>2, <2>3 DEF ChipOK
<1>5. CASE IsrEnd
  BY <1>0, <1>5 DEF ChipOK, IsrEnd, arm
<1>6. CASE ArmTake
  BY <1>0, <1>6 DEF ChipOK, ArmTake
<1>7. CASE ArmAnswer
  <2>1. Append(resp, Boot) \in Seq(Events \cup {Boot, Ready})
    BY <1>0 DEF ChipOK
  <2>2. resp' \in Seq(Events \cup {Boot, Ready})
    BY <1>0, <1>7, <2>1 DEF ChipOK, ArmAnswer
  <2>3. busy' = FALSE /\ latched' = latched \cup {"DATAF"} /\ UNCHANGED <<reports, ier>>
    BY <1>7 DEF ArmAnswer
  <2>. QED
    BY <1>0, <2>2, <2>3 DEF ChipOK
<1>8. ASSUME NEW r \in Events \cup {Ready}, ArmReport(r) PROVE ChipOK'
  BY <1>0, <1>8, ArmIoAssumption DEF ChipOK, ArmReport
<1>9. CASE UNCHANGED <<arm, ier, latched>>
  BY <1>0, <1>9 DEF ChipOK, arm
<1>. QED
  BY <1>1, <1>2, <1>3, <1>4, <1>5, <1>6, <1>7, <1>8, <1>9 DEF Next, vars, Lock, Queue, NoMemory,
     Isr, IsrEnter, IsrNoResponse, IsrBootAnswer, IsrDecode, IsrSetEvent, Dpc, DpcStart,
     DpcCopy, DpcMask, DpcStore, DpcRun

(* The ISR, and the handlers that serve what it decoded.                      *)
LEMMA IsrStep == TypeOK /\ [Next]_vars => IsrOK'
<1> SUFFICES ASSUME TypeOK, [Next]_vars PROVE IsrOK'
  OBVIOUS
<1>0. IsrOK /\ ier \in SUBSET Owned
  BY DEF TypeOK, ChipOK
<1>1. CASE IsrDecode
  <2>1. /\ post' = Head(resp) /\ old' = status /\ event' = {}
        /\ unserved' = unserved \cup ({Head(resp)} \cap Events)
        /\ UNCHANGED <<irq, need>>
    BY <1>1 DEF IsrDecode, ReadResponse
  <2>2. Head(resp) \in Events \cup {Ready}
    BY <1>1, HeadAndTail DEF IsrDecode, ReadResponse, TypeOK, ChipOK
  <2>. QED
    BY <1>0, <2>1, <2>2 DEF IsrOK, TypeOK, SoftOK
<1>2. CASE IsrEnter \/ IsrClear \/ IsrCommandEmpty \/ IsrNoResponse
  BY <1>0, <1>2 DEF IsrOK, IsrEnter, IsrClear, IsrCommandEmpty, IsrNoResponse
<1>3. CASE IsrBootAnswer
  BY <1>0, <1>3 DEF IsrOK, IsrBootAnswer, ReadResponse
<1>4. CASE IsrSetEvent \/ IsrArmReady \/ IsrEnd
  BY <1>0, <1>4 DEF IsrOK, IsrSetEvent, IsrArmReady, IsrEnd
<1>5. ASSUME NEW e \in Events, DpcRun(e) PROVE IsrOK'
  BY <1>0, <1>5 DEF IsrOK, DpcRun, isr
<1>6. CASE UNCHANGED <<isr, unserved>>
  BY <1>0, <1>6 DEF IsrOK, isr
<1>. QED
  BY <1>1, <1>2, <1>3, <1>4, <1>5, <1>6 DEF Next, vars, Lock, Queue, NoMemory, Write, Isr, Dpc,
     DpcStart, DpcCopy, DpcMask, DpcStore, ArmTake, ArmAnswer, ArmReport

(* The tasklet and InterruptStatus.                                           *)
LEMMA SoftStep == TypeOK /\ [Next]_vars => SoftOK'
<1> SUFFICES ASSUME TypeOK, [Next]_vars PROVE SoftOK'
  OBVIOUS
<1>0. SoftOK /\ IsrOK
  BY DEF TypeOK
<1>1. CASE IsrSetEvent
  BY <1>0, <1>1 DEF SoftOK, IsrOK, IsrSetEvent
<1>2. CASE IsrEnd
  BY <1>0, <1>2 DEF SoftOK, IsrOK, IsrEnd
<1>3. CASE Dpc
  BY <1>0, <1>3 DEF SoftOK, Dpc, DpcStart, DpcCopy, DpcMask, DpcStore, DpcRun
<1>4. CASE UNCHANGED soft
  BY <1>0, <1>4 DEF SoftOK, soft
<1>. QED
  BY <1>1, <1>2, <1>3, <1>4 DEF Next, vars, Lock, Queue, NoMemory, Write, Isr, IsrEnter, IsrClear,
     IsrCommandEmpty, IsrNoResponse, IsrBootAnswer, IsrDecode, ReadResponse, IsrArmReady,
     ArmTake, ArmAnswer, ArmReport

LEMMA TypeStep == TypeOK /\ [Next]_vars => TypeOK'
<1> SUFFICES ASSUME TypeOK, [Next]_vars PROVE TypeOK'
  OBVIOUS
<1>1. smp' = smp
  BY DEF Next, vars, Lock, Queue, NoMemory, Write, Isr, IsrEnter, IsrClear, IsrCommandEmpty,
     IsrNoResponse, IsrBootAnswer, IsrDecode, ReadResponse, IsrSetEvent, IsrArmReady, IsrEnd,
     Dpc, DpcStart, DpcCopy, DpcMask, DpcStore, DpcRun, ArmTake, ArmAnswer, ArmReport
<1>. QED
  BY <1>1, CommandsStep, ChipStep, IsrStep, SoftStep DEF TypeOK

LEMMA InitType == Init => TypeOK
<1> SUFFICES ASSUME Init PROVE TypeOK
  OBVIOUS
<1>0. MaxCalls \in Nat /\ MaxReports \in Nat
  BY ArmIoAssumption
<1>1. CommandsOK
  <2>1. <<>> \in Seq(Cmds) /\ Len(<<>>) = 0
    BY EmptySeq
  <2>2. /\ fifo = <<>> /\ accepted = <<>> /\ taken = <<>> /\ fails = 0
        /\ pCommand = NoCmd /\ reg = NoCmd /\ CommandEmpty = FALSE
    BY DEF Init
  <2>3. Len(accepted) + fails <= MaxCalls
    BY <1>0, <2>1, <2>2
  <2>. QED
    BY <2>1, <2>2, <2>3 DEF CommandsOK
<1>2. ChipOK
  <2>1. /\ busy = FALSE /\ resp = <<>> /\ reports = 0 /\ ier = Owned
        /\ latched \in SUBSET {"CMDE"}
    BY DEF Init
  <2>2. resp \in Seq(Events \cup {Boot, Ready}) /\ reports \in 0 .. MaxReports
    BY <1>0, <2>1, EmptySeq
  <2>. QED
    BY <2>1, <2>2 DEF ChipOK, Owned
<1>3. IsrOK /\ SoftOK
  BY DEF Init, IsrOK, SoftOK, Owned
<1>. QED
  BY <1>1, <1>2, <1>3, ArmIoAssumption DEF Init, TypeOK

(* The registers, queues and words of events have their types, and DATAF is   *)
(* never masked.                                                              *)
THEOREM TypeCorrect == Spec => []TypeOK
<1>. QED
  BY InitType, TypeStep, PTL DEF Spec
-------------------------------------------------------------------------------
(* The commands of a state, as the lemmas on queues want them.                *)
LEMMA CommandTypes ==
  ASSUME TypeOK
  PROVE  /\ fifo \in Seq(Cmds) /\ taken \in Seq(Cmds) /\ accepted \in Seq(Cmds)
         /\ Reg \in Seq(Cmds) /\ <<>> \in Seq(Cmds)
         /\ reg \in Cmds \cup {NoCmd} /\ NoCmd \notin Cmds
<1>1. CommandsOK /\ <<>> \in Seq(Cmds) /\ NoCmd \notin Cmds
  BY EmptySeq, ArmIoAssumption DEF TypeOK
<1>2. reg \in Cmds => <<reg>> \in Seq(Cmds)
  OBVIOUS
<1>. QED
  BY <1>1, <1>2 DEF CommandsOK, Reg

(* calP46DPCWriteNextCommand moves the next command into the register.        *)
LEMMA WriteNextKeeps ==
  ASSUME TypeOK, NoneLost, NEW enabled, WriteNextCommand(enabled), UNCHANGED <<taken, accepted>>
  PROVE  NoneLost'
<1>1. CASE fifo # <<>> /\ reg = NoCmd
  <2>1. reg' = Head(fifo) /\ fifo' = Tail(fifo)
    BY <1>1 DEF WriteNextCommand
  <2>2. Head(fifo) # NoCmd
    BY <1>1, CommandTypes, HeadAndTail
  <2>3. Reg = <<>> /\ Reg' = Append(<<>>, Head(fifo))
    BY <1>1, <2>1, <2>2 DEF Reg
  <2>4. InLine(taken, Append(<<>>, Head(fifo)), Tail(fifo)) = InLine(taken, <<>>, fifo)
    BY <1>1, CommandTypes, MoveHead
  <2>. QED
    BY <2>1, <2>3, <2>4, Zenon DEF NoneLost, InLine
<1>2. CASE fifo # <<>> /\ reg # NoCmd
  <2>1. fifo' = <<Head(fifo)>> \o Tail(fifo) /\ reg' = reg
    BY <1>2 DEF WriteNextCommand
  <2>2. fifo' = fifo
    BY <1>2, <2>1, CommandTypes, HeadAndTail
  <2>. QED
    BY <2>1, <2>2 DEF NoneLost, Reg, InLine
<1>3. CASE fifo = <<>>
  <2>1. UNCHANGED <<fifo, reg>>
    BY <1>3 DEF WriteNextCommand
  <2>. QED
    BY <2>1 DEF NoneLost, Reg, InLine
<1>. QED
  BY <1>1, <1>2, <1>3

LEMMA NoneLostStep == ASSUME IInv, [Next]_vars PROVE NoneLost'
<1>0. TypeOK /\ NoneLost /\ StatHolds
  BY DEF IInv
<1>t. /\ fifo \in Seq(Cmds) /\ taken \in Seq(Cmds) /\ Reg \in Seq(Cmds) /\ <<>> \in Seq(Cmds)
      /\ NoCmd \notin Cmds /\ reg \in Cmds \cup {NoCmd} /\ taken \o Reg \in Seq(Cmds)
  BY <1>0, CommandTypes, ConcatProperties
<1>1. CASE Queue
  <2>1. /\ fifo' = Append(fifo, pCommand) /\ accepted' = Append(accepted, pCommand)
        /\ UNCHANGED <<taken, reg>>
    BY <1>1 DEF Queue, arm
  <2>2. pCommand \in Cmds
    BY <1>0, <1>1 DEF Queue, TypeOK, CommandsOK
  <2>3. (taken \o Reg) \o Append(fifo, pCommand) = Append((taken \o Reg) \o fifo, pCommand)
    BY <1>t, <2>2, JoinAppend
  <2>4. Reg' = Reg
    BY <2>1 DEF Reg
  <2>. QED
    BY <1>0, <2>1, <2>3, <2>4, Zenon DEF NoneLost, InLine
<1>2. CASE Write
  <2>1. /\ fifo = <<>> /\ fifo' = <<>> /\ CommandEmpty
        /\ pCommand # NoCmd /\ reg' = pCommand
        /\ accepted' = Append(accepted, pCommand) /\ taken' = taken
    BY <1>2 DEF Write, MustQueue, arm
  <2>2. reg = NoCmd /\ pCommand \in Cmds
    BY <1>0, <2>1 DEF StatHolds, TypeOK, CommandsOK
  <2>3. Reg = <<>> /\ Reg' = <<pCommand>> /\ <<pCommand>> \in Seq(Cmds)
    BY <2>1, <2>2 DEF Reg
  <2>4. accepted = taken
    BY <1>0, <1>t, <2>1, <2>3, ConcatEmptySeq DEF NoneLost, InLine
  <2>5. taken \o <<pCommand>> = Append(taken, pCommand)
    BY <1>t, <2>2, AppendIsConcat
  <2>6. (taken \o <<pCommand>>) \o <<>> = taken \o <<pCommand>>
    <3>1. taken \o <<pCommand>> \in Seq(Cmds)
      BY <1>t, <2>3, ConcatProperties
    <3>. QED
      BY <3>1, ConcatEmptySeq
  <2>. QED
    BY <2>1, <2>3, <2>4, <2>5, <2>6, Zenon DEF NoneLost, InLine
<1>3. CASE IsrCommandEmpty \/ IsrArmReady
  <2>1. WriteNextCommand(ier) /\ UNCHANGED <<taken, accepted>>
    BY <1>3 DEF IsrCommandEmpty, IsrArmReady, arm
  <2>. QED
    BY <1>0, <2>1, WriteNextKeeps
<1>4. CASE IsrBootAnswer
  <2>1. WriteNextCommand(Owned) /\ UNCHANGED <<taken, accepted>>
    BY <1>4 DEF IsrBootAnswer, ReadResponse
  <2>. QED
    BY <1>0, <2>1, WriteNextKeeps
<1>5. CASE ArmTake
  <2>1. /\ reg # NoCmd /\ taken' = Append(taken, reg) /\ reg' = NoCmd
        /\ UNCHANGED <<fifo, accepted>>
    BY <1>5 DEF ArmTake, queue
  <2>2. Reg = <<reg>> /\ Reg' = <<>> /\ reg \in Cmds
    BY <1>t, <2>1 DEF Reg
  <2>3. taken \o <<reg>> = Append(taken, reg) /\ Append(taken, reg) \in Seq(Cmds)
    BY <1>t, <2>2, AppendIsConcat
  <2>4. Append(taken, reg) \o <<>> = Append(taken, reg)
    BY <2>3, ConcatEmptySeq
  <2>. QED
    BY <1>0, <2>1, <2>2, <2>3, <2>4, Zenon DEF NoneLost, InLine
<1>6. CASE UNCHANGED <<fifo, accepted, taken, reg>>
  BY <1>0, <1>6 DEF NoneLost, Reg, InLine
<1>. QED
  BY <1>1, <1>2, <1>3, <1>4, <1>5, <1>6 DEF Next, vars, arm, queue, Lock, NoMemory, Isr, IsrEnter,
     IsrClear, IsrNoResponse, IsrDecode, ReadResponse, IsrSetEvent, IsrEnd, Dpc, DpcStart,
     DpcCopy, DpcMask, DpcStore, DpcRun, ArmAnswer, ArmReport

(* Only the ARM empties the register, and then CMDE occurs.                   *)
LEMMA StatHoldsStep == ASSUME IInv, [Next]_vars PROVE StatHolds'
<1>0. StatHolds /\ InTurn /\ event \in SUBSET Owned /\ NoCmd \notin Cmds
  BY ArmIoAssumption DEF IInv, TypeOK, IsrOK
<1>1. CASE pCommand' = NoCmd
  BY <1>1 DEF StatHolds
<1>2. CASE Lock
  BY <1>2 DEF Lock, StatHolds, isr
<1>3. CASE pCommand # NoCmd /\ IsrClear
  BY <1>0, <1>3 DEF StatHolds, IsrClear, writer
<1>4. CASE pCommand # NoCmd /\ IsrEnter
  <2>1. event = {}
    BY <1>4 DEF IInv, NextCommandDue, EventIsHandled, IsrEnter
  <2>. QED
    BY <1>0, <1>4, <2>1 DEF StatHolds, IsrEnter, writer
<1>5. CASE pCommand # NoCmd /\ (IsrNoResponse \/ IsrDecode \/ IsrSetEvent \/ IsrEnd)
  <2>1. "CMDE" \in latched \cup event => "CMDE" \in latched' \cup event'
    BY <1>5 DEF IsrNoResponse, IsrDecode, ReadResponse, IsrSetEvent, IsrEnd
  <2>2. UNCHANGED <<writer, reg>>
    BY <1>5 DEF IsrNoResponse, IsrDecode, ReadResponse, IsrSetEvent, IsrEnd
  <2>. QED
    BY <1>0, <2>1, <2>2 DEF StatHolds, writer
<1>6. CASE pCommand # NoCmd /\ ArmTake
  BY <1>0, <1>6 DEF StatHolds, ArmTake, writer
<1>7. CASE ArmAnswer
  BY <1>0, <1>7 DEF StatHolds, ArmAnswer, writer, isr
<1>8. ASSUME NEW r \in Events \cup {Ready}, ArmReport(r) PROVE StatHolds'
  BY <1>0, <1>8 DEF StatHolds, ArmReport, writer, isr
<1>9. CASE UNCHANGED <<writer, reg, latched, event>>
  BY <1>0, <1>9 DEF StatHolds, writer
<1>. QED
  BY <1>1, <1>2, <1>3, <1>4, <1>5, <1>6, <1>7, <1>8, <1>9 DEF Next, vars, isr, writer, Queue,
     NoMemory, Write, Isr, IsrCommandEmpty, IsrBootAnswer, IsrArmReady, IsrNoResponse, IsrDecode,
     ReadResponse, IsrSetEvent, IsrEnd, IsrEnter, IsrClear, ArmTake, WriteNextCommand, Dpc,
     DpcStart, DpcCopy, DpcMask, DpcStore, DpcRun

(* A queue that does not get shorter, and a CMDE that is not handled.         *)
LEMMA EmptyIsNoticedStep == ASSUME IInv, [Next]_vars PROVE EmptyIsNoticed'
<1>0. EmptyIsNoticed /\ StatHolds /\ TypeOK /\ NoCmd \notin Cmds
  BY ArmIoAssumption DEF IInv, NextCommandDue
<1>1. CASE Queue
  <2>1. pCommand # NoCmd /\ MustQueue /\ UNCHANGED <<reg, latched, event>>
    BY <1>1 DEF Queue, isr
  <2>. QED
    BY <1>0, <2>1 DEF EmptyIsNoticed, StatHolds, MustQueue
<1>2. CASE Write
  <2>1. pCommand \in Cmds /\ reg' = pCommand
    BY <1>0, <1>2 DEF Write, TypeOK, CommandsOK
  <2>. QED
    BY <1>0, <2>1 DEF EmptyIsNoticed
<1>3. CASE IsrCommandEmpty \/ IsrArmReady \/ IsrBootAnswer
  <2>1. WriteNextCommand(ier) \/ WriteNextCommand(Owned)
    BY <1>3 DEF IsrCommandEmpty, IsrArmReady, IsrBootAnswer
  <2>2. ier \in SUBSET Owned /\ "DATAF" \in ier /\ "DATAF" \in Owned
    BY <1>0 DEF TypeOK, ChipOK, Owned
  <2>3. ~(fifo' # <<>> /\ reg' = NoCmd)
    BY <1>0, <2>1, <2>2, WriteNextType
  <2>. QED
    BY <2>3 DEF EmptyIsNoticed
<1>4. CASE ArmTake
  BY <1>4 DEF ArmTake, EmptyIsNoticed
<1>5. CASE UNCHANGED <<fifo, reg>>
           /\ ("CMDE" \in latched \cup event => "CMDE" \in latched' \cup event')
  BY <1>0, <1>5 DEF EmptyIsNoticed
<1>6. CASE IsrEnter
  <2>1. event = {}
    BY <1>6 DEF IInv, NextCommandDue, EventIsHandled, IsrEnter
  <2>. QED
    BY <1>0, <1>6, <2>1 DEF EmptyIsNoticed, IsrEnter, queue
<1>. QED
  BY <1>1, <1>2, <1>3, <1>4, <1>5, <1>6 DEF Next, vars, isr, queue, Lock, NoMemory, Isr, IsrClear,
     IsrNoResponse, IsrDecode, ReadResponse, IsrSetEvent, IsrEnd, ArmAnswer, ArmReport, Dpc,
     DpcStart, DpcCopy, DpcMask, DpcStore, DpcRun

(* A boot loader command keeps CMDE masked until its answer has been read.    *)
LEMMA MaskIsLiftedStep == ASSUME IInv, [Next]_vars PROVE MaskIsLifted'
<1>0. MaskIsLifted /\ StatHolds /\ TypeOK /\ NoCmd \notin BootCmds /\ resp \in Seq(Events \cup {Boot, Ready})
  BY ArmIoAssumption DEF IInv, NextCommandDue, TypeOK, ChipOK
<1>1. CASE Write
  <2>1. /\ pCommand # NoCmd /\ CommandEmpty /\ reg' = pCommand /\ ier' = Masked(pCommand, ier)
        /\ UNCHANGED <<busy, resp, irq>>
    BY <1>1 DEF Write, MustQueue, arm, isr
  <2>2. reg = NoCmd
    BY <1>0, <2>1 DEF StatHolds
  <2>. QED
    BY <1>0, <2>1, <2>2 DEF MaskIsLifted, Masked
<1>2. CASE Isr
  <2>1. irq' # "idle" \/ ier' = Owned
    BY <1>2 DEF Isr, IsrEnter, IsrClear, IsrCommandEmpty, IsrNoResponse, IsrBootAnswer, IsrDecode,
       ReadResponse, IsrSetEvent, IsrArmReady, IsrEnd
  <2>. QED
    BY <2>1 DEF MaskIsLifted, Owned
<1>3. CASE ArmTake
  BY <1>0, <1>3 DEF MaskIsLifted, ArmTake, isr
<1>4. CASE ArmAnswer
  <2>1. \E i \in 1 .. Len(resp') : resp'[i] = Boot
    <3>1. CASE resp # <<>> /\ resp[Len(resp)] = Boot
      <4>1. resp' = resp /\ Len(resp) \in 1 .. Len(resp)
        BY <1>0, <1>4, <3>1 DEF ArmAnswer
      <4>. QED
        BY <3>1, <4>1
    <3>2. CASE ~(resp # <<>> /\ resp[Len(resp)] = Boot)
      <4>1. resp' = Append(resp, Boot)
        BY <1>4, <3>2 DEF ArmAnswer
      <4>2. Len(resp') \in 1 .. Len(resp') /\ resp'[Len(resp')] = Boot
        BY <1>0, <4>1
      <4>. QED
        BY <4>2
    <3>. QED
      BY <3>1, <3>2
  <2>. QED
    BY <2>1 DEF MaskIsLifted
<1>5. ASSUME NEW r \in Events \cup {Ready}, ArmReport(r) PROVE MaskIsLifted'
  <2>1. resp' = Append(resp, r) /\ UNCHANGED <<ier, irq, reg, busy>>
    BY <1>5 DEF ArmReport, isr
  <2>2. (\E i \in 1 .. Len(resp) : resp[i] = Boot)
           => \E i \in 1 .. Len(resp') : resp'[i] = Boot
    <3>1. \A i \in 1 .. Len(resp) : i \in 1 .. Len(resp') /\ resp'[i] = resp[i]
      BY <1>0, <2>1
    <3>. QED
      BY <3>1
  <2>. QED
    BY <1>0, <2>1, <2>2 DEF MaskIsLifted
<1>6. CASE UNCHANGED <<ier, irq, reg, busy, resp>>
  BY <1>0, <1>6 DEF MaskIsLifted
<1>. QED
  BY <1>1, <1>2, <1>3, <1>4, <1>5, <1>6 DEF Next, vars, arm, isr, Lock, Queue, NoMemory, Dpc,
     DpcStart, DpcCopy, DpcMask, DpcStore, DpcRun

(* Whoever adds a response announces it, whoever reads one announces the rest. *)
LEMMA ResponseIsNoticedStep == ASSUME IInv, [Next]_vars PROVE ResponseIsNoticed'
<1>0. ResponseIsNoticed /\ EventIsHandled
  BY DEF IInv, NextCommandDue
<1>1. CASE IsrEnter
  BY <1>0, <1>1 DEF ResponseIsNoticed, EventIsHandled, IsrEnter, arm
<1>2. CASE IsrClear
  BY <1>0, <1>2 DEF ResponseIsNoticed, IsrClear, arm
<1>3. CASE IsrCommandEmpty
  BY <1>0, <1>3 DEF ResponseIsNoticed, IsrCommandEmpty, arm
<1>4. CASE ReadResponse
  BY <1>4 DEF ResponseIsNoticed, ReadResponse
<1>5. CASE IsrNoResponse
  BY <1>5 DEF ResponseIsNoticed, IsrNoResponse, arm
<1>6. CASE ArmTake
  BY <1>0, <1>6 DEF ResponseIsNoticed, ArmTake, isr
<1>7. CASE latched' = latched \cup {"DATAF"}
  BY <1>7 DEF ResponseIsNoticed
<1>8. CASE UNCHANGED <<resp, latched, event>>
  BY <1>0, <1>8 DEF ResponseIsNoticed
<1>. QED
  BY <1>1, <1>2, <1>3, <1>4, <1>5, <1>6, <1>7, <1>8 DEF Next, vars, arm, isr, Lock, Queue, NoMemory,
     Write, Isr, IsrBootAnswer, IsrDecode, IsrSetEvent, IsrArmReady, IsrEnd, ArmAnswer, ArmReport,
     Dpc, DpcStart, DpcCopy, DpcMask, DpcStore, DpcRun

(* Events are found by the ISR, and it ends when there is none left.          *)
LEMMA EventIsHandledStep == ASSUME IInv, [Next]_vars PROVE EventIsHandled'
<1>0. EventIsHandled
  BY DEF IInv, NextCommandDue
<1>1. CASE Isr
  BY <1>0, <1>1 DEF EventIsHandled, Isr, IsrEnter, IsrClear, IsrCommandEmpty, IsrNoResponse,
     IsrBootAnswer, IsrDecode, ReadResponse, IsrSetEvent, IsrArmReady, IsrEnd
<1>2. CASE UNCHANGED isr
  BY <1>0, <1>2 DEF EventIsHandled, isr
<1>. QED
  BY <1>1, <1>2 DEF Next, vars, Lock, Queue, NoMemory, Write, ArmTake, ArmAnswer, ArmReport, Dpc,
     DpcStart, DpcCopy, DpcMask, DpcStore, DpcRun

LEMMA InTurnStep == ASSUME IInv, [Next]_vars PROVE InTurn'
<1>0. InTurn /\ EventIsHandled
  BY DEF IInv, NextCommandDue
<1>1. CASE Isr
  BY <1>0, <1>1 DEF InTurn, EventIsHandled, Isr, IsrEnter, IsrClear, IsrCommandEmpty, IsrNoResponse,
     IsrBootAnswer, IsrDecode, ReadResponse, IsrSetEvent, IsrArmReady, IsrEnd, soft
<1>2. CASE Dpc
  BY <1>0, <1>2 DEF InTurn, Dpc, DpcStart, DpcCopy, DpcMask, DpcStore, DpcRun, isr
<1>3. CASE UNCHANGED <<isr, soft>>
  BY <1>0, <1>3 DEF InTurn, isr, soft
<1>. QED
  BY <1>1, <1>2, <1>3 DEF Next, vars, Lock, Queue, NoMemory, Write, ArmTake, ArmAnswer, ArmReport

(* On one processor the tasklet keeps the ISR out while it clears bits, and   *)
(* does not run while the ISR is at work.                                     *)
LEMMA UndisturbedStep == ASSUME IInv, [Next]_vars PROVE Undisturbed'
<1>0. Undisturbed /\ EventIsHandled /\ InTurn /\ TypeOK
  BY DEF IInv, NextCommandDue
<1>s. smp' = smp
  BY DEF Next, vars, Lock, Queue, NoMemory, Write, Isr, IsrEnter, IsrClear, IsrCommandEmpty,
     IsrNoResponse, IsrBootAnswer, IsrDecode, ReadResponse, IsrSetEvent, IsrArmReady, IsrEnd,
     Dpc, DpcStart, DpcCopy, DpcMask, DpcStore, DpcRun, ArmTake, ArmAnswer, ArmReport
<1>1. CASE ~smp /\ IsrEnter
  BY <1>0, <1>1 DEF Undisturbed, IsrEnter, CanInterrupt, soft
<1>2. CASE ~smp /\ IsrDecode
  BY <1>0, <1>2 DEF Undisturbed, IsrDecode, ReadResponse, soft
<1>3. CASE ~smp /\ Isr /\ ~IsrEnter /\ ~IsrDecode
  BY <1>0, <1>3 DEF Undisturbed, Isr, IsrClear, IsrCommandEmpty, IsrNoResponse, IsrBootAnswer,
     ReadResponse, IsrSetEvent, IsrArmReady, IsrEnd, soft
<1>4. CASE ~smp /\ Dpc
  <2>1. irq = "idle" /\ UNCHANGED isr
    BY <1>4 DEF Dpc, DpcStart, DpcCopy, DpcMask, DpcStore, DpcRun, CanRun
  <2>2. post = None
    BY <1>0, <2>1 DEF EventIsHandled
  <2>3. dpc' = "store" => loaded' = status' \ copy'
    BY <1>4 DEF Dpc, DpcStart, DpcCopy, DpcMask, DpcStore, DpcRun
  <2>. QED
    BY <1>0, <1>s, <2>1, <2>2, <2>3 DEF Undisturbed, isr
<1>5. CASE UNCHANGED <<isr, soft>>
  BY <1>0, <1>5, <1>s DEF Undisturbed, isr, soft
<1>6. CASE smp
  BY <1>s, <1>6 DEF Undisturbed
<1>. QED
  BY <1>1, <1>2, <1>3, <1>4, <1>5, <1>6 DEF Next, vars, Lock, Queue, NoMemory, Write,
     ArmTake, ArmAnswer, ArmReport

(* A bit leaves InterruptStatus for the copy, and the copy when its handlers  *)
(* run; whoever sets one sees to it that the tasklet looks.                   *)
LEMMA BitKeptStep == ASSUME IInv, [Next]_vars, ~smp', ~smp PROVE BitKept'
<1>0. BitKept /\ InTurn /\ Undisturbed /\ unserved \in SUBSET Events /\ Events \cap {None, Ready} = {}
  BY ArmIoAssumption DEF IInv, EventsKept, TypeOK, IsrOK
<1>1. CASE IsrDecode
  <2>1. /\ post = None /\ post' = Head(resp) /\ UNCHANGED <<status, copy>>
        /\ unserved' = unserved \cup ({Head(resp)} \cap Events)
    BY <1>0, <1>1 DEF IsrDecode, ReadResponse, InTurn, soft
  <2>. QED
    BY <1>0, <2>1 DEF BitKept
<1>2. CASE IsrSetEvent
  <2>1. old = status
    BY <1>0, <1>2, ArmIoAssumption DEF Undisturbed, IsrSetEvent
  <2>. QED
    BY <1>0, <1>2, <2>1 DEF BitKept, IsrSetEvent
<1>3. CASE IsrArmReady
  BY <1>0, <1>3 DEF BitKept, IsrArmReady, soft
<1>4. CASE DpcCopy
  BY <1>0, <1>4 DEF BitKept, DpcCopy, InTurn, isr
<1>5. CASE DpcStore
  BY <1>0, <1>5 DEF BitKept, DpcStore, Undisturbed, isr
<1>6. ASSUME NEW e \in Events, DpcRun(e) PROVE BitKept'
  BY <1>0, <1>6 DEF BitKept, DpcRun, isr
<1>7. CASE UNCHANGED <<unserved, status, copy, post>>
  BY <1>0, <1>7 DEF BitKept
<1>. QED
  BY <1>1, <1>2, <1>3, <1>4, <1>5, <1>6, <1>7 DEF Next, vars, isr, soft, Lock, Queue, NoMemory,
     Write, Isr, IsrEnter, IsrClear, IsrCommandEmpty, IsrNoResponse, IsrBootAnswer,
     ReadResponse, IsrEnd, Dpc, DpcStart, DpcMask, ArmTake, ArmAnswer, ArmReport

LEMMA LooksNextStep == ASSUME IInv, [Next]_vars PROVE LooksNext'
<1>0. LooksNext /\ InTurn
  BY DEF IInv, EventsKept
<1>1. CASE Isr
  BY <1>0, <1>1 DEF LooksNext, InTurn, Isr, IsrEnter, IsrClear, IsrCommandEmpty, IsrNoResponse,
     IsrBootAnswer, IsrDecode, ReadResponse, IsrSetEvent, IsrArmReady, IsrEnd, soft
<1>2. CASE Dpc
  BY <1>0, <1>2 DEF LooksNext, InTurn, Dpc, DpcStart, DpcCopy, DpcMask, DpcStore, DpcRun, isr
<1>3. CASE UNCHANGED <<isr, soft>>
  BY <1>0, <1>3 DEF LooksNext, isr, soft
<1>. QED
  BY <1>1, <1>2, <1>3 DEF Next, vars, Lock, Queue, NoMemory, Write, ArmTake, ArmAnswer, ArmReport

LEMMA EventsKeptStep == ASSUME IInv, [Next]_vars PROVE EventsKept'
<1>1. smp' = smp
  BY DEF Next, vars, Lock, Queue, NoMemory, Write, Isr, IsrEnter, IsrClear, IsrCommandEmpty,
     IsrNoResponse, IsrBootAnswer, IsrDecode, ReadResponse, IsrSetEvent, IsrArmReady, IsrEnd,
     Dpc, DpcStart, DpcCopy, DpcMask, DpcStore, DpcRun, ArmTake, ArmAnswer, ArmReport
<1>2. ~smp' => BitKept'
  BY <1>1, BitKeptStep
<1>. QED
  BY <1>2, LooksNextStep DEF EventsKept
-------------------------------------------------------------------------------
LEMMA InitIInv == Init => IInv
<1> SUFFICES ASSUME Init PROVE IInv
  OBVIOUS
<1>1. TypeOK
  BY InitType
<1>2. NoneLost
  <2>1. Reg = <<>> /\ taken = <<>> /\ fifo = <<>> /\ accepted = <<>>
    BY DEF Init, Reg
  <2>2. <<>> \o <<>> = <<>>
    BY <1>1, CommandTypes, ConcatEmptySeq
  <2>. QED
    BY <2>1, <2>2 DEF NoneLost, InLine
<1>3. StatHolds /\ InTurn /\ Undisturbed
  BY DEF Init, StatHolds, InTurn, Undisturbed
<1>4. NextCommandDue
  BY DEF Init, NextCommandDue, EmptyIsNoticed, MaskIsLifted, ResponseIsNoticed, EventIsHandled, Owned
<1>5. EventsKept
  BY DEF Init, EventsKept, BitKept, LooksNext
<1>. QED
  BY <1>1, <1>2, <1>3, <1>4, <1>5 DEF IInv

LEMMA IInvStep == IInv /\ [Next]_vars => IInv'
<1> SUFFICES ASSUME IInv, [Next]_vars PROVE IInv'
  OBVIOUS
<1>1. TypeOK'
  BY TypeStep DEF IInv
<1>2. NoneLost' /\ StatHolds' /\ InTurn'
  BY NoneLostStep, StatHoldsStep, InTurnStep
<1>3. NextCommandDue'
  BY EmptyIsNoticedStep, MaskIsLiftedStep, ResponseIsNoticedStep, EventIsHandledStep
  DEF NextCommandDue
<1>4. Undisturbed' /\ EventsKept'
  BY UndisturbedStep, EventsKeptStep
<1>. QED
  BY <1>1, <1>2, <1>3, <1>4 DEF IInv

LEMMA Invariant == Spec => []IInv
<1>. QED
  BY InitIInv, IInvStep, PTL DEF Spec

(* A command that waits, a masked CMDE and an unread response are never       *)
(* forgotten: some interrupt is still due that deals with each.               *)
THEOREM NextCommandIsDue == Spec => []NextCommandDue
<1>1. IInv => NextCommandDue
  BY DEF IInv
<1>. QED
  BY <1>1, Invariant, PTL

(* An event decoded on one processor keeps its bit until its handlers have    *)
(* run, and on any machine the tasklet is going to look for bits that are set. *)
THEOREM EventsAreKept == Spec => []EventsKept
<1>1. IInv => EventsKept
  BY DEF IInv
<1>. QED
  BY <1>1, Invariant, PTL
-------------------------------------------------------------------------------
LEMMA ChanStep == IInv /\ [Next]_vars => [Chan!Next]_(Chan!vars)
<1> SUFFICES ASSUME IInv, [Next]_vars PROVE [Chan!Next]_(Chan!vars)
  OBVIOUS
<1>0. TypeOK /\ NoneLost
  BY DEF IInv
<1>1. CASE Queue \/ Write
  <2>1. pCommand \in Cmds /\ accepted' = Append(accepted, pCommand) /\ UNCHANGED taken
    BY <1>0, <1>1 DEF Queue, Write, arm, TypeOK, CommandsOK
  <2>2. Chan!Send
    BY <2>1 DEF Chan!Send
  <2>. QED
    BY <2>2 DEF Chan!Next
<1>2. CASE ArmTake
  <2>1. reg # NoCmd /\ taken' = Append(taken, reg) /\ UNCHANGED accepted
    BY <1>2 DEF ArmTake, queue
  <2>2. taken \in Seq(Cmds) /\ reg \in Cmds /\ fifo \in Seq(Cmds)
    BY <1>0, <2>1, CommandTypes
  <2>3. accepted = InLine(taken, <<reg>>, fifo)
    BY <1>0, <2>1 DEF NoneLost, Reg
  <2>4. Len(taken) < Len(accepted) /\ accepted[Len(taken) + 1] = reg
    BY <2>2, <2>3, NextInLine
  <2>5. Chan!Deliver
    BY <2>1, <2>4 DEF Chan!Deliver
  <2>. QED
    BY <2>5 DEF Chan!Next
<1>3. CASE UNCHANGED <<accepted, taken>>
  BY <1>3 DEF Chan!vars
<1>. QED
  BY <1>1, <1>2, <1>3 DEF Next, vars, queue, arm, Lock, NoMemory, Isr, IsrEnter, IsrClear,
     IsrCommandEmpty, IsrNoResponse, IsrBootAnswer, IsrDecode, ReadResponse, IsrSetEvent,
     IsrArmReady, IsrEnd, Dpc, DpcStart, DpcCopy, DpcMask, DpcStore, DpcRun, ArmAnswer, ArmReport

(* Whatever the callers, the boot loader and the interrupts do, the commands  *)
(* accepted reach the ARM once each and in their order: register and queue    *)
(* together are the channel.                                                  *)
THEOREM CommandsReachTheArm == Spec => CommandsInOrder
<1>1. Init => Chan!Init
  BY DEF Init, Chan!Init
<1>. QED
  BY <1>1, Invariant, ChanStep, PTL DEF Spec, CommandsInOrder, Chan!Spec
===============================================================================
