----------------------------- MODULE BufMgmtProofs -----------------------------
(* The invariants of BufMgmt, for every number of packets, cells, buffers and *)
(* openings of the circuit.                                                   *)
EXTENDS MCBufMgmt, SequenceTheorems, TLAPS
--------------------------------------------------------------------------------
(* A queue is its head and the rest.                                          *)
LEMMA HeadAndTail ==
  ASSUME NEW S, NEW q \in Seq(S), q # <<>>
  PROVE  /\ Head(q) \in S /\ Tail(q) \in Seq(S) /\ <<Head(q)>> \in Seq(S)
         /\ <<Head(q)>> \o Tail(q) = q
<1>1. Head(q) \in S /\ Tail(q) \in Seq(S)
  OBVIOUS
<1>2. <<Head(q)>> \in Seq(S)
  BY <1>1
<1>3. <<Head(q)>> \o Tail(q) = q
  <2>1. Len(<<Head(q)>> \o Tail(q)) = Len(q)
    OBVIOUS
  <2>2. \A i \in 1 .. Len(q) : (<<Head(q)>> \o Tail(q))[i] = q[i]
    OBVIOUS
  <2>3. <<Head(q)>> \o Tail(q) \in Seq(S)
    BY <1>1, <1>2
  <2>. QED
    BY <2>1, <2>2, <2>3, SeqEqual
<1>. QED
  BY <1>1, <1>2, <1>3

(* Queues in a row can be joined in any order.                                *)
LEMMA JoinQueues ==
  ASSUME NEW S, NEW r \in Seq(S), NEW u \in Seq(S), NEW q \in Seq(S)
  PROVE  r \o u \in Seq(S) /\ (r \o u) \o q = r \o (u \o q)
<1>1. r \o u \in Seq(S)
  BY ConcatProperties
<1>2. (r \o u) \o q = r \o (u \o q)
  BY ConcatAssociative
<1>. QED
  BY <1>1, <1>2, Zenon

(* Three queues in a row, the one that is furthest on its way first.          *)
InLine(r, u, q) == (r \o u) \o q

(* Four queues in a row can be joined from either end.                        *)
Joined(r, u, h, t) == (r \o (u \o h)) \o t = (r \o u) \o (h \o t)

LEMMA FourQueues ==
  ASSUME NEW S, NEW r \in Seq(S), NEW u \in Seq(S), NEW h \in Seq(S), NEW t \in Seq(S)
  PROVE  Joined(r, u, h, t)
<1>1. (r \o u) \o h = r \o (u \o h) /\ r \o u \in Seq(S)
  BY JoinQueues
<1> DEFINE x == r \o u
<1>2. x \in Seq(S)
  BY <1>1
<1> HIDE DEF x
<1>3. (x \o h) \o t = x \o (h \o t)
  BY <1>2, JoinQueues
<1>. QED
  BY <1>1, <1>3, Zenon DEF x, Joined

(* The head of a queue moves to the end of the queue before it.               *)
LEMMA MoveHead ==
  ASSUME NEW S, NEW r \in Seq(S), NEW u \in Seq(S), NEW q \in Seq(S), q # <<>>
  PROVE  InLine(r, Append(u, Head(q)), Tail(q)) = InLine(r, u, q)
<1>1. <<Head(q)>> \in Seq(S) /\ Tail(q) \in Seq(S) /\ Head(q) \in S
  BY HeadAndTail
<1>2. <<Head(q)>> \o Tail(q) = q
  BY HeadAndTail
<1>3. Append(u, Head(q)) = u \o <<Head(q)>>
  BY <1>1, AppendIsConcat
<1>4. Joined(r, u, <<Head(q)>>, Tail(q))
  BY <1>1, FourQueues
<1>. QED
  BY <1>2, <1>3, <1>4, Zenon DEF InLine, Joined

(* What is added to the last queue is added to the whole.                     *)
LEMMA JoinAppend ==
  ASSUME NEW S, NEW x \in Seq(S), NEW q \in Seq(S), NEW e \in S
  PROVE  x \o Append(q, e) = Append(x \o q, e)
<1>1. <<e>> \in Seq(S) /\ x \o q \in Seq(S)
  BY ConcatProperties
<1>2. Append(q, e) = q \o <<e>> /\ Append(x \o q, e) = (x \o q) \o <<e>>
  BY <1>1, AppendIsConcat
<1>3. (x \o q) \o <<e>> = x \o (q \o <<e>>)
  BY <1>1, JoinQueues
<1>. QED
  BY <1>2, <1>3, Zenon

(* The head of a queue goes to the end of the queue before it.                *)
LEMMA ReleaseHead ==
  ASSUME NEW S, NEW r \in Seq(S), NEW u \in Seq(S), u # <<>>
  PROVE  Append(r, Head(u)) \o Tail(u) = r \o u
<1>1. <<>> \in Seq(S)
  OBVIOUS
<1>2. (r \o Append(<<>>, Head(u))) \o Tail(u) = (r \o <<>>) \o u
  BY <1>1, MoveHead DEF InLine
<1>3. r \o <<>> = r
  BY ConcatEmptySeq
<1>4. Append(<<>>, Head(u)) = <<Head(u)>> /\ Head(u) \in S
  BY HeadAndTail
<1>5. r \o <<Head(u)>> = Append(r, Head(u))
  BY <1>4, AppendIsConcat
<1>. QED
  BY <1>2, <1>3, <1>4, <1>5

(* Where things are in a queue that lost its head, or got a new last element. *)
LEMMA TailIs ==
  ASSUME NEW S, NEW q \in Seq(S), q # <<>>
  PROVE  /\ \A i \in DOMAIN Tail(q) : i + 1 \in DOMAIN q /\ Tail(q)[i] = q[i + 1] /\ i + 1 > 1
         /\ \A i, j \in DOMAIN Tail(q) : i < j => i + 1 < j + 1
         /\ \A i \in DOMAIN q : i # 1 => i > 1
         /\ Head(q) = q[1] /\ 1 \in DOMAIN q
OBVIOUS

LEMMA AppendIs ==
  ASSUME NEW S, NEW q \in Seq(S), NEW e
  PROVE  /\ \A i \in DOMAIN Append(q, e) :
              \/ i \in DOMAIN q /\ Append(q, e)[i] = q[i]
              \/ i = Len(q) + 1 /\ Append(q, e)[i] = e
         /\ \A i, j \in DOMAIN Append(q, e) : i < j => i \in DOMAIN q
OBVIOUS

(* Where things are in two queues in a row.                                   *)
LEMMA ConcatIs ==
  ASSUME NEW S, NEW x \in Seq(S), NEW y \in Seq(S)
  PROVE  /\ x \o y \in Seq(S) /\ Len(x \o y) = Len(x) + Len(y)
         /\ \A k \in 1 .. Len(x) : (x \o y)[k] = x[k]
         /\ \A k \in 1 .. Len(y) : (x \o y)[Len(x) + k] = y[k]
<1>1. x \o y \in Seq(S)
  BY ConcatProperties
<1>2. Len(x \o y) = Len(x) + Len(y) /\ Len(x) \in Nat /\ Len(y) \in Nat
  OBVIOUS
<1>3. \A k \in 1 .. Len(x) : (x \o y)[k] = x[k]
  OBVIOUS
<1>4. \A k \in 1 .. Len(y) : (x \o y)[Len(x) + k] = y[k]
  OBVIOUS
<1>. QED
  BY <1>1, <1>2, <1>3, <1>4
-------------------------------------------------------------------------------
(* What a receive buffer and the queues around it can be.                     *)
LEMMA RxBufferType ==
  ASSUME TypeOK, RxBuffer.bufs <= Buffers
  PROVE  /\ RxBuffer.bfr \in 1 .. Buffers /\ RxBuffer.bufs \in 0 .. Buffers
         /\ RxBuffer.rdy \in Seq(1 .. Buffers) /\ RxBuffer.inuse \in Seq(1 .. Buffers)
<1> USE BufAssumption DEF TypeOK, QueuesOK, AalOK, LinuxOK, RxBuffer
<1>1. CASE rxBfr # NoBuffer
  BY <1>1 DEF NoBuffer
<1>2. CASE rxBfr = NoBuffer /\ rxRdy # <<>>
  <2>1. Head(rxRdy) \in 1 .. Buffers /\ Tail(rxRdy) \in Seq(1 .. Buffers)
    BY <1>2, HeadAndTail
  <2>. QED
    BY <1>2, <2>1
<1>3. CASE rxBfr = NoBuffer /\ rxRdy = <<>>
  <2>1. bufs + 1 \in 1 .. Buffers
    BY <1>3
  <2>. QED
    BY <1>3, <2>1
<1>. QED
  BY <1>1, <1>2, <1>3

(* What the oldest packet sent is.                                            *)
LEMMA FirstCellType ==
  ASSUME TypeOK, GetFirstCell
  PROVE  /\ txBfr' \in Packet /\ txRdy' \in Seq(Packet) /\ txInuse' \in Seq(Packet)
         /\ left' \in Nat
<1>1. Head(txRdy) \in Packet /\ Tail(txRdy) \in Seq(Packet)
  BY HeadAndTail DEF TypeOK, QueuesOK, GetFirstCell, TxGetFullBuf
<1>2. txBfr'.cells \in 1 .. MaxCells
  BY <1>1 DEF GetFirstCell, TxGetFullBuf, Packet
<1>. QED
  BY <1>1, <1>2, BufAssumption DEF TypeOK, QueuesOK, GetFirstCell, TxGetFullBuf

(* What BufMgmtTxPutEmptyBuf makes of the queue and of the packets released.  *)
LEMMA TxPutType ==
  ASSUME TypeOK, TxPutEmptyBuf
  PROVE  txInuse' \in Seq(Packet) /\ released' \in Seq(Packet) /\ inproc' \in Int
<1>1. CASE txInuse = <<>>
  BY <1>1 DEF TypeOK, QueuesOK, LinuxOK, TxPutEmptyBuf
<1>2. CASE txInuse # <<>>
  <2>1. Head(txInuse) \in Packet /\ Tail(txInuse) \in Seq(Packet)
    BY <1>2, HeadAndTail DEF TypeOK, QueuesOK
  <2>2. /\ txInuse' = Tail(txInuse) /\ released' = Append(released, Head(txInuse))
        /\ inproc' = inproc - 1
    BY <1>2 DEF TxPutEmptyBuf
  <2>3. released \in Seq(Packet) /\ inproc \in Int
    BY DEF TypeOK, QueuesOK, LinuxOK
  <2>. QED
    BY <2>1, <2>2, <2>3
<1>. QED
  BY <1>1, <1>2

(* Only opening and closing change the state of the circuit.                  *)
LEMMA CircuitStep == TypeOK /\ [Next]_vars => CircuitOK'
<1> SUFFICES ASSUME TypeOK, [Next]_vars PROVE CircuitOK'
  OBVIOUS
<1> USE BufAssumption DEF TypeOK, CircuitOK
<1>1. CASE Open
  <2>1. CASE OpenVc
    BY <2>1 DEF OpenVc, BufMgmtVcInit, FrameALVCInit, FrameALATMVCInit
  <2>2. CASE OpenAal
    BY <2>2 DEF OpenAal
  <2>3. CASE OpenNoBufMgmt
    BY <2>3 DEF OpenNoBufMgmt
  <2>4. CASE OpenNoFrameAL
    <3>1. opens' \in 0 .. MaxOpen /\ fails' \in 0 .. MaxFail
      BY <2>4 DEF OpenNoFrameAL
    <3>. QED
      BY <2>4, <3>1 DEF OpenNoFrameAL
  <2>. QED
    BY <1>1, <2>1, <2>2, <2>3, <2>4 DEF Open
<1>2. CASE Close
  BY <1>2 DEF Close, CloseVc, CloseCheck, CloseRelease, CloseDrain, CloseFree
<1>3. CASE UNCHANGED circuit
  BY <1>3 DEF circuit
<1>. QED
  BY <1>1, <1>2, <1>3 DEF Next, vars, TxCall, GetNothing, GetFirstCell, GetNextCell,
     PutLastCell, PutCell, RxCall, RxNoBuffer, RxKeep, RxFrame, PutNothing, Send, BufMgmtSend,
     Enter, Return

(* Only the calls of the handlers, and a new context, change what is active.  *)
LEMMA CallsStep == TypeOK /\ [Next]_vars => CallsOK'
<1> SUFFICES ASSUME TypeOK, [Next]_vars PROVE CallsOK'
  OBVIOUS
<1> USE DEF TypeOK, CallsOK
<1>1. CASE OpenVc
  BY <1>1 DEF OpenVc, BufMgmtVcInit, FrameALVCInit
<1>2. CASE TxCall
  BY <1>2 DEF TxCall, GetNothing, GetFirstCell, GetNextCell, PutLastCell, PutCell, Starts, Calls
<1>3. CASE RxCall
  BY <1>3 DEF RxCall, RxNoBuffer, RxKeep, RxFrame, Starts, Calls
<1>4. ASSUME NEW c \in Calls, Enter(c) \/ Return(c) PROVE CallsOK'
  BY <1>4 DEF Enter, Return
<1>5. CASE PutNothing
  BY <1>5 DEF PutNothing
<1>6. CASE UNCHANGED calls
  BY <1>6 DEF calls
<1>. QED
  BY <1>1, <1>2, <1>3, <1>4, <1>5, <1>6 DEF Next, vars, Open, OpenAal, OpenNoBufMgmt,
     OpenNoFrameAL, Close, CloseVc, CloseCheck, CloseRelease, FrameALAALVCShutdown,
     RxPutEmptyBuf, CloseDrain, CloseFree, Send, BufMgmtSend

(* The queues hold packets and buffers only.                                  *)
LEMMA QueuesStep == TypeOK /\ [Next]_vars => QueuesOK'
<1> SUFFICES ASSUME TypeOK, [Next]_vars PROVE QueuesOK'
  OBVIOUS
<1>0. QueuesOK /\ <<>> \in Seq(Packet) /\ <<>> \in Seq(1 .. Buffers)
  BY DEF TypeOK
<1>1. CASE OpenVc \/ OpenNoFrameAL
  <2>1. txRdy' = <<>> /\ txInuse' = <<>> /\ rxRdy' = <<>> /\ rxInuse' = <<>> /\ inproc' = 0
    BY <1>1 DEF OpenVc, BufMgmtVcInit, FrameALVCInit, OpenNoFrameAL
  <2>. QED
    BY <1>0, <2>1 DEF QueuesOK
<1>2. ASSUME NEW n \in 1 .. MaxCells, Send(n) PROVE QueuesOK'
  <2>1. [id |-> Len(accepted) + 1, cells |-> n] \in Packet
    BY <1>2, BufAssumption DEF Send, TypeOK, LinuxOK, Packet
  <2>. QED
    BY <1>0, <1>2, <2>1 DEF QueuesOK, Send, BufMgmtSend
<1>3. CASE GetFirstCell
  BY <1>0, <1>3, FirstCellType DEF QueuesOK, GetFirstCell, TxGetFullBuf
<1>4. CASE PutLastCell
  BY <1>0, <1>4, TxPutType DEF QueuesOK, PutLastCell
<1>5. CASE RxKeep
  BY <1>0, <1>5, RxBufferType DEF QueuesOK, RxKeep
<1>6. CASE RxFrame
  <2>1. /\ RxBuffer.bufs \in 0 .. Buffers
        /\ RxBuffer.rdy \in Seq(1 .. Buffers) /\ RxBuffer.inuse \in Seq(1 .. Buffers)
    BY <1>6, RxBufferType DEF RxFrame
  <2>2. rxInuse' \in Seq(1 .. Buffers)
    <3>1. CASE RxBuffer.inuse = <<>>
      BY <1>0, <1>6, <3>1 DEF RxFrame, QueuesOK
    <3>2. CASE RxBuffer.inuse # <<>>
      <4>1. rxInuse' = Tail(RxBuffer.inuse)
        BY <1>6, <3>2 DEF RxFrame
      <4>. QED
        BY <2>1, <3>2, <4>1, HeadAndTail
    <3>. QED
      BY <3>1, <3>2
  <2>3. rxRdy' \in Seq(1 .. Buffers)
    <3>1. CASE rxRdy' = RxBuffer.rdy
      BY <2>1, <3>1
    <3>2. CASE RxBuffer.bufs < Buffers /\ rxRdy' = <<RxBuffer.bufs + 1>>
      <4>1. RxBuffer.bufs + 1 \in 1 .. Buffers
        BY <2>1, <3>2, BufAssumption
      <4>. QED
        BY <3>2, <4>1
    <3>. QED
      BY <1>6, <3>1, <3>2 DEF RxFrame
  <2>. QED
    BY <1>0, <1>6, <2>2, <2>3 DEF QueuesOK, RxFrame
<1>7. CASE CloseRelease
  <2>1. txInuse' \in Seq(Packet) /\ inproc' \in Int
    BY <1>0, <1>7, TxPutType DEF QueuesOK, CloseRelease, FrameALAALVCShutdown, RxPutEmptyBuf
  <2>2. rxInuse' \in Seq(1 .. Buffers) /\ rxRdy' \in Seq(1 .. Buffers)
    <3>1. CASE rxInuse # <<>> /\ rxInuse' = Tail(rxInuse) /\ rxRdy' = Append(rxRdy, Head(rxInuse))
      <4>1. rxInuse \in Seq(1 .. Buffers) /\ rxRdy \in Seq(1 .. Buffers)
        BY <1>0 DEF QueuesOK
      <4>2. Head(rxInuse) \in 1 .. Buffers /\ Tail(rxInuse) \in Seq(1 .. Buffers)
        BY <3>1, <4>1, HeadAndTail
      <4>. QED
        BY <3>1, <4>1, <4>2
    <3>2. CASE UNCHANGED <<rxInuse, rxRdy>>
      BY <1>0, <3>2 DEF QueuesOK
    <3>. QED
      <4>1. IF rxBfr # NoBuffer /\ rxInuse # <<>>
            THEN rxInuse' = Tail(rxInuse) /\ rxRdy' = Append(rxRdy, Head(rxInuse))
            ELSE UNCHANGED <<rxInuse, rxRdy>>
        BY <1>7 DEF CloseRelease, FrameALAALVCShutdown, RxPutEmptyBuf
      <4>. QED
        BY <3>1, <3>2, <4>1
  <2>. QED
    BY <1>0, <1>7, <2>1, <2>2 DEF QueuesOK, CloseRelease, FrameALAALVCShutdown, RxPutEmptyBuf
<1>8. CASE CloseDrain
  BY <1>0, <1>8 DEF QueuesOK, CloseDrain
<1>9. CASE CloseFree
  BY <1>0, <1>9 DEF QueuesOK, CloseFree, queues
<1>10. CASE UNCHANGED queues
  BY <1>0, <1>10 DEF QueuesOK, queues
<1>. QED
  BY <1>1, <1>2, <1>3, <1>4, <1>5, <1>6, <1>7, <1>8, <1>9, <1>10 DEF Next, vars, Open, OpenAal,
     OpenNoBufMgmt, Close, CloseVc, CloseCheck, TxCall, GetNothing, GetNextCell, PutCell, RxCall,
     RxNoBuffer, PutNothing, Enter, Return

(* The AAL layer holds a packet and a buffer, or none.                        *)
LEMMA AalStep == TypeOK /\ [Next]_vars => AalOK'
<1> SUFFICES ASSUME TypeOK, [Next]_vars PROVE AalOK'
  OBVIOUS
<1>0. AalOK /\ NoBuffer \in 0 .. Buffers
  BY BufAssumption DEF TypeOK, NoBuffer
<1>1. CASE OpenVc \/ OpenAal \/ CloseRelease
  BY <1>0, <1>1 DEF AalOK, OpenVc, BufMgmtVcInit, FrameALVCInit, OpenAal, CloseRelease,
     FrameALAALVCShutdown, RxPutEmptyBuf
<1>2. CASE GetFirstCell
  BY <1>0, <1>2, FirstCellType DEF AalOK, GetFirstCell, TxGetFullBuf
<1>3. CASE GetNextCell \/ PutLastCell
  BY <1>0, <1>3 DEF AalOK, GetNextCell, PutLastCell
<1>4. CASE RxKeep
  BY <1>0, <1>4, RxBufferType DEF AalOK, RxKeep
<1>5. CASE RxFrame
  BY <1>0, <1>5 DEF AalOK, RxFrame
<1>6. CASE UNCHANGED aal
  BY <1>0, <1>6 DEF AalOK, aal
<1>. QED
  BY <1>1, <1>2, <1>3, <1>4, <1>5, <1>6 DEF Next, vars, Open, OpenNoBufMgmt, OpenNoFrameAL,
     Close, CloseVc, CloseCheck, CloseDrain, CloseFree, TxCall, GetNothing, PutCell, RxCall,
     RxNoBuffer, PutNothing, Enter, Return, Send, BufMgmtSend

(* Linux sends and gets back packets, and gets buffers.                       *)
LEMMA LinuxStep == TypeOK /\ [Next]_vars => LinuxOK'
<1> SUFFICES ASSUME TypeOK, [Next]_vars PROVE LinuxOK'
  OBVIOUS
<1>0. LinuxOK
  BY DEF TypeOK
<1>1. ASSUME NEW n \in 1 .. MaxCells, Send(n) PROVE LinuxOK'
  <2>1. [id |-> Len(accepted) + 1, cells |-> n] \in Packet
    BY <1>1, BufAssumption DEF Send, TypeOK, LinuxOK, Packet
  <2>. QED
    BY <1>0, <1>1, <2>1 DEF LinuxOK, Send, BufMgmtSend
<1>2. CASE GetFirstCell \/ GetNextCell
  BY <1>0, <1>2 DEF LinuxOK, GetFirstCell, GetNextCell
<1>3. CASE PutLastCell
  BY <1>0, <1>3, TxPutType DEF LinuxOK, PutLastCell
<1>4. CASE RxKeep
  BY <1>0, <1>4, RxBufferType DEF LinuxOK, RxKeep
<1>5. CASE RxFrame
  <2>1. RxBuffer.bufs \in 0 .. Buffers /\ RxBuffer.bfr \in 1 .. Buffers
    BY <1>5, RxBufferType DEF RxFrame
  <2>2. bufs' \in 0 .. Buffers
    BY <1>5, <2>1, BufAssumption DEF RxFrame
  <2>3. pushed' = pushed \/ pushed' = Append(pushed, RxBuffer.bfr)
    BY <1>5 DEF RxFrame
  <2>4. pushed' \in Seq(1 .. Buffers)
    <3>1. pushed \in Seq(1 .. Buffers)
      BY <1>0 DEF LinuxOK
    <3>2. Append(pushed, RxBuffer.bfr) \in Seq(1 .. Buffers)
      BY <2>1, <3>1
    <3>. QED
      BY <2>3, <3>1, <3>2
  <2>. QED
    BY <1>0, <1>5, <2>2, <2>4 DEF LinuxOK, RxFrame
<1>6. CASE CloseRelease
  BY <1>0, <1>6, TxPutType DEF LinuxOK, CloseRelease, FrameALAALVCShutdown, RxPutEmptyBuf
<1>7. CASE CloseDrain
  BY <1>0, <1>7, ConcatProperties DEF LinuxOK, CloseDrain, TypeOK, QueuesOK
<1>8. CASE UNCHANGED linux
  BY <1>0, <1>8 DEF LinuxOK, linux
<1>. QED
  BY <1>1, <1>2, <1>3, <1>4, <1>5, <1>6, <1>7, <1>8 DEF Next, vars, Open, OpenVc, BufMgmtVcInit,
     FrameALVCInit, FrameALATMVCInit, OpenAal,
     OpenNoBufMgmt, OpenNoFrameAL, Close, CloseVc, CloseCheck, CloseFree, TxCall, GetNothing,
     PutCell, RxCall, RxNoBuffer, PutNothing, Enter, Return

LEMMA InitType == Init => TypeOK
<1> SUFFICES ASSUME Init PROVE TypeOK
  OBVIOUS
<1> USE DEF Init
<1>1. CircuitOK
  <2>1. opens = 0 /\ fails = 0
    OBVIOUS
  <2>2. 0 \in 0 .. MaxOpen /\ 0 \in 0 .. MaxFail
    BY BufAssumption
  <2>. QED
    BY <2>1, <2>2 DEF CircuitOK
<1>2. CallsOK
  BY DEF CallsOK, Calls
<1>3. QueuesOK
  BY DEF QueuesOK
<1>4. AalOK
  BY BufAssumption DEF AalOK, NoBuffer
<1>5. LinuxOK
  BY BufAssumption DEF LinuxOK
<1>. QED
  BY <1>1, <1>2, <1>3, <1>4, <1>5 DEF TypeOK

LEMMA TypeStep == TypeOK /\ [Next]_vars => TypeOK'
BY CircuitStep, CallsStep, QueuesStep, AalStep, LinuxStep DEF TypeOK

(* The variables of BufMgmt.c, FrameALAAL.c and CardMgmtVc.c have their types *)
(* in every reachable state, whatever the environment is allowed to do.       *)
THEOREM TypeCorrect == Spec => []TypeOK
BY InitType, TypeStep, PTL DEF Spec
-------------------------------------------------------------------------------
(* On one processor the circuit is whole around every call, so that what the  *)
(* AAL layer holds and what BufMgmt has in use change together.               *)
IInv ==
  /\ TypeOK /\ CallsInsideCircuit /\ Remains
  /\ TxInSync
  /\ ~EarlyCells => RxInSync
  /\ ~LateSends => NothingLost

(* A call that has begun finds the circuit whole.                             *)
LEMMA CallInside ==
  ASSUME IInv, NEW c \in Calls, pc[c] = "found"
  PROVE  fal /\ sap /\ bm /\ stage \in {"init", "open"}
BY DEF IInv, CallsInsideCircuit, NoHandler

LEMMA TxCallInside == IInv /\ TxCall => fal /\ sap /\ bm /\ stage \in {"init", "open"}
<1> SUFFICES ASSUME IInv, TxCall PROVE fal /\ sap /\ bm /\ stage \in {"init", "open"}
  OBVIOUS
<1>1. pc["get"] = "found" \/ pc["put"] = "found"
  BY DEF TxCall, GetNothing, GetFirstCell, GetNextCell, PutLastCell, PutCell, Starts
<1>. QED
  BY <1>1, CallInside DEF Calls

LEMMA RxCallInside ==
  IInv /\ RxCall => /\ fal /\ sap /\ bm /\ stage \in {"init", "open"}
                    /\ ~EarlyCells => stage = "open"
<1> SUFFICES ASSUME IInv, RxCall
             PROVE  /\ fal /\ sap /\ bm /\ stage \in {"init", "open"}
                    /\ ~EarlyCells => stage = "open"
  OBVIOUS
<1>1. pc["rx"] = "found"
  BY DEF RxCall, RxNoBuffer, RxKeep, RxFrame, Starts
<1>2. fal /\ sap /\ bm /\ stage \in {"init", "open"}
  BY <1>1, CallInside DEF Calls
<1>3. ~EarlyCells => stage # "init"
  BY <1>1 DEF IInv, Remains
<1>. QED
  BY <1>2, <1>3

(* The circuit stays whole around every call.                                 *)
LEMMA InsideStep ==
  ASSUME ~Smp, IInv, [Next]_vars
  PROVE  CallsInsideCircuit'
<1>0. /\ CallsInsideCircuit
      /\ Thread => NoHandler
      /\ CallsOK
  BY DEF IInv, Thread, TypeOK
<1>1. CASE Open
  <2>1. CASE OpenVc
    BY <1>0, <2>1 DEF OpenVc, BufMgmtVcInit, FrameALVCInit, FrameALATMVCInit,
       CallsInsideCircuit, NoHandler
  <2>2. CASE OpenAal
    BY <1>0, <2>2 DEF OpenAal, CallsInsideCircuit, NoHandler, calls
  <2>3. CASE OpenNoBufMgmt \/ OpenNoFrameAL
    BY <1>0, <2>3 DEF OpenNoBufMgmt, OpenNoFrameAL, CallsInsideCircuit, NoHandler, calls
  <2>. QED
    BY <1>1, <2>1, <2>2, <2>3 DEF Open
<1>2. CASE CloseVc
  BY <1>0, <1>2 DEF CloseVc, CallsInsideCircuit, NoHandler, calls
<1>3. CASE CloseCheck
  BY <1>0, <1>3 DEF CloseCheck, CallsInsideCircuit, NoHandler, calls
<1>4. CASE CloseRelease
  BY <1>0, <1>4 DEF CloseRelease, CallsInsideCircuit, NoHandler, calls
<1>5. CASE CloseDrain
  BY <1>0, <1>5 DEF CloseDrain, CallsInsideCircuit, NoHandler, calls
<1>6. CASE CloseFree
  BY <1>0, <1>6 DEF CloseFree, CallsInsideCircuit, NoHandler, calls
<1>7. CASE TxCall \/ RxCall
  <2>1. PICK c \in Calls : /\ pc[c] = "found" /\ pc' = [pc EXCEPT ![c] = "in"]
                           /\ active' = active \cup {c}
    BY <1>7 DEF TxCall, GetNothing, GetFirstCell, GetNextCell, PutLastCell, PutCell,
       RxCall, RxNoBuffer, RxKeep, RxFrame, Starts, Calls
  <2>2. UNCHANGED circuit
    BY <1>7 DEF TxCall, GetNothing, GetFirstCell, GetNextCell, PutLastCell, PutCell,
       RxCall, RxNoBuffer, RxKeep, RxFrame
  <2>3. fal /\ sap
    BY <2>1, CallInside
  <2>4. active' = {d \in Calls : pc'[d] = "in"}
    BY <1>0, <2>1 DEF CallsInsideCircuit, CallsOK
  <2>. QED
    BY <1>0, <2>2, <2>3, <2>4 DEF CallsInsideCircuit, circuit
<1>8. ASSUME NEW c \in Calls, Enter(c) PROVE CallsInsideCircuit'
  <2>1. fal /\ sap
    BY <1>0, <1>8 DEF Enter, MayGet, MayPut, MayRx, CallsInsideCircuit, NoHandler, Calls
  <2>2. active' = {d \in Calls : pc'[d] = "in"}
    BY <1>0, <1>8 DEF CallsInsideCircuit, CallsOK, Enter, MayGet, MayPut, MayRx
  <2>. QED
    BY <1>0, <1>8, <2>1, <2>2 DEF Enter, MayGet, MayPut, MayRx, CallsInsideCircuit, circuit
<1>9. ASSUME NEW c \in Calls, Return(c) PROVE CallsInsideCircuit'
  <2>1. fal /\ sap
    BY <1>0, <1>9 DEF Return, CallsInsideCircuit, NoHandler
  <2>2. active' = {d \in Calls : pc'[d] = "in"}
    BY <1>0, <1>9 DEF CallsInsideCircuit, CallsOK, Return
  <2>. QED
    BY <1>0, <1>9, <2>1, <2>2 DEF Return, CallsInsideCircuit, circuit
<1>10. CASE PutNothing
  BY <1>0, <1>10 DEF PutNothing, CallsInsideCircuit, NoHandler
<1>11. CASE UNCHANGED <<circuit, calls>>
  BY <1>0, <1>11 DEF CallsInsideCircuit, NoHandler, circuit, calls
<1>. QED
  BY <1>1, <1>2, <1>3, <1>4, <1>5, <1>6, <1>7, <1>8, <1>9, <1>10, <1>11 DEF Next, vars, Close,
     Send

(* What is left of a circuit stays what each stage says.                      *)
LEMMA RemainsStep ==
  ASSUME ~Smp, IInv, [Next]_vars
  PROVE  Remains'
<1>0. /\ CallsInsideCircuit /\ Remains
      /\ Thread => NoHandler
      /\ CallsOK
  BY DEF IInv, Thread, TypeOK
<1>1. CASE OpenVc
  BY <1>0, <1>1 DEF OpenVc, BufMgmtVcInit, FrameALVCInit, Remains, NoHandler, Calls
<1>2. CASE OpenAal \/ OpenNoBufMgmt \/ OpenNoFrameAL
  BY <1>0, <1>2 DEF OpenAal, OpenNoBufMgmt, OpenNoFrameAL, Remains, CallsInsideCircuit, NoHandler,
     Calls, calls, queues, aal
<1>3. CASE Close
  BY <1>0, <1>3 DEF Close, CloseVc, CloseCheck, CloseRelease, CloseDrain, CloseFree, Remains,
     CallsInsideCircuit, calls, aal, queues
<1>4. ASSUME NEW n \in 1 .. MaxCells, Send(n) PROVE Remains'
  BY <1>0, <1>4 DEF Send, BufMgmtSend, Remains, circuit, calls, aal
<1>5. CASE TxCall
  <2>1. fal /\ sap /\ bm /\ stage \in {"init", "open"}
    BY <1>5, TxCallInside
  <2>2. UNCHANGED circuit /\ UNCHANGED rxBfr /\ pc'["rx"] = pc["rx"]
    BY <1>0, <1>5 DEF TxCall, GetNothing, GetFirstCell, GetNextCell, PutLastCell, PutCell,
       Starts, CallsOK, Calls, aal
  <2>3. stage = "init" => txRdy' = <<>> /\ txBfr' = NoPacket
    BY <1>0, <1>5 DEF TxCall, GetNothing, GetFirstCell, GetNextCell, PutLastCell, PutCell,
       Remains, queues, aal
  <2>. QED
    BY <1>0, <2>1, <2>2, <2>3 DEF Remains, circuit
<1>6. CASE RxCall
  <2>1. fal /\ sap /\ bm /\ stage \in {"init", "open"} /\ (~EarlyCells => stage = "open")
    BY <1>6, RxCallInside
  <2>2. UNCHANGED circuit /\ UNCHANGED <<txRdy, txBfr>>
    BY <1>6 DEF RxCall, RxNoBuffer, RxKeep, RxFrame, queues, aal
  <2>. QED
    BY <1>0, <2>1, <2>2 DEF Remains, circuit
<1>7. ASSUME NEW c \in Calls, Enter(c) \/ Return(c) PROVE Remains'
  <2>1. stage = "init" /\ ~EarlyCells => pc'["rx"] = "out"
    BY <1>0, <1>7 DEF Enter, MayRx, Return, Remains, CallsOK, Calls
  <2>. QED
    BY <1>0, <1>7, <2>1 DEF Enter, MayRx, Return, Remains, circuit, queues, aal
<1>8. CASE PutNothing
  BY <1>0, <1>8 DEF PutNothing, Remains, circuit, queues, aal
<1>9. CASE UNCHANGED vars
  BY <1>0, <1>9 DEF Remains, vars, circuit, calls, queues, aal
<1>. QED
  BY <1>1, <1>2, <1>3, <1>4, <1>5, <1>6, <1>7, <1>8, <1>9 DEF Next, Open

(* The packet under way is the one in use, before and after every step.       *)
LEMMA TxSyncStep ==
  ASSUME ~Smp, IInv, [Next]_vars
  PROVE  TxInSync'
<1>0. /\ TxInSync
      /\ ~fal => txBfr = NoPacket
      /\ stage \in {"closed", "init"} => txBfr = NoPacket
      /\ stage \in {"closed", "drain", "free"} => ~fal
  BY DEF IInv, Remains, CallsInsideCircuit
<1>1. CASE OpenVc \/ OpenAal \/ OpenNoFrameAL
  BY <1>0, <1>1 DEF OpenVc, BufMgmtVcInit, FrameALVCInit, OpenAal, OpenNoFrameAL, TxInSync,
     queues, aal
<1>2. CASE GetFirstCell
  <2>1. txInuse = <<>> /\ txBfr' = Head(txRdy) /\ txInuse' = Append(txInuse, txBfr')
    BY <1>0, <1>2 DEF GetFirstCell, TxGetFullBuf, TxInSync
  <2>2. txBfr' \in Packet
    BY <1>2, FirstCellType DEF IInv
  <2>3. txBfr' # NoPacket
    BY <2>2 DEF Packet, NoPacket
  <2>4. Append(<<>>, txBfr') = <<txBfr'>>
    OBVIOUS
  <2>. QED
    BY <2>1, <2>3, <2>4 DEF TxInSync
<1>3. CASE txBfr # NoPacket /\ TxPutEmptyBuf /\ txBfr' = NoPacket
  <2>1. txInuse = <<txBfr>>
    BY <1>0, <1>3 DEF TxInSync
  <2>2. txInuse # <<>> /\ Tail(txInuse) = <<>>
    BY <2>1
  <2>. QED
    BY <1>3, <2>2 DEF TxPutEmptyBuf, TxInSync
<1>4. CASE CloseRelease /\ txBfr = NoPacket
  BY <1>0, <1>4 DEF CloseRelease, FrameALAALVCShutdown, RxPutEmptyBuf, TxInSync
<1>5. CASE UNCHANGED <<txInuse, txBfr>>
  BY <1>0, <1>5 DEF TxInSync
<1>6. CASE CloseFree
  BY <1>0, <1>6 DEF CloseFree, TxInSync, queues, aal
<1>. QED
  BY <1>1, <1>2, <1>3, <1>4, <1>5, <1>6 DEF Next, vars, queues, aal, Open, OpenNoBufMgmt, Close,
     CloseVc, CloseCheck, CloseRelease, FrameALAALVCShutdown, RxPutEmptyBuf, CloseDrain, TxCall,
     GetNothing, GetNextCell, PutLastCell,
     PutCell, RxCall, RxNoBuffer, RxKeep, RxFrame, PutNothing, Send, BufMgmtSend, Enter, Return

(* The same for the receive buffer, if no cell comes too early.               *)
LEMMA RxSyncStep ==
  ASSUME ~Smp, ~EarlyCells, IInv, [Next]_vars
  PROVE  RxInSync'
<1>0. /\ RxInSync
      /\ ~fal => rxBfr = NoBuffer
      /\ stage \in {"closed", "init"} => rxBfr = NoBuffer
      /\ stage \in {"closed", "drain", "free"} => ~fal
  BY DEF IInv, Remains, CallsInsideCircuit
<1>1. CASE OpenVc \/ OpenAal \/ OpenNoFrameAL
  BY <1>0, <1>1 DEF OpenVc, BufMgmtVcInit, FrameALVCInit, OpenAal, OpenNoFrameAL, RxInSync,
     queues, aal
<1>2. CASE RxKeep \/ RxFrame
  <2>1. RxBuffer.bfr \in 1 .. Buffers
    BY <1>2, RxBufferType DEF IInv, RxKeep, RxFrame
  <2>2. RxBuffer.bfr # NoBuffer
    BY <2>1, BufAssumption DEF NoBuffer
  <2>3. RxBuffer.inuse = <<RxBuffer.bfr>>
    <3>1. CASE rxBfr # NoBuffer
      BY <1>0, <3>1 DEF RxBuffer, RxInSync
    <3>2. CASE rxBfr = NoBuffer
      <4>1. rxInuse = <<>>
        BY <1>0, <3>2 DEF RxInSync
      <4>2. RxBuffer.inuse = Append(<<>>, RxBuffer.bfr)
        BY <3>2, <4>1 DEF RxBuffer
      <4>3. Append(<<>>, RxBuffer.bfr) = <<RxBuffer.bfr>>
        OBVIOUS
      <4>. QED
        BY <4>2, <4>3
    <3>. QED
      BY <3>1, <3>2
  <2>4. RxBuffer.inuse # <<>> /\ Tail(RxBuffer.inuse) = <<>>
    BY <2>3
  <2>5. CASE RxKeep
    BY <2>2, <2>3, <2>5 DEF RxKeep, RxInSync
  <2>6. CASE RxFrame
    BY <2>4, <2>6 DEF RxFrame, RxInSync
  <2>. QED
    BY <1>2, <2>5, <2>6
<1>3. CASE CloseRelease
  <2>1. CASE rxBfr # NoBuffer
    <3>1. rxInuse = <<rxBfr>>
      BY <1>0, <2>1 DEF RxInSync
    <3>2. rxInuse # <<>> /\ Tail(rxInuse) = <<>>
      BY <3>1
    <3>. QED
      BY <1>3, <2>1, <3>2 DEF CloseRelease, FrameALAALVCShutdown, RxPutEmptyBuf, RxInSync
  <2>2. CASE rxBfr = NoBuffer
    BY <1>0, <1>3, <2>2 DEF CloseRelease, FrameALAALVCShutdown, RxPutEmptyBuf, RxInSync
  <2>. QED
    BY <2>1, <2>2
<1>4. CASE UNCHANGED <<rxInuse, rxBfr>>
  BY <1>0, <1>4 DEF RxInSync
<1>5. CASE CloseFree
  BY <1>0, <1>5 DEF CloseFree, RxInSync, queues, aal
<1>. QED
  BY <1>1, <1>2, <1>3, <1>4, <1>5 DEF Next, vars, queues, aal, Open, OpenNoBufMgmt, Close,
     CloseVc, CloseCheck, CloseDrain, TxCall, GetNothing, GetFirstCell, GetNextCell, PutLastCell,
     PutCell, RxCall, RxNoBuffer, PutNothing, Send, BufMgmtSend, Enter, Return

(* A packet moves from one queue to the next, and never out of line.          *)
LEMMA NothingLostStep ==
  ASSUME ~Smp, ~LateSends, IInv, [Next]_vars
  PROVE  NothingLost'
<1>0. /\ NothingLost
      /\ stage \in {"closed", "drain", "free"} => txInuse = <<>>
      /\ stage \in {"closed", "free"} => txRdy = <<>>
  BY DEF IInv, Remains, CallsInsideCircuit, TxInSync
<1>t. released \in Seq(Packet) /\ txInuse \in Seq(Packet) /\ txRdy \in Seq(Packet)
  BY DEF IInv, TypeOK, QueuesOK, LinuxOK
<1>1. CASE OpenVc \/ OpenNoFrameAL
  <2>1. UNCHANGED <<released, txInuse, txRdy, accepted>>
    BY <1>0, <1>1 DEF OpenVc, BufMgmtVcInit, FrameALVCInit, OpenNoFrameAL, linux
  <2>. QED
    BY <1>0, <2>1 DEF NothingLost
<1>2. ASSUME NEW n \in 1 .. MaxCells, Send(n) PROVE NothingLost'
  <2> DEFINE p == [id |-> Len(accepted) + 1, cells |-> n]
  <2>1. p \in Packet
    BY <1>2, BufAssumption DEF IInv, TypeOK, LinuxOK, Send, Packet
  <2>2. /\ accepted' = Append(accepted, p) /\ txRdy' = Append(txRdy, p)
        /\ UNCHANGED <<released, txInuse>>
    BY <1>2 DEF Send, BufMgmtSend
  <2> HIDE DEF p
  <2>3. (released \o txInuse) \o Append(txRdy, p) = Append((released \o txInuse) \o txRdy, p)
    BY <1>t, <2>1, JoinAppend
  <2>. QED
    BY <1>0, <2>2, <2>3, Zenon DEF NothingLost
<1>3. CASE GetFirstCell
  <2>1. /\ txRdy # <<>> /\ txRdy' = Tail(txRdy) /\ txInuse' = Append(txInuse, Head(txRdy))
        /\ UNCHANGED <<released, accepted>>
    BY <1>3 DEF GetFirstCell, TxGetFullBuf
  <2>2. InLine(released, Append(txInuse, Head(txRdy)), Tail(txRdy))
          = InLine(released, txInuse, txRdy)
    BY <1>t, <2>1, MoveHead
  <2>. QED
    BY <1>0, <2>1, <2>2, Zenon DEF NothingLost, InLine
<1>4. CASE TxPutEmptyBuf /\ UNCHANGED <<txRdy, accepted>>
  <2>1. CASE txInuse = <<>>
    BY <1>0, <1>4, <2>1 DEF TxPutEmptyBuf, NothingLost
  <2>2. CASE txInuse # <<>>
    <3>1. txInuse' = Tail(txInuse) /\ released' = Append(released, Head(txInuse))
      BY <1>4, <2>2 DEF TxPutEmptyBuf
    <3>2. Append(released, Head(txInuse)) \o Tail(txInuse) = released \o txInuse
      BY <1>t, <2>2, ReleaseHead
    <3>. QED
      BY <1>0, <1>4, <3>1, <3>2, Zenon DEF NothingLost
  <2>. QED
    BY <2>1, <2>2
<1>5. CASE CloseDrain
  <2>1. /\ txInuse = <<>> /\ txInuse' = <<>> /\ txRdy' = <<>>
        /\ released' = released \o txRdy /\ accepted' = accepted
    BY <1>0, <1>5 DEF CloseDrain
  <2>2. (released \o <<>>) \o txRdy = ((released \o txRdy) \o <<>>) \o <<>>
    <3>1. released \o <<>> = released
      BY <1>t, ConcatEmptySeq
    <3>2. released \o txRdy \in Seq(Packet)
      BY <1>t, ConcatProperties
    <3>3. (released \o txRdy) \o <<>> = released \o txRdy
      BY <3>2, ConcatEmptySeq
    <3>. QED
      BY <3>1, <3>3, Zenon
  <2>. QED
    BY <1>0, <2>1, <2>2, Zenon DEF NothingLost
<1>6. CASE CloseFree
  <2>1. UNCHANGED <<released, txInuse, txRdy, accepted>>
    BY <1>0, <1>6 DEF CloseFree, linux, queues
  <2>. QED
    BY <1>0, <2>1 DEF NothingLost
<1>7. CASE UNCHANGED <<released, txInuse, txRdy, accepted>>
  BY <1>0, <1>7 DEF NothingLost
<1>. QED
  BY <1>1, <1>2, <1>3, <1>4, <1>5, <1>6, <1>7 DEF Next, vars, queues, linux, Open, OpenAal,
     OpenNoBufMgmt, Close, CloseVc, CloseCheck, CloseRelease, FrameALAALVCShutdown,
     RxPutEmptyBuf, TxCall, GetNothing, GetNextCell,
     PutLastCell, PutCell, RxCall, RxNoBuffer, RxKeep, RxFrame, PutNothing, Enter, Return

LEMMA Invariant == ASSUME ~Smp PROVE Spec => []IInv
<1>1. Init => IInv
  <2> SUFFICES ASSUME Init PROVE IInv
    OBVIOUS
  <2>1. TypeOK
    BY InitType
  <2>2. CallsInsideCircuit /\ Remains
    BY DEF Init, CallsInsideCircuit, Remains, NoHandler, Calls
  <2>3. TxInSync /\ RxInSync
    BY DEF Init, TxInSync, RxInSync
  <2>4. NothingLost
    BY DEF Init, NothingLost
  <2>. QED
    BY <2>1, <2>2, <2>3, <2>4 DEF IInv
<1>2. IInv /\ [Next]_vars => IInv'
  <2> SUFFICES ASSUME IInv, [Next]_vars PROVE IInv'
    OBVIOUS
  <2>1. TypeOK'
    BY TypeStep DEF IInv
  <2>2. CallsInsideCircuit' /\ Remains' /\ TxInSync'
    BY InsideStep, RemainsStep, TxSyncStep
  <2>3. /\ ~EarlyCells => RxInSync'
        /\ ~LateSends => NothingLost'
    BY RxSyncStep, NothingLostStep
  <2>. QED
    BY <2>1, <2>2, <2>3 DEF IInv
<1>. QED
  BY <1>1, <1>2, PTL DEF Spec

(* On one processor BufMgmtTxPutEmptyBuf releases the packet it is given,     *)
(* even while the circuit is opened and closed.                               *)
THEOREM TxStaysInSync == ASSUME ~Smp PROVE Spec => []TxInSync
<1>1. IInv => TxInSync
  BY DEF IInv
<1>. QED
  BY <1>1, Invariant, PTL

(* BufMgmtRxPutFullBuf finds the buffer it is given at the head of the queue, *)
(* if the peer is silent while FrameALALVCInit runs.                          *)
THEOREM RxStaysInSync == ASSUME ~Smp, ~EarlyCells PROVE Spec => []RxInSync
<1>1. IInv => RxInSync
  BY DEF IInv
<1>. QED
  BY <1>1, Invariant, PTL

(* Every packet BufMgmtSend accepted has been given back once, in order, or   *)
(* is still queued, however often the circuit has been opened and closed, if  *)
(* Linux does not send through a circuit being closed.                        *)
THEOREM NoPacketLost == ASSUME ~Smp, ~LateSends PROVE Spec => []NothingLost
<1>1. IInv => NothingLost
  BY DEF IInv
<1>. QED
  BY <1>1, Invariant, PTL
-------------------------------------------------------------------------------
(* Neither context is left when a circuit has been closed, nor a buffer that  *)
(* is ready after the queues have been emptied.                               *)
Emptied ==
  /\ stage = "closed" => ~bm
  /\ stage \in {"free", "closed"} => rxRdy = <<>>

LEMMA EmptiedStep ==
  ASSUME ~Smp, ~EarlyCells, IInv, Emptied, [Next]_vars
  PROVE  Emptied'
<1>0. /\ stage \in {"closed", "drain", "free"} => txInuse = <<>> /\ rxInuse = <<>>
      /\ Emptied
  BY DEF IInv, Remains, CallsInsideCircuit, TxInSync, RxInSync
<1>1. CASE Open
  BY <1>0, <1>1 DEF Open, OpenVc, BufMgmtVcInit, OpenAal, OpenNoBufMgmt, OpenNoFrameAL, Emptied,
     queues
<1>2. CASE Close
  BY <1>0, <1>2 DEF Close, CloseVc, CloseCheck, CloseRelease, CloseDrain, CloseFree, Emptied,
     queues
<1>3. CASE TxCall
  <2>1. UNCHANGED <<stage, bm, rxRdy>>
    BY <1>3 DEF TxCall, GetNothing, GetFirstCell, GetNextCell, PutLastCell, PutCell, circuit, queues
  <2>. QED
    BY <1>0, <2>1 DEF Emptied
<1>4. CASE RxCall
  <2>1. stage \in {"init", "open"}
    BY <1>4, RxCallInside
  <2>2. UNCHANGED stage
    BY <1>4 DEF RxCall, RxNoBuffer, RxKeep, RxFrame, circuit
  <2>. QED
    BY <2>1, <2>2 DEF Emptied
<1>5. CASE UNCHANGED <<stage, bm, rxRdy>>
  BY <1>0, <1>5 DEF Emptied
<1>. QED
  BY <1>1, <1>2, <1>3, <1>4, <1>5 DEF Next, vars, circuit, queues, PutNothing, Send, BufMgmtSend,
     Enter, Return

(* A circuit that has been closed leaves nothing behind, however often it was *)
(* opened and whatever could not be allocated: neither context, no packet, no *)
(* buffer.  What is left out are cells that come and packets that are sent    *)
(* while it is opened or closed.                                              *)
THEOREM NothingIsLeft ==
  ASSUME ~Smp, ~EarlyCells, ~LateSends
  PROVE  Spec => []ClosedLeavesNothing
<1>1. Init => Emptied
  BY DEF Init, Emptied
<1>2. IInv /\ Emptied /\ [Next]_vars => Emptied'
  BY EmptiedStep
<1>3. IInv /\ Emptied => ClosedLeavesNothing
  <2> SUFFICES ASSUME IInv, Emptied, stage = "closed"
               PROVE  /\ ~bm /\ ~fal
                      /\ txRdy \o txInuse = <<>> /\ rxRdy \o rxInuse = <<>>
                      /\ Len(released) = Len(accepted)
    BY DEF ClosedLeavesNothing
  <2>1. ~bm /\ ~fal /\ txRdy = <<>> /\ txInuse = <<>> /\ rxRdy = <<>> /\ rxInuse = <<>>
    BY DEF IInv, Emptied, Remains, CallsInsideCircuit, TxInSync, RxInSync
  <2>2. released = accepted
    <3>1. (released \o <<>>) \o <<>> = accepted
      BY <2>1 DEF IInv, NothingLost
    <3>2. released \in Seq(Packet)
      BY DEF IInv, TypeOK, LinuxOK
    <3>3. released \o <<>> = released
      BY <3>2, ConcatEmptySeq
    <3>. QED
      BY <3>1, <3>3, Zenon
  <2>3. <<>> \o <<>> = <<>>
    OBVIOUS
  <2>. QED
    BY <2>1, <2>2, <2>3
<1>. QED
  BY <1>1, <1>2, <1>3, Invariant, PTL DEF Spec
-------------------------------------------------------------------------------
(* The elements of a queue that lost its head, or got a new last element, and *)
(* of two queues in a row, when no element is twice in them.                  *)
LEMMA TailOnce ==
  ASSUME NEW S, NEW q \in Seq(S), q # <<>>, IsInjective(q)
  PROVE  /\ IsInjective(Tail(q)) /\ Head(q) \in Range(q)
         /\ Range(Tail(q)) = Range(q) \ {Head(q)}
<1>1. /\ \A i \in DOMAIN Tail(q) : i + 1 \in DOMAIN q /\ Tail(q)[i] = q[i + 1] /\ i + 1 > 1
      /\ Head(q) = q[1] /\ 1 \in DOMAIN q
  BY TailIs
<1>2. DOMAIN Tail(q) = 1 .. Len(q) - 1 /\ DOMAIN q = 1 .. Len(q) /\ Len(q) \in Nat
  OBVIOUS
<1>3. IsInjective(Tail(q))
  <2> SUFFICES ASSUME NEW i \in DOMAIN Tail(q), NEW j \in DOMAIN Tail(q), Tail(q)[i] = Tail(q)[j]
               PROVE  i = j
    BY DEF IsInjective
  <2>1. i + 1 = j + 1
    BY <1>1 DEF IsInjective
  <2>. QED
    BY <1>2, <2>1
<1>4. ASSUME NEW i \in DOMAIN Tail(q) PROVE Tail(q)[i] \in Range(q) \ {Head(q)}
  <2>1. q[i + 1] \in Range(q)
    BY <1>1 DEF Range
  <2>2. i + 1 # 1
    BY <1>2
  <2>3. q[i + 1] # q[1]
    BY <1>1, <2>2 DEF IsInjective
  <2>. QED
    BY <1>1, <2>1, <2>3
<1>5. ASSUME NEW i \in DOMAIN q, q[i] # Head(q) PROVE q[i] \in Range(Tail(q))
  <2>1. i # 1
    BY <1>1, <1>5
  <2>2. i - 1 \in DOMAIN Tail(q) /\ (i - 1) + 1 = i
    BY <1>2, <2>1
  <2>3. Tail(q)[i - 1] = q[i]
    BY <1>1, <2>2
  <2>. QED
    BY <2>2, <2>3 DEF Range
<1>. QED
  BY <1>1, <1>3, <1>4, <1>5 DEF Range

LEMMA AppendOnce ==
  ASSUME NEW S, NEW q \in Seq(S), NEW e, IsInjective(q), e \notin Range(q)
  PROVE  IsInjective(Append(q, e)) /\ Range(Append(q, e)) = Range(q) \cup {e}
<1>1. \A i \in DOMAIN Append(q, e) : \/ i \in DOMAIN q /\ Append(q, e)[i] = q[i]
                                     \/ i = Len(q) + 1 /\ Append(q, e)[i] = e
  BY AppendIs
<1>2. /\ \A i \in DOMAIN q : i \in DOMAIN Append(q, e) /\ Append(q, e)[i] = q[i]
      /\ Len(q) + 1 \in DOMAIN Append(q, e) /\ Append(q, e)[Len(q) + 1] = e
  OBVIOUS
<1>3. \A i \in DOMAIN q : q[i] # e
  BY DEF Range
<1>4. IsInjective(Append(q, e))
  <2> SUFFICES ASSUME NEW i \in DOMAIN Append(q, e), NEW j \in DOMAIN Append(q, e),
                      Append(q, e)[i] = Append(q, e)[j]
               PROVE  i = j
    BY DEF IsInjective
  <2>. QED
    BY <1>1, <1>3 DEF IsInjective
<1>5. Range(Append(q, e)) \subseteq Range(q) \cup {e}
  BY <1>1 DEF Range
<1>6. Range(q) \cup {e} \subseteq Range(Append(q, e))
  BY <1>2 DEF Range
<1>. QED
  BY <1>4, <1>5, <1>6

LEMMA ConcatOnce ==
  ASSUME NEW S, NEW x \in Seq(S), NEW y \in Seq(S), IsInjective(x), IsInjective(y),
         Range(x) \cap Range(y) = {}
  PROVE  IsInjective(x \o y) /\ Range(x \o y) = Range(x) \cup Range(y)
<1>1. /\ Len(x \o y) = Len(x) + Len(y)
      /\ \A k \in 1 .. Len(x) : (x \o y)[k] = x[k]
      /\ \A k \in 1 .. Len(y) : (x \o y)[Len(x) + k] = y[k]
      /\ x \o y \in Seq(S)
  BY ConcatIs
<1>2. /\ Len(x) \in Nat /\ Len(y) \in Nat /\ DOMAIN x = 1 .. Len(x) /\ DOMAIN y = 1 .. Len(y)
      /\ DOMAIN (x \o y) = 1 .. Len(x) + Len(y)
  BY <1>1
<1>3. \A i \in DOMAIN (x \o y) :
        \/ i \in DOMAIN x /\ (x \o y)[i] = x[i]
        \/ /\ i - Len(x) \in DOMAIN y /\ (x \o y)[i] = y[i - Len(x)]
  <2> SUFFICES ASSUME NEW i \in DOMAIN (x \o y), i \notin DOMAIN x
               PROVE  i - Len(x) \in DOMAIN y /\ (x \o y)[i] = y[i - Len(x)]
    BY <1>1, <1>2
  <2>1. i - Len(x) \in 1 .. Len(y) /\ Len(x) + (i - Len(x)) = i
    BY <1>2
  <2>. QED
    BY <1>1, <1>2, <2>1
<1>4. /\ \A i \in DOMAIN x : x[i] \in Range(x)
      /\ \A i \in DOMAIN y : y[i] \in Range(y)
  BY DEF Range
<1>5. IsInjective(x \o y)
  <2> SUFFICES ASSUME NEW i \in DOMAIN (x \o y), NEW j \in DOMAIN (x \o y),
                      (x \o y)[i] = (x \o y)[j]
               PROVE  i = j
    BY DEF IsInjective
  <2>1. CASE i \in DOMAIN x /\ j \in DOMAIN x
    BY <1>1, <1>2, <2>1 DEF IsInjective
  <2>2. CASE i \notin DOMAIN x /\ j \notin DOMAIN x
    <3>1. i - Len(x) = j - Len(x)
      BY <1>3, <2>2 DEF IsInjective
    <3>. QED
      BY <1>2, <3>1
  <2>3. CASE (i \in DOMAIN x) # (j \in DOMAIN x)
    BY <1>1, <1>2, <1>3, <1>4, <2>3
  <2>. QED
    BY <2>1, <2>2, <2>3
<1>6. \A i \in DOMAIN (x \o y) : (x \o y)[i] \in Range(x) \cup Range(y)
  BY <1>3, <1>4
<1>7. \A i \in DOMAIN x : x[i] \in Range(x \o y)
  <2>1. \A i \in DOMAIN x : i \in DOMAIN (x \o y) /\ (x \o y)[i] = x[i]
    BY <1>1, <1>2
  <2>. QED
    BY <2>1 DEF Range
<1>8. \A i \in DOMAIN y : y[i] \in Range(x \o y)
  <2> SUFFICES ASSUME NEW i \in 1 .. Len(y) PROVE y[i] \in Range(x \o y)
    BY <1>2
  <2>1. Len(x) + i \in 1 .. Len(x) + Len(y)
    BY <1>2
  <2>2. (x \o y)[Len(x) + i] = y[i]
    BY <1>1
  <2>. QED
    BY <1>2, <2>1, <2>2 DEF Range
<1>. QED
  BY <1>5, <1>6, <1>7, <1>8 DEF Range
(* Three queues - of what is given back, in use and ready - hold elements of  *)
(* A, and none of them twice.                                                 *)
Once(A, x, y, z) ==
  /\ Range(x) \subseteq A /\ Range(y) \subseteq A /\ Range(z) \subseteq A
  /\ IsInjective(x) /\ IsInjective(y) /\ IsInjective(z)
  /\ Range(x) \cap Range(y) = {} /\ Range(x) \cap Range(z) = {} /\ Range(y) \cap Range(z) = {}

LEMMA OnceSwap ==
  ASSUME NEW A, NEW x, NEW y, NEW z, Once(A, x, y, z)
  PROVE  /\ Once(A, y, x, z) /\ Once(A, x, z, y) /\ Once(A, z, y, x)
         /\ Once(A, y, z, x) /\ Once(A, z, x, y)
BY DEF Once

LEMMA OnceEmpty ==
  ASSUME NEW A, NEW x, NEW y, NEW z, Once(A, x, y, z)
  PROVE  Once(A, x, y, <<>>) /\ Once(A, x, <<>>, <<>>)
<1>1. IsInjective(<<>>) /\ Range(<<>>) = {}
  BY DEF IsInjective, Range
<1>. QED
  BY <1>1 DEF Once

(* That stays so when an element moves from the head of a queue to the end of *)
(* another or is dropped there, when a queue empties into another, and when   *)
(* an element is new.                                                         *)
LEMMA OnceMoved ==
  ASSUME NEW S, NEW A, NEW x \in Seq(S), NEW y \in Seq(S), NEW z \in Seq(S), Once(A, x, y, z)
  PROVE  /\ x # <<>> => Once(A, Tail(x), Append(y, Head(x)), z) /\ Once(A, Tail(x), y, z)
         /\ Once(A, x \o z, y, <<>>)
<1>2. ASSUME x # <<>>
      PROVE  Once(A, Tail(x), Append(y, Head(x)), z) /\ Once(A, Tail(x), y, z)
  <2>1. /\ IsInjective(Tail(x)) /\ Head(x) \in Range(x)
        /\ Range(Tail(x)) = Range(x) \ {Head(x)}
    BY <1>2, TailOnce DEF Once
  <2>2. Head(x) \notin Range(y) /\ Head(x) \notin Range(z)
    BY <2>1 DEF Once
  <2>3. IsInjective(Append(y, Head(x))) /\ Range(Append(y, Head(x))) = Range(y) \cup {Head(x)}
    BY <2>2, AppendOnce DEF Once
  <2>. QED
    BY <2>1, <2>2, <2>3 DEF Once
<1>3. IsInjective(<<>>) /\ Range(<<>>) = {}
  BY DEF IsInjective, Range
<1>5. Once(A, x \o z, y, <<>>)
  <2>1. IsInjective(x \o z) /\ Range(x \o z) = Range(x) \cup Range(z)
    BY ConcatOnce DEF Once
  <2>. QED
    BY <1>3, <2>1 DEF Once
<1>. QED
  BY <1>2, <1>5

LEMMA OnceNew ==
  ASSUME NEW S, NEW A, NEW x, NEW y, NEW z \in Seq(S), Once(A, x, y, z), NEW e, e \notin A
  PROVE  Once(A \cup {e}, x, y, Append(z, e))
<1>1. e \notin Range(x) /\ e \notin Range(y) /\ e \notin Range(z)
  BY DEF Once
<1>2. IsInjective(Append(z, e)) /\ Range(Append(z, e)) = Range(z) \cup {e}
  BY <1>1, AppendOnce DEF Once
<1>. QED
  BY <1>1, <1>2 DEF Once

(* A row of three such queues holds no element twice.                         *)
LEMMA OnceInRow ==
  ASSUME NEW S, NEW A, NEW x \in Seq(S), NEW y \in Seq(S), NEW z \in Seq(S), Once(A, x, y, z)
  PROVE  IsInjective((x \o y) \o z)
<1>1. IsInjective(x \o y) /\ Range(x \o y) = Range(x) \cup Range(y)
  BY ConcatOnce DEF Once
<1>2. x \o y \in Seq(S)
  BY ConcatProperties
<1> DEFINE q == x \o y
<1>3. q \in Seq(S) /\ IsInjective(q) /\ Range(q) \cap Range(z) = {}
  BY <1>1, <1>2 DEF Once
<1> HIDE DEF q
<1>4. IsInjective(q \o z)
  BY <1>3, ConcatOnce DEF Once
<1>. QED
  BY <1>4 DEF q
-------------------------------------------------------------------------------
(* Each packet accepted and each buffer allocated is in one place at most.    *)
Sent     == {p \in Packet : p.id <= Len(accepted)}
TxOnce   == Once(Sent, released, txInuse, txRdy)
RxOnce   == Once(1 .. bufs, pushed, rxInuse, rxRdy)

LEMMA TxOnceStep ==
  ASSUME TypeOK, TxOnce, [Next]_vars
  PROVE  TxOnce'
<1>0. /\ released \in Seq(Packet) /\ txInuse \in Seq(Packet) /\ txRdy \in Seq(Packet)
      /\ accepted \in Seq(Packet)
  BY DEF TypeOK, QueuesOK, LinuxOK
<1>1. ASSUME NEW n \in 1 .. MaxCells, Send(n) PROVE TxOnce'
  <2> DEFINE e == [id |-> Len(accepted) + 1, cells |-> n]
  <2>1. /\ e \in Packet /\ e.id = Len(accepted) + 1
        /\ accepted' = Append(accepted, e) /\ txRdy' = Append(txRdy, e)
        /\ UNCHANGED <<released, txInuse>>
    <3>1. e \in Packet
      BY <1>0, <1>1, BufAssumption DEF Send, Packet
    <3>. QED
      BY <1>1, <3>1 DEF Send, BufMgmtSend
  <2> HIDE DEF e
  <2>2. Len(accepted') = Len(accepted) + 1 /\ Len(accepted) \in Nat
    BY <1>0, <2>1
  <2>3. e \notin Sent /\ Sent \cup {e} \subseteq Sent'
    BY <2>1, <2>2 DEF Sent, Packet
  <2>4. Once(Sent \cup {e}, released, txInuse, Append(txRdy, e))
    BY <1>0, <2>3, OnceNew DEF TxOnce
  <2>. QED
    BY <2>1, <2>3, <2>4 DEF TxOnce, Once
<1> DEFINE A == Sent
<1>2. ASSUME UNCHANGED accepted PROVE A' = A
  BY <1>2 DEF Sent
<1> HIDE DEF A
<1>3. TxOnce <=> Once(A, released, txInuse, txRdy)
  BY DEF A, TxOnce
<1>4. CASE GetFirstCell
  <2>1. /\ txRdy # <<>> /\ txRdy' = Tail(txRdy) /\ txInuse' = Append(txInuse, Head(txRdy))
        /\ UNCHANGED <<released, accepted>>
    BY <1>4 DEF GetFirstCell, TxGetFullBuf
  <2>2. Once(A, txRdy, txInuse, released)
    BY <1>0, <1>3, OnceSwap
  <2>3. Once(A, Tail(txRdy), Append(txInuse, Head(txRdy)), released)
    BY <1>0, <2>1, <2>2, OnceMoved
  <2>. QED
    BY <1>2, <2>1, <2>3, OnceSwap DEF TxOnce, A
<1>5. CASE TxPutEmptyBuf /\ UNCHANGED <<txRdy, accepted>>
  <2>1. CASE txInuse = <<>>
    BY <1>2, <1>5, <2>1 DEF TxPutEmptyBuf, TxOnce, A
  <2>2. CASE txInuse # <<>>
    <3>1. txInuse' = Tail(txInuse) /\ released' = Append(released, Head(txInuse))
      BY <1>5, <2>2 DEF TxPutEmptyBuf
    <3>2. Once(A, txInuse, released, txRdy)
      BY <1>3, OnceSwap
    <3>3. Once(A, Tail(txInuse), Append(released, Head(txInuse)), txRdy)
      BY <1>0, <2>2, <3>2, OnceMoved
    <3>. QED
      BY <1>2, <1>5, <3>1, <3>3, OnceSwap DEF TxOnce, A
  <2>. QED
    BY <2>1, <2>2
<1>6. CASE CloseDrain
  <2>1. Once(A, released \o txRdy, txInuse, <<>>)
    BY <1>0, <1>3, OnceMoved
  <2>2. released' = released \o txRdy /\ txRdy' = <<>> /\ UNCHANGED <<txInuse, accepted>>
    BY <1>6 DEF CloseDrain
  <2>. QED
    BY <1>2, <2>1, <2>2 DEF TxOnce, A
<1>7. CASE OpenVc \/ OpenNoFrameAL
  <2>1. txRdy' = <<>> /\ txInuse' = <<>> /\ UNCHANGED <<released, accepted>>
    BY <1>7 DEF OpenVc, BufMgmtVcInit, FrameALVCInit, OpenNoFrameAL, linux
  <2>. QED
    BY <1>2, <1>3, <2>1, OnceEmpty DEF TxOnce, A
<1>8. CASE CloseFree
  <2>1. UNCHANGED <<txInuse, released, accepted>> /\ (txRdy' = <<>> \/ UNCHANGED txRdy)
    BY <1>8 DEF CloseFree, linux, queues
  <2>. QED
    BY <1>2, <1>3, <2>1, OnceEmpty DEF TxOnce, A
<1>9. CASE UNCHANGED <<released, txInuse, txRdy, accepted>>
  BY <1>2, <1>3, <1>9 DEF TxOnce, A
<1>. QED
  BY <1>1, <1>4, <1>5, <1>6, <1>7, <1>8, <1>9 DEF Next, vars, queues, linux, Open, OpenAal,
     OpenNoBufMgmt, Close, CloseVc, CloseCheck, CloseRelease, FrameALAALVCShutdown,
     TxCall, GetNothing, GetNextCell,
     PutLastCell, PutCell, RxCall, RxNoBuffer, RxKeep, RxFrame, PutNothing, Enter, Return

(* What BufMgmtRxGetEmptyBuf leaves.                                          *)
LEMMA RxBufferOnce ==
  ASSUME TypeOK, RxOnce, RxBuffer.bufs <= Buffers
  PROVE  Once(1 .. RxBuffer.bufs, pushed, RxBuffer.inuse, RxBuffer.rdy) /\ RxBuffer.bufs \in Nat
<1>0. /\ pushed \in Seq(1 .. Buffers) /\ rxInuse \in Seq(1 .. Buffers)
      /\ rxRdy \in Seq(1 .. Buffers) /\ bufs \in Nat
  BY BufAssumption DEF TypeOK, QueuesOK, LinuxOK
<1>1. CASE rxBfr # NoBuffer
  BY <1>0, <1>1 DEF RxBuffer, RxOnce
<1>2. CASE rxBfr = NoBuffer /\ rxRdy # <<>>
  <2>1. Once(1 .. bufs, rxRdy, rxInuse, pushed)
    BY OnceSwap DEF RxOnce
  <2>2. Once(1 .. bufs, Tail(rxRdy), Append(rxInuse, Head(rxRdy)), pushed)
    BY <1>0, <1>2, <2>1, OnceMoved
  <2>3. Once(1 .. bufs, pushed, Append(rxInuse, Head(rxRdy)), Tail(rxRdy))
    BY <2>2, OnceSwap
  <2>4. /\ RxBuffer.rdy = Tail(rxRdy) /\ RxBuffer.inuse = Append(rxInuse, Head(rxRdy))
        /\ RxBuffer.bufs = bufs
    BY <1>2 DEF RxBuffer
  <2>. QED
    BY <1>0, <2>3, <2>4
<1>3. CASE rxBfr = NoBuffer /\ rxRdy = <<>>
  <2>1. Once(1 .. bufs, pushed, rxRdy, rxInuse)
    BY OnceSwap DEF RxOnce
  <2>2. bufs + 1 \notin 1 .. bufs /\ 1 .. bufs + 1 = (1 .. bufs) \cup {bufs + 1}
    BY <1>0
  <2>3. Once(1 .. bufs + 1, pushed, rxRdy, Append(rxInuse, bufs + 1))
    <3>1. Once((1 .. bufs) \cup {bufs + 1}, pushed, rxRdy, Append(rxInuse, bufs + 1))
      BY <1>0, <2>1, <2>2, OnceNew
    <3>. QED
      BY <2>2, <3>1, Zenon
  <2>4. Once(1 .. bufs + 1, pushed, Append(rxInuse, bufs + 1), rxRdy)
    BY <2>3, OnceSwap
  <2>5. /\ RxBuffer.rdy = rxRdy /\ RxBuffer.inuse = Append(rxInuse, bufs + 1)
        /\ RxBuffer.bufs = bufs + 1
    BY <1>3 DEF RxBuffer
  <2>. QED
    BY <1>0, <2>4, <2>5
<1>. QED
  BY <1>1, <1>2, <1>3

LEMMA RxOnceStep ==
  ASSUME TypeOK, RxOnce, [Next]_vars
  PROVE  RxOnce'
<1>0. /\ pushed \in Seq(1 .. Buffers) /\ rxInuse \in Seq(1 .. Buffers)
      /\ rxRdy \in Seq(1 .. Buffers) /\ bufs \in Nat
  BY BufAssumption DEF TypeOK, QueuesOK, LinuxOK
<1>1. CASE RxKeep
  <2>1. Once(1 .. RxBuffer.bufs, pushed, RxBuffer.inuse, RxBuffer.rdy)
    BY <1>1, RxBufferOnce DEF RxKeep
  <2>2. /\ rxRdy' = RxBuffer.rdy /\ rxInuse' = RxBuffer.inuse /\ bufs' = RxBuffer.bufs
        /\ pushed' = pushed
    BY <1>1 DEF RxKeep
  <2>. QED
    BY <2>1, <2>2 DEF RxOnce
<1>2. CASE RxFrame
  <2> DEFINE u == RxBuffer.inuse
             r == RxBuffer.rdy
             n == RxBuffer.bufs
  <2>1. Once(1 .. n, pushed, u, r) /\ n \in Nat
    BY <1>2, RxBufferOnce DEF RxFrame
  <2>2. u \in Seq(1 .. Buffers) /\ r \in Seq(1 .. Buffers)
    BY <1>2, RxBufferType DEF RxFrame
  <2>3. \/ u = <<>> /\ bufs' = n /\ rxRdy' = r /\ UNCHANGED <<rxInuse, pushed>>
        \/ /\ u # <<>> /\ rxInuse' = Tail(u)
           /\ pushed' = Append(pushed, Head(u)) \/ pushed' = pushed
           /\ \/ r = <<>> /\ bufs' = n + 1 /\ rxRdy' = <<n + 1>>
              \/ bufs' = n /\ rxRdy' = r
    BY <1>2 DEF RxFrame
  <2>4. u = <<>> => rxInuse = u
    <3>1. CASE rxBfr # NoBuffer
      BY <3>1 DEF RxBuffer
    <3>2. CASE rxBfr = NoBuffer /\ rxRdy # <<>>
      <4>1. u = Append(rxInuse, Head(rxRdy))
        BY <3>2 DEF RxBuffer
      <4>. QED
        BY <1>0, <4>1
    <3>3. CASE rxBfr = NoBuffer /\ rxRdy = <<>>
      <4>1. u = Append(rxInuse, bufs + 1)
        BY <3>3 DEF RxBuffer
      <4>. QED
        BY <1>0, <4>1
    <3>. QED
      BY <3>1, <3>2, <3>3
  <2> HIDE DEF u, r, n
  <2>5. CASE u = <<>>
    BY <2>1, <2>3, <2>4, <2>5 DEF RxOnce
  <2>6. CASE u # <<>>
    <3>1. Once(1 .. n, u, pushed, r)
      BY <2>1, OnceSwap
    <3>2. Once(1 .. n, Tail(u), Append(pushed, Head(u)), r) /\ Once(1 .. n, Tail(u), pushed, r)
      BY <1>0, <2>2, <2>6, <3>1, OnceMoved
    <3>3. Once(1 .. n, pushed', rxInuse', r)
      BY <2>3, <2>6, <3>2, OnceSwap
    <3>4. CASE r = <<>> /\ bufs' = n + 1 /\ rxRdy' = <<n + 1>>
      <4>1. n + 1 \notin 1 .. n /\ 1 .. n + 1 = (1 .. n) \cup {n + 1}
        BY <2>1
      <4>3. Once(1 .. n + 1, pushed', rxInuse', Append(r, n + 1))
        <5>1. Once((1 .. n) \cup {n + 1}, pushed', rxInuse', Append(r, n + 1))
          BY <2>2, <3>3, <4>1, OnceNew
        <5>. QED
          BY <4>1, <5>1, Zenon
      <4>4. Append(r, n + 1) = <<n + 1>>
        BY <3>4
      <4>. QED
        BY <3>4, <4>3, <4>4 DEF RxOnce
    <3>. QED
      BY <2>3, <2>6, <3>3, <3>4 DEF RxOnce
  <2>. QED
    BY <2>5, <2>6
<1>3. CASE CloseRelease
  <2>1. UNCHANGED <<pushed, bufs>>
    BY <1>3 DEF CloseRelease
  <2>2. CASE rxBfr # NoBuffer /\ rxInuse # <<>>
    <3>1. rxInuse' = Tail(rxInuse) /\ rxRdy' = Append(rxRdy, Head(rxInuse))
      BY <1>3, <2>2 DEF CloseRelease, FrameALAALVCShutdown, RxPutEmptyBuf
    <3>2. Once(1 .. bufs, rxInuse, rxRdy, pushed)
      BY OnceSwap DEF RxOnce
    <3>3. Once(1 .. bufs, Tail(rxInuse), Append(rxRdy, Head(rxInuse)), pushed)
      BY <1>0, <2>2, <3>2, OnceMoved
    <3>. QED
      BY <2>1, <3>1, <3>3, OnceSwap DEF RxOnce
  <2>3. CASE UNCHANGED <<rxInuse, rxRdy>>
    BY <2>1, <2>3 DEF RxOnce
  <2>. QED
    BY <1>3, <2>2, <2>3 DEF CloseRelease, FrameALAALVCShutdown, RxPutEmptyBuf
<1>4. CASE CloseDrain \/ OpenVc \/ OpenNoFrameAL
  <2>1. rxRdy' = <<>> /\ (rxInuse' = <<>> \/ UNCHANGED rxInuse) /\ UNCHANGED <<pushed, bufs>>
    BY <1>4 DEF CloseDrain, OpenVc, BufMgmtVcInit, FrameALVCInit, OpenNoFrameAL, linux
  <2>. QED
    BY <2>1, OnceEmpty DEF RxOnce
<1>5. CASE UNCHANGED <<pushed, rxInuse, rxRdy, bufs>>
  BY <1>5 DEF RxOnce
<1>6. CASE CloseFree
  <2>1. UNCHANGED <<pushed, rxInuse, rxRdy, bufs>>
    BY <1>6 DEF CloseFree, linux, queues
  <2>. QED
    BY <2>1 DEF RxOnce
<1>. QED
  BY <1>1, <1>2, <1>3, <1>4, <1>5, <1>6 DEF Next, vars, queues, linux, Open, OpenAal,
     OpenNoBufMgmt, Close, CloseVc, CloseCheck, TxCall, GetNothing, GetFirstCell, GetNextCell,
     PutLastCell, PutCell, RxCall, RxNoBuffer, PutNothing, Send, BufMgmtSend, Enter, Return

(* Neither a packet nor a receive buffer is ever in two places or in one      *)
(* twice, on any number of processors and however calls, packets and cells    *)
(* race with the opening and closing of the circuit: what goes wrong there    *)
(* loses buffers and never gives one back twice.                              *)
THEOREM NoBufferTwice == Spec => []EachBufferOnce
<1>1. Init => TypeOK /\ TxOnce /\ RxOnce
  <2>1. IsInjective(<<>>) /\ Range(<<>>) = {}
    BY DEF IsInjective, Range
  <2>. QED
    BY <2>1, InitType DEF Init, TxOnce, RxOnce, Once
<1>2. (TypeOK /\ TxOnce /\ RxOnce) /\ [Next]_vars => (TypeOK /\ TxOnce /\ RxOnce)'
  BY TypeStep, TxOnceStep, RxOnceStep
<1>3. TypeOK /\ TxOnce /\ RxOnce => EachBufferOnce
  <2> SUFFICES ASSUME TypeOK, TxOnce, RxOnce
               PROVE  /\ IsInjective((released \o txInuse) \o txRdy)
                      /\ IsInjective((pushed \o rxInuse) \o rxRdy)
    BY DEF EachBufferOnce
  <2>1. /\ released \in Seq(Packet) /\ txInuse \in Seq(Packet) /\ txRdy \in Seq(Packet)
        /\ pushed \in Seq(1 .. Buffers) /\ rxInuse \in Seq(1 .. Buffers)
        /\ rxRdy \in Seq(1 .. Buffers)
    BY DEF TypeOK, QueuesOK, LinuxOK
  <2>2. IsInjective((released \o txInuse) \o txRdy)
    BY <2>1, OnceInRow DEF TxOnce
  <2>3. IsInjective((pushed \o rxInuse) \o rxRdy)
    BY <2>1, OnceInRow DEF RxOnce
  <2>. QED
    BY <2>2, <2>3
<1>. QED
  BY <1>1, <1>2, <1>3, PTL DEF Spec
-------------------------------------------------------------------------------
(* What is on the wire: the cells of the packets in the order in which they   *)
(* were accepted, so that those still waiting have larger numbers, ...        *)
CellRecords == [id : 1 .. Packets, nr : Int, auu : BOOLEAN, open : Int]
Waiting ==
  \A i \in DOMAIN txRdy :
    /\ txRdy[i].id <= Len(accepted)
    /\ wire # <<>> => Last(wire).id < txRdy[i].id
    /\ \A j \in DOMAIN txRdy : i < j => txRdy[i].id < txRdy[j].id
(* ... and the last of them, which the packet under way was left at, and      *)
(* which the transmit handler still holds if it ends that packet.             *)
LastCell ==
  /\ wire # <<>> => Last(wire).id <= Len(accepted)
  /\ txBfr # NoPacket => /\ wire # <<>> /\ Last(wire) = Cell(txBfr, left)
                         /\ left = 0 => cell
  /\ pc["get"] = "found" => ~cell
(* With no packet under way, the last one was ended in this opening of the    *)
(* circuit, or there is none on the wire from this opening.                   *)
Ended ==
  /\ wire # <<>> => Last(wire).open <= opens
  /\ wire # <<>> /\ fal /\ txBfr = NoPacket => Last(wire).auu \/ Last(wire).open < opens
WireInv == wire \in Seq(CellRecords) /\ FramesOnWire /\ Waiting /\ LastCell /\ Ended

(* How a cell on the wire follows the one before it.                          *)
Follows(e, last) ==
  IF e.id = last.id THEN e.nr = last.nr + 1 /\ ~last.auu /\ last.open = e.open
  ELSE e.nr = 1 /\ e.id > last.id /\ (last.auu \/ last.open < e.open)

(* A cell on the wire continues its packet or begins a later one.             *)
LEMMA WireGrows ==
  ASSUME wire \in Seq(CellRecords), FramesOnWire, NEW e \in CellRecords,
         wire' = Append(wire, e),
         wire = <<>> => e.nr = 1,
         wire # <<>> => Follows(e, Last(wire))
  PROVE  wire' \in Seq(CellRecords) /\ FramesOnWire' /\ wire' # <<>> /\ Last(wire') = e
<1>1. /\ Len(wire) \in Nat /\ DOMAIN wire = 1 .. Len(wire) /\ Len(wire') = Len(wire) + 1
      /\ DOMAIN wire' = 1 .. Len(wire) + 1
      /\ \A i \in 1 .. Len(wire) : wire'[i] = wire[i]
      /\ wire'[Len(wire) + 1] = e /\ wire' \in Seq(CellRecords) /\ wire' # <<>>
      /\ wire = <<>> <=> Len(wire) = 0
  OBVIOUS
<1>2. ASSUME NEW i \in DOMAIN wire'
      PROVE  IF i > 1 THEN Follows(wire'[i], wire'[i - 1]) ELSE wire'[i].nr = 1
  <2>1. CASE i \in 1 .. Len(wire)
    <3>1. wire'[i] = wire[i] /\ (i > 1 => wire'[i - 1] = wire[i - 1])
      BY <1>1, <2>1
    <3>2. IF i > 1 THEN Follows(wire[i], wire[i - 1]) ELSE wire[i].nr = 1
      BY <1>1, <2>1 DEF FramesOnWire, Follows
    <3>. QED
      BY <3>1, <3>2
  <2>2. CASE i = Len(wire) + 1
    <3>1. wire'[i] = e
      BY <1>1, <2>2
    <3>2. CASE wire = <<>>
      BY <1>1, <2>2, <3>1, <3>2
    <3>3. CASE wire # <<>>
      <4>1. i > 1 /\ i - 1 = Len(wire) /\ Len(wire) \in 1 .. Len(wire)
        BY <1>1, <2>2, <3>3
      <4>2. wire'[i - 1] = Last(wire)
        BY <1>1, <4>1 DEF Last
      <4>. QED
        BY <3>1, <3>3, <4>1, <4>2
    <3>. QED
      BY <3>2, <3>3
  <2>. QED
    BY <1>1, <2>1, <2>2
<1>3. Last(wire') = e
  BY <1>1 DEF Last
<1>4. FramesOnWire'
  BY <1>1, <1>2 DEF FramesOnWire, Follows
<1>. QED
  BY <1>1, <1>3, <1>4

LEMMA FirstCellWire ==
  ASSUME IInv, WireInv, GetFirstCell
  PROVE  WireInv'
<1>0. /\ wire \in Seq(CellRecords) /\ txRdy \in Seq(Packet) /\ accepted \in Seq(Packet)
      /\ txRdy # <<>> /\ UNCHANGED accepted /\ pc \in [Calls -> {"out", "found", "in"}]
  BY DEF IInv, TypeOK, QueuesOK, LinuxOK, CallsOK, WireInv, GetFirstCell
<1>1. PICK p \in Packet : p = Head(txRdy)
  BY <1>0, HeadAndTail
<1>2. /\ p = txRdy[1] /\ 1 \in DOMAIN txRdy
      /\ \A i \in DOMAIN Tail(txRdy) : i + 1 \in DOMAIN txRdy /\ Tail(txRdy)[i] = txRdy[i + 1]
                                       /\ i + 1 > 1
      /\ \A i, j \in DOMAIN Tail(txRdy) : i < j => i + 1 < j + 1
  BY <1>0, <1>1, TailIs
<1>3. PICK e : e = [id |-> p.id, nr |-> p.cells - (p.cells - 1), auu |-> p.cells - 1 = 0,
                    open |-> opens]
  OBVIOUS
<1>4. /\ txBfr' = p /\ left' = p.cells - 1 /\ txRdy' = Tail(txRdy)
      /\ wire' = Append(wire, e) /\ e = Cell(p, p.cells - 1) /\ cell' = TRUE
      /\ opens' = opens /\ opens \in Int
  BY <1>1, <1>3 DEF GetFirstCell, TxGetFullBuf, Cell, circuit, IInv, TypeOK, CircuitOK
<1>5. p.id \in 1 .. Packets /\ p.cells \in 1 .. MaxCells /\ p # NoPacket
  BY <1>1 DEF Packet, NoPacket
<1>6. e \in CellRecords /\ e.id = p.id /\ e.nr = 1 /\ e.open = opens
  BY <1>3, <1>4, <1>5, BufAssumption DEF CellRecords
<1>7. p.id <= Len(accepted) /\ (wire # <<>> => Last(wire).id < p.id)
  BY <1>2 DEF WireInv, Waiting
<1>8. wire # <<>> => Last(wire).id \in Int
  <2>1. wire # <<>> => Last(wire) \in CellRecords
    BY <1>0 DEF Last
  <2>. QED
    BY <2>1 DEF CellRecords
<1>9. wire' \in Seq(CellRecords) /\ FramesOnWire' /\ wire' # <<>> /\ Last(wire') = e
  <2>1. wire # <<>> => e.id > Last(wire).id /\ e.id # Last(wire).id
    BY <1>5, <1>6, <1>7, <1>8
  <2>2. fal /\ txBfr = NoPacket
    BY DEF GetFirstCell, Starts
  <2>3. wire # <<>> => Last(wire).auu \/ Last(wire).open < opens
    BY <2>2 DEF WireInv, Ended
  <2>4. wire # <<>> => Follows(e, Last(wire))
    BY <1>6, <2>1, <2>3 DEF Follows
  <2>. QED
    BY <1>0, <1>4, <1>6, <2>4, WireGrows DEF WireInv
<1>10. Waiting'
  <2> SUFFICES ASSUME NEW i \in DOMAIN txRdy'
               PROVE  /\ txRdy'[i].id <= Len(accepted)
                      /\ e.id < txRdy'[i].id
                      /\ \A j \in DOMAIN txRdy' : i < j => txRdy'[i].id < txRdy'[j].id
    BY <1>0, <1>9 DEF Waiting
  <2>1. i + 1 \in DOMAIN txRdy /\ txRdy'[i] = txRdy[i + 1] /\ 1 < i + 1
    BY <1>2, <1>4
  <2>2. txRdy[i + 1].id <= Len(accepted) /\ txRdy[1].id < txRdy[i + 1].id
    BY <1>2, <2>1 DEF WireInv, Waiting
  <2>3. ASSUME NEW j \in DOMAIN txRdy', i < j PROVE txRdy'[i].id < txRdy'[j].id
    <3>1. j + 1 \in DOMAIN txRdy /\ txRdy'[j] = txRdy[j + 1] /\ i + 1 < j + 1
      BY <1>2, <1>4, <2>3
    <3>. QED
      BY <2>1, <3>1 DEF WireInv, Waiting
  <2>. QED
    BY <1>2, <1>6, <2>1, <2>2, <2>3
<1>11. pc' = [pc EXCEPT !["get"] = "in"]
  BY DEF GetFirstCell, Starts
<1>12. LastCell'
  <2>1. Last(wire').id <= Len(accepted)
    BY <1>6, <1>7, <1>9
  <2>2. pc'["get"] # "found"
    BY <1>0, <1>11 DEF Calls
  <2>. QED
    BY <1>0, <1>4, <1>9, <2>1, <2>2 DEF LastCell, Cell
<1>13. Ended'
  BY <1>4, <1>5, <1>6, <1>9 DEF Ended
<1>. QED
  BY <1>9, <1>10, <1>12, <1>13 DEF WireInv

LEMMA NextCellWire ==
  ASSUME IInv, WireInv, GetNextCell
  PROVE  WireInv'
<1>0. /\ wire \in Seq(CellRecords) /\ left \in Nat /\ txBfr \in Packet
      /\ pc \in [Calls -> {"out", "found", "in"}] /\ pc["get"] = "found"
      /\ UNCHANGED <<txBfr, txRdy, accepted, opens>> /\ txBfr # NoPacket /\ opens \in Int
  BY DEF IInv, TypeOK, AalOK, CallsOK, CircuitOK, WireInv, GetNextCell, Starts, queues, circuit
<1>1. left # 0 /\ wire # <<>> /\ Last(wire) = Cell(txBfr, left)
      /\ Last(wire).id <= Len(accepted)
  BY <1>0 DEF WireInv, LastCell
<1>2. PICK e : e = Cell(txBfr, left - 1)
  OBVIOUS
<1>3. /\ left' = left - 1 /\ cell' = TRUE /\ wire' = Append(wire, e)
      /\ pc' = [pc EXCEPT !["get"] = "in"]
  <2>1. left' = left - 1
    BY <1>0, <1>1 DEF GetNextCell
  <2>. QED
    BY <1>2, <2>1 DEF GetNextCell, Starts
<1>4. txBfr.id \in 1 .. Packets /\ txBfr.cells \in 1 .. MaxCells
  BY <1>0 DEF Packet
<1>5. /\ e \in CellRecords /\ e.id = Last(wire).id /\ e.nr = Last(wire).nr + 1
      /\ ~Last(wire).auu /\ Last(wire).open = e.open /\ e.open = opens
  <2>1. e.id = txBfr.id /\ e.nr = txBfr.cells - (left - 1) /\ e.auu \in BOOLEAN /\ e.open = opens
    BY <1>2 DEF Cell
  <2>2. /\ Last(wire).id = txBfr.id /\ Last(wire).nr = txBfr.cells - left
        /\ Last(wire).auu = (left = 0) /\ Last(wire).open = opens
    BY <1>1 DEF Cell
  <2>3. txBfr.cells - (left - 1) = txBfr.cells - left + 1 /\ txBfr.cells - (left - 1) \in Int
    BY <1>0, <1>4, BufAssumption
  <2>4. e \in CellRecords
    BY <1>0, <1>2, <1>4, <2>3 DEF Cell, CellRecords
  <2>. QED
    BY <1>1, <2>1, <2>2, <2>3, <2>4
<1>6. wire' \in Seq(CellRecords) /\ FramesOnWire' /\ wire' # <<>> /\ Last(wire') = e
  <2>1. Follows(e, Last(wire))
    BY <1>5 DEF Follows
  <2>. QED
    BY <1>0, <1>1, <1>3, <1>5, <2>1, WireGrows DEF WireInv
<1>7. Waiting'
  BY <1>0, <1>1, <1>5, <1>6 DEF WireInv, Waiting
<1>8. LastCell'
  <2>1. pc'["get"] # "found"
    BY <1>0, <1>3 DEF Calls
  <2>. QED
    BY <1>0, <1>1, <1>2, <1>3, <1>5, <1>6, <2>1 DEF LastCell, Cell
<1>9. Ended'
  BY <1>0, <1>5, <1>6 DEF Ended
<1>. QED
  BY <1>6, <1>7, <1>8, <1>9 DEF WireInv

LEMMA EndedStep ==
  ASSUME ~Smp, IInv, WireInv, [Next]_vars, UNCHANGED wire
  PROVE  Ended' /\ (opens' = opens \/ (txBfr = NoPacket /\ txBfr' = NoPacket))
<1>0. /\ wire \in Seq(CellRecords) /\ opens \in Int /\ Ended /\ LastCell
      /\ stage = "closed" => ~fal
      /\ ~fal => txBfr = NoPacket
      /\ stage = "init" => txBfr = NoPacket
  BY DEF IInv, Remains, CallsInsideCircuit, WireInv, TypeOK, CircuitOK
<1>1. wire # <<>> => Last(wire).open \in Int
  <2>1. wire # <<>> => Last(wire) \in CellRecords
    BY <1>0 DEF Last
  <2>. QED
    BY <2>1 DEF CellRecords
<1>2. CASE OpenVc
  <2>1. opens' = opens + 1 /\ txBfr' = NoPacket /\ txBfr = NoPacket
    BY <1>0, <1>2 DEF OpenVc, FrameALVCInit
  <2>. QED
    BY <1>0, <1>1, <2>1 DEF Ended
<1>3. CASE OpenNoBufMgmt \/ OpenNoFrameAL
  <2>1. opens' = opens + 1 /\ txBfr' = NoPacket /\ txBfr = NoPacket
    BY <1>0, <1>3 DEF OpenNoBufMgmt, OpenNoFrameAL, aal
  <2>. QED
    BY <1>0, <1>1, <2>1 DEF Ended
<1>4. CASE OpenAal
  <2>1. opens' = opens /\ fal' = fal /\ txBfr' = NoPacket /\ txBfr = NoPacket
    BY <1>0, <1>4 DEF OpenAal
  <2>. QED
    BY <1>0, <2>1 DEF Ended
<1>5. CASE CloseRelease
  <2>1. opens' = opens /\ ~fal'
    BY <1>5 DEF CloseRelease
  <2>. QED
    BY <1>0, <2>1 DEF Ended
<1>6. CASE PutLastCell
  <2>1. opens' = opens /\ txBfr # NoPacket /\ left = 0
    BY <1>6 DEF PutLastCell, circuit
  <2>2. wire # <<>> /\ Last(wire) = Cell(txBfr, 0)
    BY <1>0, <2>1 DEF LastCell
  <2>3. Cell(txBfr, 0).auu = TRUE
    BY DEF Cell
  <2>4. Last(wire').auu /\ Last(wire').open <= opens'
    BY <1>0, <2>1, <2>2, <2>3 DEF Ended
  <2>. QED
    BY <2>1, <2>4 DEF Ended
<1>7. CASE UNCHANGED <<opens, fal, txBfr>>
  BY <1>0, <1>7 DEF Ended
<1>. QED
  <2>1. ~GetFirstCell /\ ~GetNextCell
    <3>1. ASSUME NEW e PROVE wire' # Append(wire, e)
      <4>1. Len(wire') = Len(wire) /\ Len(wire) \in Nat /\ Len(Append(wire, e)) = Len(wire) + 1
        BY <1>0
      <4>. QED
        BY <4>1
    <3>. QED
      BY <3>1 DEF GetFirstCell, GetNextCell
  <2>2. \/ OpenVc \/ OpenNoBufMgmt \/ OpenNoFrameAL \/ OpenAal \/ CloseRelease \/ PutLastCell
        \/ UNCHANGED <<opens, fal, txBfr>>
    BY <2>1 DEF Next, vars, circuit, aal, Open, Close, CloseVc, CloseCheck, CloseDrain, CloseFree,
       TxCall, GetNothing, PutCell, RxCall, RxNoBuffer, RxKeep, RxFrame, PutNothing, Enter,
       Return, Send
  <2>. QED
    BY <1>2, <1>3, <1>4, <1>5, <1>6, <1>7, <2>2

LEMMA WireStep ==
  ASSUME ~Smp, IInv, WireInv, [Next]_vars
  PROVE  WireInv'
<1>0. /\ wire \in Seq(CellRecords) /\ FramesOnWire /\ Waiting /\ LastCell
      /\ ~fal => txBfr = NoPacket
      /\ pc \in [Calls -> {"out", "found", "in"}]
      /\ Thread => NoHandler
  BY DEF IInv, Remains, WireInv, TypeOK, CallsOK, Thread
<1>1. CASE GetFirstCell
  BY <1>1, FirstCellWire
<1>2. CASE GetNextCell
  BY <1>2, NextCellWire
<1>3. CASE UNCHANGED wire /\ ~GetFirstCell /\ ~GetNextCell
  <2>0. Ended' /\ (opens' = opens \/ (txBfr = NoPacket /\ txBfr' = NoPacket))
    BY <1>3, EndedStep
  <2>1. wire' \in Seq(CellRecords) /\ FramesOnWire'
    BY <1>0, <1>3 DEF FramesOnWire
  <2>2. CASE \E n \in 1 .. MaxCells : Send(n)
    <3>1. PICK n \in 1 .. MaxCells : Send(n)
      BY <2>2
    <3>2. accepted \in Seq(Packet) /\ txRdy \in Seq(Packet)
      BY DEF IInv, TypeOK, QueuesOK, LinuxOK
    <3> DEFINE e == [id |-> Len(accepted) + 1, cells |-> n]
    <3>3. /\ accepted' = Append(accepted, e) /\ txRdy' = Append(txRdy, e)
          /\ e.id = Len(accepted) + 1
          /\ UNCHANGED <<txBfr, left, pc, cell>>
      BY <3>1 DEF Send, BufMgmtSend, aal, calls
    <3> HIDE DEF e
    <3>4. Len(accepted') = Len(accepted) + 1 /\ Len(accepted) \in Nat
      BY <3>2, <3>3
    <3>5. wire # <<>> => Last(wire).id \in Int
      <4>1. wire # <<>> => Last(wire) \in CellRecords
        BY <1>0 DEF Last
      <4>. QED
        BY <4>1 DEF CellRecords
    <3>6. LastCell'
      BY <2>0, <1>0, <1>3, <3>3, <3>4, <3>5 DEF LastCell, Cell
    <3>7. Waiting'
      <4> SUFFICES ASSUME NEW i \in DOMAIN txRdy'
                   PROVE  /\ txRdy'[i].id <= Len(accepted')
                          /\ wire # <<>> => Last(wire).id < txRdy'[i].id
                          /\ \A j \in DOMAIN txRdy' : i < j => txRdy'[i].id < txRdy'[j].id
        BY <1>3 DEF Waiting
      <4>1. /\ \A k \in DOMAIN txRdy' : \/ k \in DOMAIN txRdy /\ txRdy'[k] = txRdy[k]
                                        \/ k = Len(txRdy) + 1 /\ txRdy'[k] = e
            /\ \A k, j \in DOMAIN txRdy' : k < j => k \in DOMAIN txRdy
        BY <3>2, <3>3, AppendIs
      <4>2. \A k \in DOMAIN txRdy : txRdy[k].id \in Int /\ txRdy[k].id <= Len(accepted)
        <5>1. \A k \in DOMAIN txRdy : txRdy[k] \in Packet
          BY <3>2
        <5>2. \A p \in Packet : p.id \in Int
          BY DEF Packet
        <5>. QED
          BY <1>0, <5>1, <5>2 DEF Waiting
      <4>3. txRdy'[i].id <= Len(accepted')
        BY <3>3, <3>4, <4>1, <4>2
      <4>4. wire # <<>> => Last(wire).id < txRdy'[i].id
        BY <1>0, <3>3, <3>4, <3>5, <4>1 DEF Waiting, LastCell
      <4>5. ASSUME NEW j \in DOMAIN txRdy', i < j PROVE txRdy'[i].id < txRdy'[j].id
        <5>1. i \in DOMAIN txRdy /\ txRdy'[i] = txRdy[i]
          BY <4>1, <4>5 
        <5>. QED
          BY <1>0, <3>3, <3>4, <4>1, <4>2, <4>5, <5>1 DEF Waiting
      <4>. QED
        BY <4>3, <4>4, <4>5
    <3>. QED
      BY <2>0, <2>1, <3>6, <3>7 DEF WireInv
  <2>3. CASE ~\E n \in 1 .. MaxCells : Send(n)
    <3>0. UNCHANGED accepted /\ (txRdy' = txRdy \/ txRdy' = <<>>)
      BY <1>3, <2>3 DEF Next, vars, queues, linux, Open, OpenVc, BufMgmtVcInit, FrameALVCInit,
         OpenAal, OpenNoBufMgmt, OpenNoFrameAL, Close, CloseVc, CloseCheck, CloseRelease,
         CloseDrain, CloseFree, TxCall, GetNothing, PutLastCell, PutCell, RxCall, RxNoBuffer,
         RxKeep, RxFrame, PutNothing, Enter, Return
    <3>1. Waiting'
      BY <1>0, <1>3, <3>0 DEF Waiting
    <3>a. /\ wire' # <<>> => Last(wire').id <= Len(accepted')
          /\ wire' = wire /\ Last(wire') = Last(wire)
      BY <1>0, <1>3, <3>0 DEF LastCell
    <3>2. ASSUME Open \/ CloseRelease \/ PutLastCell PROVE LastCell'
      <4>1. pc' = pc \/ pc' = [pc EXCEPT !["put"] = "in"]
        BY <3>2 DEF Open, OpenVc, OpenAal, OpenNoBufMgmt, OpenNoFrameAL, CloseRelease,
           PutLastCell, Starts, calls
      <4>2. cell' = cell \/ cell' = FALSE
        BY <3>2 DEF Open, OpenVc, OpenAal, OpenNoBufMgmt, OpenNoFrameAL, CloseRelease,
           PutLastCell, calls
      <4>3. txBfr' = NoPacket \/ UNCHANGED <<txBfr, left, cell>>
        BY <3>2 DEF Open, OpenVc, FrameALVCInit, OpenAal, OpenNoBufMgmt, OpenNoFrameAL,
           CloseRelease, PutLastCell, aal, calls
      <4>4. pc'["get"] = pc["get"]
        BY <1>0, <4>1 DEF Calls
      <4>. QED
        BY <2>0, <1>0, <3>a, <4>2, <4>3, <4>4 DEF LastCell, Cell
    <3>3. ASSUME PutCell \/ PutNothing PROVE LastCell'
      <4>1. UNCHANGED <<txBfr, left>> /\ (txBfr = NoPacket \/ left > 0)
        BY <1>0, <3>3 DEF PutCell, PutNothing, aal
      <4>2. cell' = FALSE
        BY <3>3 DEF PutCell, PutNothing
      <4>. QED
        BY <2>0, <1>0, <3>a, <4>1, <4>2 DEF LastCell, Cell
    <3>4. ASSUME NEW c \in Calls, Enter(c) PROVE LastCell'
      <4>1. UNCHANGED <<txBfr, left, cell>> /\ pc' = [pc EXCEPT ![c] = "found"]
            /\ (c = "get" => ~cell)
        BY <3>4 DEF Enter, MayGet, aal
      <4>2. pc'["get"] = "found" => ~cell
        BY <1>0, <4>1 DEF Calls, LastCell
      <4>. QED
        BY <2>0, <1>0, <3>a, <4>1, <4>2 DEF LastCell, Cell
    <3>5. ASSUME UNCHANGED <<txBfr, left, cell>>, pc'["get"] = "found" => pc["get"] = "found"
          PROVE  LastCell'
      BY <2>0, <1>0, <3>a, <3>5 DEF LastCell, Cell
    <3>6. ASSUME CloseVc \/ CloseCheck \/ CloseDrain \/ CloseFree \/ UNCHANGED vars
          PROVE  LastCell'
      BY <3>5, <3>6 DEF CloseVc, CloseCheck, CloseDrain, CloseFree, vars, calls, aal
    <3>7. ASSUME GetNothing \/ RxCall PROVE LastCell'
      <4>1. UNCHANGED <<txBfr, left, cell>>
        BY <3>7 DEF GetNothing, RxCall, RxNoBuffer, RxKeep, RxFrame, aal
      <4>2. pc' = [pc EXCEPT !["get"] = "in"] \/ pc' = [pc EXCEPT !["rx"] = "in"]
        BY <3>7 DEF GetNothing, RxCall, RxNoBuffer, RxKeep, RxFrame, Starts
      <4>. QED
        BY <1>0, <3>5, <4>1, <4>2 DEF Calls
    <3>8. ASSUME NEW c \in Calls, Return(c) PROVE LastCell'
      BY <1>0, <3>5, <3>8 DEF Return, Calls, aal
    <3>9. LastCell'
      BY <1>3, <2>3, <3>2, <3>3, <3>4, <3>6, <3>7, <3>8 DEF Next, Close, TxCall
    <3>. QED
      BY <2>0, <2>1, <3>1, <3>9 DEF WireInv
  <2>. QED
    BY <2>2, <2>3
<1>. QED
  <2>1. GetFirstCell \/ GetNextCell \/ UNCHANGED wire
    BY DEF Next, vars, linux, Open, OpenVc, BufMgmtVcInit, FrameALVCInit, FrameALATMVCInit,
       OpenAal, OpenNoBufMgmt, OpenNoFrameAL, Close, CloseVc, CloseCheck, CloseRelease,
       CloseDrain, CloseFree, TxCall, GetNothing, PutLastCell, PutCell, RxCall, RxNoBuffer,
       RxKeep, RxFrame, PutNothing, Enter, Return, Send
  <2>. QED
    BY <1>1, <1>2, <1>3, <2>1

(* The cells on the wire are whole packets in the order they were accepted,   *)
(* each from its first cell to the one with the end-of-frame bit, but for     *)
(* those that a close cut short; and while the circuit is open, a packet goes *)
(* back to Linux when that last cell has been copied.                         *)
LEMMA WireInvariant == ASSUME ~Smp PROVE Spec => [](IInv /\ WireInv)
<1>1. Init => WireInv
  <2> SUFFICES ASSUME Init PROVE WireInv
    OBVIOUS
  <2>1. wire = <<>> /\ txRdy = <<>> /\ txBfr = NoPacket /\ pc["get"] = "out"
    BY DEF Init, Calls
  <2>. QED
    BY <2>1 DEF WireInv, FramesOnWire, Waiting, LastCell, Ended
<1>2. (IInv /\ WireInv) /\ [Next]_vars => WireInv'
  BY WireStep
<1>. QED
  BY <1>1, <1>2, Invariant, PTL DEF Spec

(* On the wire the cells of a packet follow each other from the first to the  *)
(* one with the end-of-frame bit, packets come in the order Linux sent them,  *)
(* and one follows another only after that bit, unless the circuit was closed *)
(* and opened again between the two.                                          *)
THEOREM WireHasFrames == ASSUME ~Smp PROVE Spec => []FramesOnWire
<1>1. WireInv => FramesOnWire
  BY DEF WireInv
<1>. QED
  BY <1>1, WireInvariant, PTL

(* While the circuit is open, a packet goes back to Linux only after its last *)
(* cell has been copied.                                                      *)
THEOREM ReleasedLast == ASSUME ~Smp PROVE Spec => ReleasedAfterLastCell
<1>1. ASSUME IInv, WireInv, [Next]_vars, released' # released, stage = "open"
      PROVE  Last(wire).auu /\ Last(wire).id = Last(released').id
  <2>1. PutLastCell
    BY <1>1 DEF Next, vars, linux, Open, OpenVc, BufMgmtVcInit, FrameALVCInit, FrameALATMVCInit,
       OpenAal, OpenNoBufMgmt, OpenNoFrameAL, Close, CloseVc, CloseCheck, CloseRelease,
       CloseDrain, CloseFree, TxCall, GetNothing, GetFirstCell, GetNextCell, PutCell, RxCall,
       RxNoBuffer, RxKeep, RxFrame, PutNothing, Enter, Return, Send
  <2>2. txBfr # NoPacket /\ left = 0
    BY <2>1 DEF PutLastCell
  <2>3. Last(wire) = Cell(txBfr, 0)
    BY <1>1, <2>2 DEF WireInv, LastCell
  <2>4. txInuse = <<txBfr>>
    BY <1>1, <2>2 DEF IInv, TxInSync
  <2>5. released \in Seq(Packet)
    BY <1>1 DEF IInv, TypeOK, LinuxOK
  <2>6. released' = Append(released, txBfr)
    <3>1. txInuse # <<>> /\ Head(txInuse) = txBfr
      BY <2>4
    <3>. QED
      BY <2>1, <3>1 DEF PutLastCell, TxPutEmptyBuf
  <2>7. Last(released') = txBfr
    BY <2>5, <2>6 DEF Last
  <2>8. Cell(txBfr, 0).auu = TRUE /\ Cell(txBfr, 0).id = txBfr.id
    BY DEF Cell
  <2>. QED
    BY <2>3, <2>7, <2>8
<1>2. (IInv /\ WireInv) /\ [Next]_vars =>
        [released' # released /\ stage = "open" =>
           Last(wire).auu /\ Last(wire).id = Last(released').id]_vars
  BY <1>1
<1>. QED
  BY <1>2, WireInvariant, PTL DEF Spec, ReleasedAfterLastCell
===============================================================================
