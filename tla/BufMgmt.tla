-------------------------------- MODULE BufMgmt --------------------------------
(* The life of one virtual circuit and of the buffers that pass through it.   *)
(* CmgmtSendBuffer queues packets on TXBufRdyQ (BufMgmt.c); the handler of    *)
(* the transmit channel asks the AAL layer (FrameALAAL.c) for one cell at a   *)
(* time, which takes the next packet to TXBufInuseQ and returns it to Linux   *)
(* once its last cell is copied.  The handler of the receive channel          *)
(* reassembles cells in a buffer of RXBufInuseQ and pushes it to Linux.       *)
(* CmgmtOpen and CmgmtClose build and dismantle all of it, in several steps   *)
(* that Linux runs in a thread while the two handlers run from interrupts.    *)
EXTENDS Integers, Sequences

CONSTANTS Packets,    \* bound: packets Linux sends
          MaxCells,   \* bound: cells a packet is cut into
          Buffers,    \* bound: receive buffers, before memory runs out
          MaxOpen,    \* bound: how often the circuit is opened
          MaxFail,    \* bound: contexts there is no memory for
          Smp,        \* TRUE: the handlers also run on other processors
          EarlyCells, \* TRUE: the peer sends while the circuit is being opened
          LateSends   \* TRUE: Linux sends while the circuit is being closed

ASSUME BufAssumption ==
  /\ Packets \in Nat /\ MaxCells \in Nat /\ Buffers \in Nat /\ MaxOpen \in Nat /\ MaxFail \in Nat
  /\ Smp \in BOOLEAN /\ EarlyCells \in BOOLEAN /\ LateSends \in BOOLEAN

Calls   == {"get", "put", "rx"}    \* the indices of InVCALCNXT
Packet  == [id : 1 .. Packets, cells : 1 .. MaxCells]
NoPacket == [id |-> 0, cells |-> 0]
NoBuffer == 0

VARIABLES stage,           \* where CmgmtOpen and CmgmtClose are
          ready,           \* ATM_VF_READY
          bm, fal,         \* BufMgmtMod # NULL, FrameALVCMod # NULL
          sap,             \* TxGetFullBuf # NULL and RxPutFullBuf # NULL
          active,          \* the calls whose InVCALCNXT is TRUE
          txRdy, txInuse,  \* TXBufRdyQ, TXBufInuseQ
          rxRdy, rxInuse,  \* RXBufRdyQ, RXBufInuseQ
          inproc,          \* TXBufInprocCnt
          txBfr, left,     \* AALxTxBfr, and its cells in Remaining*Length
          rxBfr,           \* AALxRxBfr
          pc,              \* how far each call is
          cell,            \* the transmit handler holds a cell it got
          bufs,            \* buffers alloc_skb has returned
          accepted,        \* packets BufMgmtSend took, oldest first
          released,        \* packets given back to Linux
          wire,            \* cells copied to the transmit channel
          pushed,          \* buffers passed up to Linux
          opens, fails

queues  == <<txRdy, txInuse, rxRdy, rxInuse, inproc>>
aal     == <<txBfr, left, rxBfr>>
circuit == <<stage, ready, bm, fal, sap, opens, fails>>
calls   == <<active, pc, cell>>
linux   == <<accepted, released, wire, pushed, bufs>>
vars    == <<circuit, calls, queues, aal, linux>>

Init ==
  /\ stage = "closed" /\ ready = FALSE /\ bm = FALSE /\ fal = FALSE /\ sap = FALSE
  /\ opens = 0 /\ fails = 0
  /\ active = {} /\ pc = [c \in Calls |-> "out"] /\ cell = FALSE
  /\ txRdy = <<>> /\ txInuse = <<>> /\ rxRdy = <<>> /\ rxInuse = <<>> /\ inproc = 0
  /\ txBfr = NoPacket /\ left = 0 /\ rxBfr = NoBuffer
  /\ accepted = <<>> /\ released = <<>> /\ wire = <<>> /\ pushed = <<>> /\ bufs = 0

(* On one processor a handler runs to its end before the thread continues;    *)
(* the transmit handler puts a cell back in the same run that got it.         *)
NoHandler == ~cell /\ \A c \in Calls : pc[c] = "out"
Thread    == Smp \/ NoHandler
-------------------------------------------------------------------------------
(* The two contexts of a circuit, freshly allocated: what an earlier close    *)
(* left in older ones is forgotten.                                           *)
BufMgmtVcInit ==
  /\ bm' = TRUE
  /\ txRdy' = <<>> /\ txInuse' = <<>> /\ rxRdy' = <<>> /\ rxInuse' = <<>> /\ inproc' = 0
FrameALVCInit ==
  /\ fal' = TRUE /\ active' = {}
  /\ txBfr' = NoPacket /\ rxBfr' = NoBuffer /\ left' = 0

(* This lets the handlers into the circuit.                                   *)
FrameALATMVCInit == sap' = TRUE

(* CMVCAllocateVc up to the end of FrameALATMVCInit.                          *)
OpenVc ==
  /\ stage = "closed" /\ opens < MaxOpen /\ Thread
  /\ opens' = opens + 1 /\ stage' = "init"
  /\ BufMgmtVcInit /\ FrameALVCInit /\ FrameALATMVCInit
  /\ UNCHANGED <<ready, fails, pc, cell, linux>>

(* FrameALAALVCInit, and the end of CmgmtOpen.                                *)
OpenAal ==
  /\ stage = "init" /\ Thread
  /\ stage' = "open" /\ ready' = TRUE
  /\ txBfr' = NoPacket /\ rxBfr' = NoBuffer
  /\ UNCHANGED <<bm, fal, sap, opens, fails, calls, queues, left, linux>>

(* There is no memory for the context of BufMgmtVcInit: no circuit is         *)
(* allocated, which CmgmtOpen does not look at.                               *)
OpenNoBufMgmt ==
  /\ stage = "closed" /\ opens < MaxOpen /\ fails < MaxFail /\ Thread
  /\ opens' = opens + 1 /\ fails' = fails + 1
  /\ ready' = TRUE
  /\ UNCHANGED <<stage, bm, fal, sap, calls, queues, aal, linux>>

(* There is none for the context of FrameALVCInit: BufMgmtVcShutdown undoes   *)
(* BufMgmtVcInit, and its success is what CMVCAllocateVc goes by.             *)
OpenNoFrameAL ==
  /\ stage = "closed" /\ opens < MaxOpen /\ fails < MaxFail /\ Thread
  /\ opens' = opens + 1 /\ fails' = fails + 1
  /\ stage' = "open" /\ ready' = TRUE /\ bm' = FALSE
  /\ txRdy' = <<>> /\ txInuse' = <<>> /\ rxRdy' = <<>> /\ rxInuse' = <<>> /\ inproc' = 0
  /\ UNCHANGED <<fal, sap, calls, aal, linux>>

(* Mutant: the packet goes to the front of the queue.                         *)
BufMgmtSend_Front(packet) == txRdy' = <<packet>> \o txRdy /\ inproc' = inproc + 1

BufMgmtSend(packet) == txRdy' = Append(txRdy, packet) /\ inproc' = inproc + 1

(* CmgmtSendBuffer, for a packet with data.                                   *)
Send(cells) ==
  /\ stage = "open" \/ (LateSends /\ stage \in {"check", "release", "drain", "free"})
  /\ bm /\ Len(accepted) < Packets
  /\ LET packet == [id |-> Len(accepted) + 1, cells |-> cells]
     IN BufMgmtSend(packet) /\ accepted' = Append(accepted, packet)
  /\ UNCHANGED <<circuit, calls, txInuse, rxRdy, rxInuse, aal, released, wire, pushed, bufs>>
-------------------------------------------------------------------------------
(* The three calls into the layers above: FrameALATMGetCell asks for a cell,  *)
(* FrameALATMTxPutEmptyBuf puts it back, FrameALATMDeMUX passes one up.  Each *)
(* looks for the context and the function it needs; FrameALATMVCShutdown does *)
(* not clear the one that puts a cell back.                                   *)
MayGet == ~cell /\ pc["put"] = "out" /\ sap
MayPut == cell /\ pc["get"] = "out"
MayRx  == sap /\ (Smp \/ ~cell) /\ (EarlyCells \/ stage # "init")

Enter(c) ==
  /\ pc[c] = "out" /\ fal
  /\ Smp \/ \A d \in Calls : pc[d] = "out"
  /\ (c = "get" /\ MayGet) \/ (c = "put" /\ MayPut) \/ (c = "rx" /\ MayRx)
  /\ pc' = [pc EXCEPT ![c] = "found"]
  /\ UNCHANGED <<circuit, active, cell, queues, aal, linux>>

(* FrameALATMTxPutEmptyBuf finds the context of the cell's circuit gone.      *)
PutNothing ==
  /\ cell /\ ~fal /\ pc["get"] = "out" /\ pc["put"] = "out"
  /\ cell' = FALSE
  /\ UNCHANGED <<circuit, active, pc, queues, aal, linux>>

(* InVCALCNXT is set and the function called, which reads FrameALVCMod and    *)
(* BufMgmtMod for itself.  If they are gone by then, the kernel stops here.   *)
Starts(c) == pc[c] = "found" /\ fal /\ bm
             /\ pc' = [pc EXCEPT ![c] = "in"] /\ active' = active \cup {c}

(* FrameALAALTxGetFullBuf with no packet under way and none to take.  A       *)
(* packet BufMgmtSend let in has data, so that it can always be encoded.      *)
GetNothing ==
  /\ Starts("get")
  /\ txBfr = NoPacket /\ txRdy = <<>>
  /\ UNCHANGED <<circuit, cell, queues, aal, linux>>

(* A cell of a packet; for the properties it says in which opening of the     *)
(* circuit it was sent.                                                       *)
Cell(packet, rest) ==
  [id |-> packet.id, nr |-> packet.cells - rest, auu |-> rest = 0, open |-> opens]

(* BufMgmtTxGetFullBuf: the oldest packet that is ready is taken into use.    *)
TxGetFullBuf == txRdy' = Tail(txRdy) /\ txInuse' = Append(txInuse, Head(txRdy))

(* FrameALAALTxGetFullBuf takes the next packet and cuts its first cell.      *)
GetFirstCell ==
  /\ Starts("get")
  /\ txBfr = NoPacket /\ txRdy # <<>>
  /\ txBfr' = Head(txRdy) /\ left' = txBfr'.cells - 1
  /\ TxGetFullBuf
  /\ cell' = TRUE /\ wire' = Append(wire, Cell(txBfr', left'))
  /\ UNCHANGED <<circuit, rxRdy, rxInuse, inproc, rxBfr, accepted, released, pushed, bufs>>

(* FrameALAALTxGetFullBuf goes on with the packet under way.                  *)
GetNextCell ==
  /\ Starts("get")
  /\ txBfr # NoPacket
  /\ left' = IF left > 0 THEN left - 1 ELSE 0
  /\ cell' = TRUE /\ wire' = Append(wire, Cell(txBfr, left'))
  /\ UNCHANGED <<circuit, queues, txBfr, rxBfr, accepted, released, pushed, bufs>>

(* Mutant: the packet is read and not taken from the queue.                   *)
TxPutEmptyBuf_Peek ==
  IF txInuse = <<>>
  THEN UNCHANGED <<txInuse, released, inproc>>
  ELSE /\ released' = Append(released, Head(txInuse))
       /\ inproc' = inproc - 1 /\ UNCHANGED txInuse

(* BufMgmtTxPutEmptyBuf: the oldest packet in use is released, whichever one  *)
(* the caller returns.                                                        *)
TxPutEmptyBuf ==
  IF txInuse = <<>>
  THEN UNCHANGED <<txInuse, released, inproc>>
  ELSE /\ txInuse' = Tail(txInuse)
       /\ released' = Append(released, Head(txInuse))
       /\ inproc' = inproc - 1

(* Mutant: a packet is returned before its last cell.                         *)
PutLastCell_AnyCell ==
  /\ Starts("put")
  /\ txBfr # NoPacket
  /\ TxPutEmptyBuf
  /\ txBfr' = NoPacket /\ cell' = FALSE
  /\ UNCHANGED <<circuit, txRdy, rxRdy, rxInuse, left, rxBfr, accepted, wire, pushed, bufs>>

(* FrameALAALTxPutEmptyBuf after the last cell of a packet, ...               *)
PutLastCell ==
  /\ Starts("put")
  /\ txBfr # NoPacket /\ left = 0
  /\ TxPutEmptyBuf
  /\ txBfr' = NoPacket /\ cell' = FALSE
  /\ UNCHANGED <<circuit, txRdy, rxRdy, rxInuse, left, rxBfr, accepted, wire, pushed, bufs>>

(* Mutant: the packet is forgotten after any cell.                            *)
PutCell_Forgets ==
  /\ Starts("put")
  /\ txBfr = NoPacket \/ left > 0
  /\ txBfr' = NoPacket /\ cell' = FALSE
  /\ UNCHANGED <<circuit, queues, left, rxBfr, linux>>

(* ... and after any other cell.                                              *)
PutCell ==
  /\ Starts("put")
  /\ txBfr = NoPacket \/ left > 0
  /\ cell' = FALSE
  /\ UNCHANGED <<circuit, queues, aal, linux>>
-------------------------------------------------------------------------------
(* FrameALAALRxPutFullBuf without a buffer: alloc_skb fails in                *)
(* BufMgmtRxGetEmptyBuf and the cell is dropped.                              *)
RxNoBuffer ==
  /\ Starts("rx")
  /\ rxBfr = NoBuffer /\ rxRdy = <<>>
  /\ UNCHANGED <<circuit, cell, queues, aal, linux>>

(* The buffer FrameALAALRxPutFullBuf stores a cell in, and the queues after   *)
(* BufMgmtRxGetEmptyBuf, if it had to call it.                                *)
RxBuffer == IF rxBfr # NoBuffer THEN [bfr |-> rxBfr, rdy |-> rxRdy, inuse |-> rxInuse, bufs |-> bufs]
            ELSE IF rxRdy # <<>> THEN [bfr |-> Head(rxRdy), rdy |-> Tail(rxRdy),
                                       inuse |-> Append(rxInuse, Head(rxRdy)), bufs |-> bufs]
            ELSE [bfr |-> bufs + 1, rdy |-> rxRdy,
                  inuse |-> Append(rxInuse, bufs + 1), bufs |-> bufs + 1]

(* Mutants: a buffer is kept without a look at what memory                    *)
(* gives, and a frame is passed up and its buffer kept.                       *)
RxKeep_Unbounded ==
  /\ Starts("rx")
  /\ rxBfr' = RxBuffer.bfr /\ rxRdy' = RxBuffer.rdy
  /\ rxInuse' = RxBuffer.inuse /\ bufs' = RxBuffer.bufs
  /\ UNCHANGED <<circuit, cell, txRdy, txInuse, inproc, txBfr, left, accepted, released, wire, pushed>>

RxFrame_KeepsPointer ==
  /\ Starts("rx")
  /\ RxBuffer.bufs <= Buffers /\ RxBuffer.inuse # <<>>
  /\ rxBfr' = RxBuffer.bfr
  /\ rxInuse' = Tail(RxBuffer.inuse) /\ pushed' = Append(pushed, Head(RxBuffer.inuse))
  /\ bufs' = RxBuffer.bufs /\ rxRdy' = RxBuffer.rdy
  /\ UNCHANGED <<circuit, cell, txRdy, txInuse, inproc, txBfr, left, accepted, released, wire>>

(* A cell in the middle of a frame, or one that ends a frame whose CRC or     *)
(* length is wrong: the buffer is kept, for the rest or for the next frame.   *)
RxKeep ==
  /\ Starts("rx")
  /\ RxBuffer.bufs <= Buffers
  /\ rxBfr' = RxBuffer.bfr /\ rxRdy' = RxBuffer.rdy
  /\ rxInuse' = RxBuffer.inuse /\ bufs' = RxBuffer.bufs
  /\ UNCHANGED <<circuit, cell, txRdy, txInuse, inproc, txBfr, left, accepted, released, wire, pushed>>

(* The last cell of a good frame: BufMgmtRxPutFullBuf takes the oldest buffer *)
(* in use, pushes it if it is the one returned to it, and refills RXBufRdyQ   *)
(* if that is empty and there is memory.                                      *)
RxFrame ==
  /\ Starts("rx")
  /\ RxBuffer.bufs <= Buffers
  /\ rxBfr' = NoBuffer
  /\ IF RxBuffer.inuse = <<>>
     THEN bufs' = RxBuffer.bufs /\ rxRdy' = RxBuffer.rdy /\ UNCHANGED <<rxInuse, pushed>>
     ELSE /\ rxInuse' = Tail(RxBuffer.inuse)
          /\ pushed' = IF Head(RxBuffer.inuse) = RxBuffer.bfr
                       THEN Append(pushed, RxBuffer.bfr) ELSE pushed
          /\ \/ RxBuffer.rdy = <<>> /\ RxBuffer.bufs < Buffers
                /\ bufs' = RxBuffer.bufs + 1 /\ rxRdy' = <<bufs'>>
             \/ bufs' = RxBuffer.bufs /\ rxRdy' = RxBuffer.rdy
  /\ UNCHANGED <<circuit, cell, txRdy, txInuse, inproc, txBfr, left, accepted, released, wire>>

(* The handler returns from the layer above and clears InVCALCNXT.            *)
Return(c) ==
  /\ pc[c] = "in"
  /\ pc' = [pc EXCEPT ![c] = "out"] /\ active' = active \ {c}
  /\ UNCHANGED <<circuit, cell, queues, aal, linux>>
-------------------------------------------------------------------------------
(* CmgmtClose: FrameALATMVCShutdown clears the functions of the layer above.  *)
CloseVc ==
  /\ stage = "open" /\ Thread
  /\ ready' = FALSE
  /\ stage' = IF fal THEN "check" ELSE "drain"
  /\ sap' = FALSE
  /\ UNCHANGED <<bm, fal, opens, fails, calls, queues, aal, linux>>

(* It looks for calls still active.  With one, FrameALVCShutdown leaves the   *)
(* context as it is, marked FRAMEAL_VC_DEACTIVE_PEND, which nothing reads.    *)
CloseCheck ==
  /\ stage = "check" /\ Thread
  /\ stage' = IF active = {} THEN "release" ELSE "drain"
  /\ UNCHANGED <<ready, bm, fal, sap, opens, fails, calls, queues, aal, linux>>

(* Mutant: the AAL layer forgets its buffers.                                 *)
CloseRelease_Forgets ==
  /\ stage = "release" /\ Thread
  /\ stage' = "drain" /\ fal' = FALSE
  /\ txBfr' = NoPacket /\ rxBfr' = NoBuffer /\ left' = 0
  /\ UNCHANGED <<ready, bm, sap, opens, fails, calls, queues, linux>>

(* BufMgmtRxPutEmptyBuf: the oldest buffer in use becomes ready again.        *)
RxPutEmptyBuf ==
  IF rxInuse = <<>>
  THEN UNCHANGED <<rxInuse, rxRdy>>
  ELSE rxInuse' = Tail(rxInuse) /\ rxRdy' = Append(rxRdy, Head(rxInuse))

(* The two buffers the AAL layer holds are returned.                          *)
FrameALAALVCShutdown ==
  /\ IF txBfr # NoPacket THEN TxPutEmptyBuf ELSE UNCHANGED <<txInuse, released, inproc>>
  /\ IF rxBfr # NoBuffer THEN RxPutEmptyBuf ELSE UNCHANGED <<rxInuse, rxRdy>>

(* FrameALVCShutdown: the buffers are returned and the context is freed.      *)
CloseRelease ==
  /\ stage = "release" /\ Thread
  /\ stage' = "drain" /\ fal' = FALSE
  /\ FrameALAALVCShutdown
  /\ txBfr' = NoPacket /\ rxBfr' = NoBuffer /\ left' = 0
  /\ UNCHANGED <<ready, bm, sap, opens, fails, calls, txRdy, accepted, wire, pushed, bufs>>

(* Mutant: the packets that are ready stay in their queue.                    *)
CloseDrain_KeepsPackets ==
  /\ stage = "drain" /\ Thread
  /\ stage' = "free"
  /\ rxRdy' = <<>>
  /\ UNCHANGED <<ready, bm, fal, sap, opens, fails, calls, txRdy, txInuse, rxInuse, inproc, aal, linux>>

(* BufMgmtVcShutdown empties the queues of buffers that are ready, without    *)
(* counting the packets down, ...                                             *)
CloseDrain ==
  /\ stage = "drain" /\ Thread
  /\ stage' = "free"
  /\ released' = released \o txRdy
  /\ txRdy' = <<>> /\ rxRdy' = <<>>
  /\ UNCHANGED <<ready, bm, fal, sap, opens, fails, calls, txInuse, rxInuse, inproc, aal,
                 accepted, wire, pushed, bufs>>

(* ... and frees its context unless FrameAL still has a buffer.  The circuit  *)
(* is marked free either way.                                                 *)
CloseFree ==
  /\ stage = "free" /\ Thread
  /\ stage' = "closed"
  /\ IF txInuse = <<>> /\ rxInuse = <<>>
     THEN bm' = FALSE /\ inproc' = 0 /\ txRdy' = <<>> /\ UNCHANGED <<txInuse, rxInuse, rxRdy>>
     ELSE UNCHANGED <<bm, queues>>
  /\ UNCHANGED <<ready, fal, sap, opens, fails, calls, aal, linux>>

Open   == OpenVc \/ OpenAal \/ OpenNoBufMgmt \/ OpenNoFrameAL
Close  == CloseVc \/ CloseCheck \/ CloseRelease \/ CloseDrain \/ CloseFree
TxCall == GetNothing \/ GetFirstCell \/ GetNextCell \/ PutLastCell \/ PutCell
RxCall == RxNoBuffer \/ RxKeep \/ RxFrame

Next ==
  \/ Open \/ Close \/ TxCall \/ RxCall \/ PutNothing
  \/ \E n \in 1 .. MaxCells : Send(n)
  \/ \E c \in Calls : Enter(c) \/ Return(c)

Spec == Init /\ [][Next]_vars

(* The transmit channel asks for cells again and again: its segments complete *)
(* and its timer fires every 40 ms.  A call that has begun, and a thread that *)
(* opens or closes the circuit, run on.                                       *)
Fairness ==
  /\ SF_vars(Enter("get")) /\ WF_vars(Enter("put")) /\ WF_vars(PutNothing)
  /\ WF_vars(TxCall) /\ WF_vars(RxCall)
  /\ \A c \in Calls : WF_vars(Return(c))
  /\ SF_vars(OpenAal)
  /\ SF_vars(CloseCheck) /\ SF_vars(CloseRelease) /\ SF_vars(CloseDrain) /\ SF_vars(CloseFree)

LiveSpec == Spec /\ Fairness
-------------------------------------------------------------------------------
CircuitOK ==
  /\ stage \in {"closed", "init", "open", "check", "release", "drain", "free"}
  /\ ready \in BOOLEAN /\ bm \in BOOLEAN /\ fal \in BOOLEAN /\ sap \in BOOLEAN
  /\ opens \in 0 .. MaxOpen /\ fails \in 0 .. MaxFail
CallsOK ==
  active \subseteq Calls /\ pc \in [Calls -> {"out", "found", "in"}] /\ cell \in BOOLEAN
QueuesOK ==
  /\ txRdy \in Seq(Packet) /\ txInuse \in Seq(Packet)
  /\ rxRdy \in Seq(1 .. Buffers) /\ rxInuse \in Seq(1 .. Buffers)
  /\ inproc \in Int
AalOK ==
  txBfr \in Packet \cup {NoPacket} /\ left \in Nat /\ rxBfr \in 0 .. Buffers
LinuxOK ==
  /\ accepted \in Seq(Packet) /\ released \in Seq(Packet)
  /\ pushed \in Seq(1 .. Buffers) /\ bufs \in 0 .. Buffers
TypeOK == CircuitOK /\ CallsOK /\ QueuesOK /\ AalOK /\ LinuxOK

(* What the AAL layer holds is what BufMgmt has in use, so that the packet    *)
(* BufMgmtTxPutEmptyBuf takes from TXBufInuseQ is always the one returned.    *)
TxInSync == txInuse = IF txBfr = NoPacket THEN <<>> ELSE <<txBfr>>

(* The same for the buffer of BufMgmtRxPutFullBuf, which is not passed up     *)
(* and is never freed if the two differ.                                      *)
RxInSync == rxInuse = IF rxBfr = NoBuffer THEN <<>> ELSE <<rxBfr>>

(* No packet is lost, given back twice or overtaken, whether it is sent or    *)
(* the circuit is closed around it: those released, in use and ready are, in  *)
(* that order, the packets BufMgmtSend accepted.                              *)
NothingLost == (released \o txInuse) \o txRdy = accepted

(* A call into the layers above, and a cell not put back yet, keep the        *)
(* circuit whole: the thread that closes it does not run in between.          *)
CallsInsideCircuit ==
  /\ ~NoHandler => fal /\ sap
  /\ sap => fal /\ stage \in {"init", "open"}
  /\ fal => bm /\ stage \in {"init", "open", "check", "release"}
  /\ active = {c \in Calls : pc[c] = "in"}

(* What is left of a circuit at each stage.                                   *)
Remains ==
  /\ stage \in {"free", "closed"} /\ ~LateSends => txRdy = <<>>
  /\ stage = "init" => txRdy = <<>> /\ txBfr = NoPacket
  /\ ~fal => txBfr = NoPacket /\ rxBfr = NoBuffer
  /\ stage = "init" /\ ~EarlyCells => rxBfr = NoBuffer /\ pc["rx"] = "out"
===============================================================================
