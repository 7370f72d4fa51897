---------------------------------- MODULE Aal5 ---------------------------------
(* AAL5 as FrameALAAL.c does it.  FrameALAALTxProcessBuf extends a packet by  *)
(* padding and a trailer to whole cells, in the packet's own memory where     *)
(* that has room and in the scratch memory ExtraPad where it has not.         *)
(* FrameALAALTxGetFullBuf then walks over both memories, one cell per call.   *)
(* At the other end of the line FrameALAALRxPutFullBuf collects cells up to   *)
(* one with the AUU bit and FrameALAALRxProcessBuf decides what becomes of    *)
(* them.  The line is a modem at either end and loses cells.  INIT_AAL5_      *)
(* PADDING and RAS_TMR_ACTIVE are 0, as they are in the source: the padding   *)
(* is not written and there is no reassembly timer.                           *)
(* Bytes are not modelled one by one: a cell is described by the part of the  *)
(* payload it carries.  The CRC is ideal: it tells any two different frames   *)
(* apart.                                                                     *)
EXTENDS Integers, Sequences, FiniteSets

CONSTANTS Lengths,   \* lengths of packets
          Rooms,     \* bytes from the end of a packet to the end of its memory
          RxRooms,   \* bytes from the start of a receive buffer to its end
          Frames,    \* bound: packets sent
          Window,    \* bound: cells on the line
          MaxLost    \* bound: cells lost

ASSUME AalAssumption ==
  /\ Lengths \subseteq Nat /\ Rooms \subseteq Nat /\ RxRooms \subseteq Nat
  /\ Frames \in Nat /\ Window \in Nat /\ MaxLost \in Nat

CELL_PAYLOAD_SIZE == 48
AAL5_TRLR_SIZE    == 8
MAX_PADDING       == 47

(* A packet has data, and its length fits a WORD.                             *)
ASSUME LengthAssumption == \A len \in Lengths : 0 < len /\ len < 65536

VARIABLES pkt,        \* the packet in AALxTxBfr
          plan,       \* what FrameALAALTxProcessBuf made of it
          rbuf, rpad, \* RemainingBufferLength, RemainingPadLength
          ptr,        \* AALxTx48BytePtr: a memory and an offset in it
          cut,        \* for each packet sent, its length and what its CRC covers
          line,       \* cells on their way
          rxBfr,      \* AALxRxBfr # NULL
          rx,         \* the cells stored in it
          rxEnd,      \* its size
          pushed,     \* frames passed up to buffer management
          lost        \* the cells lost, by frame and number

tx      == <<pkt, plan, rbuf, rpad, ptr, cut>>
receive == <<rxBfr, rx, rxEnd, pushed>>
vars    == <<tx, line, receive, lost>>

NoPacket == [id |-> 0, len |-> 0, end |-> 0]
NoPlan   == [buf |-> 0, pad |-> 0, from |-> 0]
MinOf(a, b) == IF a < b THEN a ELSE b
Data(off)  == [mem |-> "data", off |-> off]
Extra(off) == [mem |-> "ExtraPad", off |-> off]

Init ==
  /\ pkt = NoPacket /\ plan = NoPlan /\ rbuf = 0 /\ rpad = 0 /\ ptr = Data(0)
  /\ cut = <<>> /\ line = <<>> /\ lost = {}
  /\ rxBfr = FALSE /\ rx = <<>> /\ rxEnd \in RxRooms /\ pushed = <<>>
-------------------------------------------------------------------------------
(* Mutant: a trailer that just fits is taken for one that does not.           *)
Padding_Boundary(len) ==
  LET mod == len % CELL_PAYLOAD_SIZE IN
  IF mod < CELL_PAYLOAD_SIZE - AAL5_TRLR_SIZE
  THEN CELL_PAYLOAD_SIZE - mod - AAL5_TRLR_SIZE
  ELSE (CELL_PAYLOAD_SIZE - mod) + (CELL_PAYLOAD_SIZE - AAL5_TRLR_SIZE)

(* The padding between payload and trailer, in the last cell or the last two. *)
Padding(len) ==
  LET mod == len % CELL_PAYLOAD_SIZE IN
  IF mod <= CELL_PAYLOAD_SIZE - AAL5_TRLR_SIZE
  THEN CELL_PAYLOAD_SIZE - mod - AAL5_TRLR_SIZE
  ELSE (CELL_PAYLOAD_SIZE - mod) + (CELL_PAYLOAD_SIZE - AAL5_TRLR_SIZE)

(* Mutant: a trailer that has to go to ExtraPad is written in place.          *)
TxProcessBuf_InPlace(len, end) ==
  [buf |-> len + Padding(len) + AAL5_TRLR_SIZE, pad |-> 0, from |-> len]

(* How much is sent from the packet's memory, how much from ExtraPad, and     *)
(* from where on the payload was copied to ExtraPad.                          *)
TxProcessBuf(len, end) ==
  LET padding == Padding(len)
      whole   == len - (len % CELL_PAYLOAD_SIZE)
  IN IF len + padding + AAL5_TRLR_SIZE < end
     THEN [buf |-> len + padding + AAL5_TRLR_SIZE, pad |-> 0, from |-> len]
     ELSE IF padding <= 40
     THEN [buf |-> whole, pad |-> CELL_PAYLOAD_SIZE, from |-> whole]
     ELSE IF len + padding - 40 <= end
     THEN [buf |-> len + padding + AAL5_TRLR_SIZE - CELL_PAYLOAD_SIZE,
           pad |-> CELL_PAYLOAD_SIZE, from |-> len]
     ELSE [buf |-> whole, pad |-> 2 * CELL_PAYLOAD_SIZE, from |-> whole]

(* The 48 bytes at a place in the memory of packet p: the part of the payload *)
(* they hold, whether they end in the trailer, and whether they are in memory *)
(* that belongs to the packet.                                                *)
Bytes(p, t, at) ==
  LET first == MinOf(IF at.mem = "data" THEN at.off ELSE t.from + at.off, p.len)
  IN [id |-> p.id, first |-> first, n |-> MinOf(p.len - first, CELL_PAYLOAD_SIZE),
      trailer |-> at.off + CELL_PAYLOAD_SIZE = (IF at.mem = "data" THEN t.buf + t.pad ELSE t.pad),
      inside |-> at.off + CELL_PAYLOAD_SIZE <= (IF at.mem = "data" THEN p.end
                                                ELSE 2 * CELL_PAYLOAD_SIZE)]

(* What the CRC is calculated over, in units of cells.                        *)
Covered(p, t) ==
  [i \in 1 .. (t.buf + t.pad) \div CELL_PAYLOAD_SIZE |->
     LET off == (i - 1) * CELL_PAYLOAD_SIZE
     IN Bytes(p, t, IF off < t.buf THEN Data(off) ELSE Extra(off - t.buf))]

(* FrameALAALTxGetFullBuf takes the next packet from buffer management.       *)
TakePacket(len, room) ==
  /\ pkt = NoPacket /\ Len(cut) < Frames
  /\ pkt'  = [id |-> Len(cut) + 1, len |-> len, end |-> len + room]
  /\ plan' = TxProcessBuf(len, len + room)
  /\ rbuf' = plan'.buf /\ rpad' = plan'.pad
  /\ ptr'  = IF plan'.buf > 0 THEN Data(0) ELSE Extra(0)
  /\ cut'  = Append(cut, [len |-> len, crc |-> Covered(pkt', plan')])
  /\ UNCHANGED <<line, receive, lost>>

Name(cell) == <<cell.bytes.id, cell.nr>>
Number     == (plan.buf + plan.pad - rbuf - rpad) \div CELL_PAYLOAD_SIZE + 1

(* Mutant: the pointer does not change over to ExtraPad.                      *)
GetCell_StaysInBuffer ==
  /\ pkt # NoPacket /\ rbuf + rpad > 0 /\ Len(line) < Window
  /\ rbuf' = IF rbuf > 0 THEN rbuf - CELL_PAYLOAD_SIZE ELSE rbuf
  /\ rpad' = IF rbuf = 0 /\ rpad > 0 THEN rpad - CELL_PAYLOAD_SIZE ELSE rpad
  /\ ptr'  = [ptr EXCEPT !.off = ptr.off + CELL_PAYLOAD_SIZE]
  /\ line' = Append(line, [bytes |-> Bytes(pkt, plan, ptr), nr |-> Number,
                          auu |-> rbuf' = 0 /\ rpad' = 0])
  /\ UNCHANGED <<pkt, plan, cut, receive, lost>>

(* It cuts the next cell of the packet.                                       *)
GetCell ==
  /\ pkt # NoPacket /\ rbuf + rpad > 0 /\ Len(line) < Window
  /\ rbuf' = IF rbuf > 0 THEN rbuf - CELL_PAYLOAD_SIZE ELSE rbuf
  /\ rpad' = IF rbuf = 0 /\ rpad > 0 THEN rpad - CELL_PAYLOAD_SIZE ELSE rpad
  /\ ptr'  = IF rbuf > 0 /\ rbuf' = 0 THEN Extra(0)
             ELSE [ptr EXCEPT !.off = ptr.off + CELL_PAYLOAD_SIZE]
  /\ line' = Append(line, [bytes |-> Bytes(pkt, plan, ptr), nr |-> Number,
                          auu |-> rbuf' = 0 /\ rpad' = 0])
  /\ UNCHANGED <<pkt, plan, cut, receive, lost>>

(* FrameALAALTxPutEmptyBuf after the last cell.                               *)
PutPacket ==
  /\ pkt # NoPacket /\ rbuf = 0 /\ rpad = 0
  /\ pkt' = NoPacket
  /\ UNCHANGED <<plan, rbuf, rpad, ptr, cut, line, receive, lost>>
-------------------------------------------------------------------------------
(* A cell is lost on the line, or because the receiver holds no buffer and    *)
(* alloc_skb fails in BufMgmtRxGetEmptyBuf: it is stored nowhere either way.  *)
LoseCell ==
  /\ line # <<>> /\ Cardinality(lost) < MaxLost
  /\ lost' = lost \cup {Name(Head(line))} /\ line' = Tail(line)
  /\ UNCHANGED <<tx, receive>>

Size(cells) == CELL_PAYLOAD_SIZE * Len(cells)
Stored      == Append(rx, Head(line).bytes)
Fits        == Size(Stored) <= rxEnd
Complete    == Head(line).auu \/ Size(Stored) >= rxEnd

(* Mutant: the limits of the length are not looked at, nor is the CRC.        *)
RxProcessBuf_Trusts(cells) == cells[Len(cells)].trailer

(* The trailer is in the last cell.  The CRC has to match, the length to fit  *)
(* the number of cells, and the buffer must not be full.                      *)
RxProcessBuf(cells) ==
  LET frame == cut[cells[Len(cells)].id] IN
  /\ cells = frame.crc
  /\ Size(cells) - frame.len \in AAL5_TRLR_SIZE .. AAL5_TRLR_SIZE + MAX_PADDING
  /\ Size(cells) < rxEnd

(* FrameALAALRxPutFullBuf: a cell in the middle of a frame, ...               *)
RxCell ==
  /\ line # <<>> /\ Fits /\ ~Complete
  /\ rxBfr' = TRUE /\ rx' = Stored /\ line' = Tail(line)
  /\ UNCHANGED <<tx, rxEnd, pushed, lost>>

(* ... the end of a good frame, ...                                           *)
RxFrame ==
  /\ line # <<>> /\ Fits /\ Complete /\ RxProcessBuf(Stored)
  /\ LET id == Head(line).bytes.id
     IN pushed' = Append(pushed, [id |-> id, len |-> cut[id].len, cells |-> Stored])
  /\ rxBfr' = FALSE /\ rx' = <<>> /\ line' = Tail(line)
  /\ UNCHANGED <<tx, rxEnd, lost>>

(* Mutant: a bad frame stays in the buffer.                                   *)
RxDiscard_Keeps ==
  /\ line # <<>> /\ Fits /\ Complete /\ ~RxProcessBuf(Stored)
  /\ rxBfr' = TRUE /\ rx' = Stored /\ line' = Tail(line)
  /\ UNCHANGED <<tx, rxEnd, pushed, lost>>

(* ... of a bad one, whose cells are flushed and whose buffer is kept, ...    *)
RxDiscard ==
  /\ line # <<>> /\ Fits /\ Complete /\ ~RxProcessBuf(Stored)
  /\ rxBfr' = TRUE /\ rx' = <<>> /\ line' = Tail(line)
  /\ UNCHANGED <<tx, rxEnd, pushed, lost>>

(* ... or a cell the buffer has no room for.                                  *)
RxTooLong ==
  /\ line # <<>> /\ ~Fits
  /\ rxBfr' = TRUE /\ rx' = <<>> /\ line' = Tail(line)
  /\ UNCHANGED <<tx, rxEnd, pushed, lost>>

Next ==
  \/ \E len \in Lengths, room \in Rooms : TakePacket(len, room)
  \/ GetCell \/ PutPacket
  \/ LoseCell \/ RxCell \/ RxFrame \/ RxDiscard \/ RxTooLong

Spec == Init /\ [][Next]_vars
-------------------------------------------------------------------------------
Piece == [id : Nat, first : Int, n : Int, trailer : BOOLEAN, inside : BOOLEAN]

TxOK ==
  /\ pkt = NoPacket \/ /\ pkt \in [id : {Len(cut)}, len : Lengths, end : Nat]
                       /\ pkt.id > 0 /\ pkt.end - pkt.len \in Rooms
  /\ plan \in [buf : Nat, pad : Nat, from : Nat]
  /\ rbuf \in 0 .. plan.buf /\ rpad \in 0 .. plan.pad
  /\ ptr \in [mem : {"data", "ExtraPad"}, off : Nat]
  /\ cut \in Seq([len : Lengths, crc : Seq(Piece)])
LineOK ==
  /\ line \in Seq([bytes : Piece, nr : Nat, auu : BOOLEAN]) /\ Len(line) <= Window
  /\ lost \subseteq Nat \X Nat
RxOK ==
  /\ rxBfr \in BOOLEAN /\ rx \in Seq(Piece) /\ rxEnd \in RxRooms
  /\ rx # <<>> => rxBfr /\ Size(rx) < rxEnd
  /\ pushed \in Seq([id : Nat, len : Lengths, cells : Seq(Piece)])
TypeOK == TxOK /\ LineOK /\ RxOK

(* The walk over two memories in FrameALAALTxGetFullBuf sends, cell by cell,  *)
(* what FrameALAALTxProcessBuf calculated the CRC over, reads no byte outside *)
(* the packet's memory and ExtraPad, and marks the last cell, and only that.  *)
CellsAsCovered ==
  \A i \in DOMAIN line :
    LET crc == cut[line[i].bytes.id].crc IN
    /\ line[i].bytes.id \in DOMAIN cut /\ line[i].bytes.inside
    /\ line[i].nr \in DOMAIN crc /\ line[i].bytes = crc[line[i].nr]
    /\ line[i].auu <=> line[i].nr = Len(crc)
===============================================================================
