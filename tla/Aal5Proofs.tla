------------------------------- MODULE Aal5Proofs ------------------------------
(* Segmentation and reassembly, proved for any number of packets of every     *)
(* length with any room behind them, receive buffers of every size, and a     *)
(* line of any length that loses any number of cells.                         *)
EXTENDS MCAal5, SequenceTheorems, TLAPS
--------------------------------------------------------------------------------
(* Where things are in a queue that lost its head, or got a new last element. *)
LEMMA TailIs ==
  ASSUME NEW S, NEW q \in Seq(S), q # <<>>
  PROVE  /\ \A i \in DOMAIN Tail(q) : i + 1 \in DOMAIN q /\ Tail(q)[i] = q[i + 1] /\ i + 1 > 1
         /\ \A i, j \in DOMAIN Tail(q) : i < j => i + 1 < j + 1
         /\ \A i \in DOMAIN q : i # 1 => i > 1
         /\ Head(q) = q[1] /\ 1 \in DOMAIN q
OBVIOUS

LEMMA AppendIs ==
  ASSUME NEW S, NEW q \in Seq(S), NEW e
  PROVE  /\ \A i \in DOMAIN Append(q, e) :
              \/ i \in DOMAIN q /\ Append(q, e)[i] = q[i]
              \/ i = Len(q) + 1 /\ Append(q, e)[i] = e
         /\ \A i, j \in DOMAIN Append(q, e) : i < j => i \in DOMAIN q
OBVIOUS
--------------------------------------------------------------------------------
(* The padding and the trailer make a packet whole cells, and no more of them *)
(* than it takes.                                                             *)
LEMMA PaddingFits ==
  ASSUME NEW len \in Nat
  PROVE  /\ Padding(len) \in 0 .. MAX_PADDING
         /\ (len + Padding(len) + AAL5_TRLR_SIZE) % CELL_PAYLOAD_SIZE = 0
BY DEF Padding, MAX_PADDING, AAL5_TRLR_SIZE, CELL_PAYLOAD_SIZE

LEMMA PlanFits ==
  ASSUME NEW len \in Nat, NEW end \in Nat, len <= end
  PROVE  LET t == TxProcessBuf(len, end) IN
         /\ t.buf \in Nat /\ t.pad \in Nat
         /\ t.buf % CELL_PAYLOAD_SIZE = 0 /\ t.pad % CELL_PAYLOAD_SIZE = 0
         /\ t.buf <= end /\ t.pad <= 2 * CELL_PAYLOAD_SIZE
         /\ t.buf + t.pad = len + Padding(len) + AAL5_TRLR_SIZE
<1> DEFINE p == Padding(len)
<1>1. /\ p \in 0 .. 47 /\ (len + p + 8) % 48 = 0
      /\ p = IF len % 48 <= 40 THEN 40 - (len % 48) ELSE 88 - (len % 48)
  BY PaddingFits DEF Padding, MAX_PADDING, AAL5_TRLR_SIZE, CELL_PAYLOAD_SIZE
<1> HIDE DEF p
<1>2. (len - (len % 48)) % 48 = 0 /\ len - (len % 48) \in Nat
  OBVIOUS
<1>3. p <= 40 => len - (len % 48) + 48 = len + p + 8
  BY <1>1
<1>4. p > 40 => len - (len % 48) + 96 = len + p + 8
  BY <1>1
<1>5. (len + p + 8 - 48) % 48 = 0
  BY <1>1
<1>6. TxProcessBuf(len, end) =
        IF len + p + 8 < end THEN [buf |-> len + p + 8, pad |-> 0, from |-> len]
        ELSE IF p <= 40
        THEN [buf |-> len - (len % 48), pad |-> 48, from |-> len - (len % 48)]
        ELSE IF len + p - 40 <= end
        THEN [buf |-> len + p + 8 - 48, pad |-> 48, from |-> len]
        ELSE [buf |-> len - (len % 48), pad |-> 96, from |-> len - (len % 48)]
  BY DEF TxProcessBuf, p, AAL5_TRLR_SIZE, CELL_PAYLOAD_SIZE
<1>. QED
  BY <1>1, <1>2, <1>3, <1>4, <1>5, <1>6 DEF p, AAL5_TRLR_SIZE, CELL_PAYLOAD_SIZE

(* A packet is cut into the smallest number of cells that holds its payload   *)
(* and the trailer.                                                           *)
THEOREM FewestCells ==
  ASSUME NEW len \in Nat, NEW end \in Nat, len <= end
  PROVE  LET t == TxProcessBuf(len, end)
             cells == (t.buf + t.pad) \div CELL_PAYLOAD_SIZE
         IN /\ cells * CELL_PAYLOAD_SIZE >= len + AAL5_TRLR_SIZE
            /\ (cells - 1) * CELL_PAYLOAD_SIZE < len + AAL5_TRLR_SIZE
<1> DEFINE t == TxProcessBuf(len, end)
<1>1. t.buf + t.pad = len + Padding(len) + AAL5_TRLR_SIZE
  BY PlanFits
<1>2. Padding(len) \in 0 .. 47 /\ (len + Padding(len) + 8) % 48 = 0
  BY PaddingFits DEF MAX_PADDING, AAL5_TRLR_SIZE, CELL_PAYLOAD_SIZE
<1>3. ((len + Padding(len) + 8) \div 48) * 48 = len + Padding(len) + 8
  BY <1>2
<1>. QED
  BY <1>1, <1>2, <1>3 DEF AAL5_TRLR_SIZE, CELL_PAYLOAD_SIZE
-------------------------------------------------------------------------------
(* While a packet is cut, the two counters and the pointer agree: the pointer *)
(* is as far into the packet's memory, or into ExtraPad, as the counter has   *)
(* come down.                                                                 *)
WalkOK ==
  /\ rbuf % CELL_PAYLOAD_SIZE = 0 /\ rpad % CELL_PAYLOAD_SIZE = 0
  /\ pkt # NoPacket =>
       /\ plan.buf % CELL_PAYLOAD_SIZE = 0 /\ plan.pad % CELL_PAYLOAD_SIZE = 0
       /\ plan.buf <= pkt.end /\ plan.pad <= 2 * CELL_PAYLOAD_SIZE
       /\ cut[pkt.id].crc = Covered(pkt, plan)
       /\ rbuf > 0 => rpad = plan.pad
       /\ ptr = IF rbuf > 0 THEN Data(plan.buf - rbuf) ELSE Extra(plan.pad - rpad)

IInv == TypeOK /\ WalkOK /\ CellsAsCovered

Packets == [id : Nat, len : Lengths, end : Nat]
Plans   == [buf : Nat, pad : Nat, from : Nat]
Places  == [mem : {"data", "ExtraPad"}, off : Nat]

LEMMA BytesType ==
  ASSUME NEW p \in Packets, NEW t \in Plans, NEW at \in Places
  PROVE  Bytes(p, t, at) \in Piece
<1>1. p.len \in Int /\ p.id \in Nat /\ at.off \in Int /\ t.from \in Int
  <2>1. p.len \in Lengths /\ p.id \in Nat /\ at.off \in Nat /\ t.from \in Nat
    BY DEF Packets, Plans, Places
  <2>2. p.len \in Nat
    BY <2>1, AalAssumption
  <2>. QED
    BY <2>1, <2>2
<1> DEFINE first == MinOf(IF at.mem = "data" THEN at.off ELSE t.from + at.off, p.len)
           n == MinOf(p.len - first, CELL_PAYLOAD_SIZE)
           end == at.off + CELL_PAYLOAD_SIZE = (IF at.mem = "data" THEN t.buf + t.pad ELSE t.pad)
           in == at.off + CELL_PAYLOAD_SIZE <= (IF at.mem = "data" THEN p.end
                                                ELSE 2 * CELL_PAYLOAD_SIZE)
<1>2. first \in Int /\ n \in Int
  BY <1>1 DEF MinOf, CELL_PAYLOAD_SIZE
<1>3. end \in BOOLEAN /\ in \in BOOLEAN
  OBVIOUS
<1>4. Bytes(p, t, at) = [id |-> p.id, first |-> first, n |-> n, trailer |-> end, inside |-> in]
  BY DEF Bytes
<1> HIDE DEF first, n, end, in
<1>. QED
  BY <1>1, <1>2, <1>3, <1>4 DEF Piece

LEMMA CoveredType ==
  ASSUME NEW p \in Packets, NEW t \in Plans
  PROVE  Covered(p, t) \in Seq(Piece) /\ Len(Covered(p, t)) = (t.buf + t.pad) \div 48
<1> DEFINE n == (t.buf + t.pad) \div 48
           place(i) == IF (i - 1) * 48 < t.buf THEN Data((i - 1) * 48)
                       ELSE Extra((i - 1) * 48 - t.buf)
<1>1. n \in Nat
  BY DEF Plans
<1>2. ASSUME NEW i \in 1 .. n PROVE Bytes(p, t, place(i)) \in Piece
  <2>1. place(i) \in Places
    BY DEF Places, Plans, Data, Extra
  <2>. QED
    BY <2>1, BytesType
<1>3. Covered(p, t) = [i \in 1 .. n |-> Bytes(p, t, place(i))]
  BY DEF Covered, CELL_PAYLOAD_SIZE
<1> HIDE DEF n, place
<1>. QED
  BY <1>1, <1>2, <1>3 DEF n

LEMMA CoveredAt ==
  ASSUME NEW p \in Packets, NEW t \in Plans, NEW i \in 1 .. (t.buf + t.pad) \div 48
  PROVE  Covered(p, t)[i] = Bytes(p, t, IF (i - 1) * 48 < t.buf THEN Data((i - 1) * 48)
                                        ELSE Extra((i - 1) * 48 - t.buf))
BY DEF Covered, CELL_PAYLOAD_SIZE

LEMMA InitIInv == Init => IInv
<1> SUFFICES ASSUME Init PROVE IInv
  OBVIOUS
<1>1. TxOK
  BY DEF Init, TxOK, NoPlan, Data
<1>2. LineOK
  BY AalAssumption DEF Init, LineOK
<1>3. RxOK
  <2>1. rxBfr \in BOOLEAN
    BY DEF Init
  <2>2. rx \in Seq(Piece) /\ (rx # <<>> => rxBfr /\ Size(rx) < rxEnd)
    BY DEF Init
  <2>3. rxEnd \in RxRooms /\ pushed \in Seq([id : Nat, len : Lengths, cells : Seq(Piece)])
    BY DEF Init
  <2>. QED
    BY <2>1, <2>2, <2>3 DEF RxOK
<1>4. WalkOK
  BY DEF Init, WalkOK, CELL_PAYLOAD_SIZE
<1>5. CellsAsCovered
  BY DEF Init, CellsAsCovered
<1>. QED
  BY <1>1, <1>2, <1>3, <1>4, <1>5 DEF IInv, TypeOK, LineOK, RxOK

(* The packet taken next, what is made of it and what its CRC covers.         *)
LEMMA Taken ==
  ASSUME TypeOK, NEW len \in Lengths, NEW room \in Rooms, TakePacket(len, room)
  PROVE  /\ pkt' = [id |-> Len(cut) + 1, len |-> len, end |-> len + room]
         /\ pkt' \in Packets /\ plan' \in Plans /\ pkt' # NoPacket
         /\ plan'.buf % 48 = 0 /\ plan'.pad % 48 = 0
         /\ plan'.buf <= pkt'.end /\ plan'.pad <= 96
         /\ Covered(pkt', plan') \in Seq(Piece)
<1>1. len \in Nat /\ room \in Nat /\ Len(cut) \in Nat
  BY AalAssumption DEF TypeOK, TxOK
<1>2. pkt' = [id |-> Len(cut) + 1, len |-> len, end |-> len + room]
      /\ plan' = TxProcessBuf(len, len + room)
  BY DEF TakePacket
<1>3. pkt' \in Packets /\ pkt' # NoPacket
  BY <1>1, <1>2 DEF Packets, NoPacket
<1>4. /\ plan'.buf \in Nat /\ plan'.pad \in Nat
      /\ plan'.buf % 48 = 0 /\ plan'.pad % 48 = 0
      /\ plan'.buf <= len + room /\ plan'.pad <= 96
  BY <1>1, <1>2, PlanFits DEF CELL_PAYLOAD_SIZE
<1>5. plan' \in Plans
  <2>1. len - (len % 48) \in Nat
    BY <1>1
  <2>2. \E b, q, f : plan' = [buf |-> b, pad |-> q, from |-> f]
                    /\ f \in {len, len - (len % 48)}
    BY <1>2 DEF TxProcessBuf, CELL_PAYLOAD_SIZE
  <2>. QED
    BY <1>1, <1>4, <2>1, <2>2 DEF Plans
<1>6. Covered(pkt', plan') \in Seq(Piece)
  BY <1>3, <1>5, CoveredType
<1>. QED
  BY <1>2, <1>3, <1>4, <1>5, <1>6

(* A cell that is received is one that was sent, and can be stored.           *)
LEMMA Received ==
  ASSUME IInv, line # <<>>
  PROVE  /\ Head(line) \in [bytes : Piece, nr : Nat, auu : BOOLEAN]
         /\ Tail(line) \in Seq([bytes : Piece, nr : Nat, auu : BOOLEAN])
         /\ Len(Tail(line)) = Len(line) - 1
         /\ Head(line).bytes.id \in DOMAIN cut
         /\ Stored \in Seq(Piece) /\ Len(Stored) = Len(rx) + 1
<1>1. line \in Seq([bytes : Piece, nr : Nat, auu : BOOLEAN]) /\ rx \in Seq(Piece)
  BY DEF IInv, TypeOK, LineOK, RxOK
<1>2. 1 \in DOMAIN line /\ Head(line) = line[1]
  BY <1>1
<1>3. Head(line).bytes.id \in DOMAIN cut
  BY <1>2 DEF IInv, CellsAsCovered
<1>4. line[1] \in [bytes : Piece, nr : Nat, auu : BOOLEAN]
  <2> DEFINE C == [bytes : Piece, nr : Nat, auu : BOOLEAN]
  <2>1. line \in Seq(C) /\ 1 \in DOMAIN line
    BY <1>1, <1>2
  <2> HIDE DEF C
  <2>2. line[1] \in C
    BY <2>1
  <2>. QED
    BY <2>2 DEF C
<1>5. Head(line).bytes \in Piece
  BY <1>2, <1>4
<1>6. Stored \in Seq(Piece) /\ Len(Stored) = Len(rx) + 1
  BY <1>1, <1>5 DEF Stored
<1>. QED
  BY <1>1, <1>2, <1>3, <1>4, <1>6

(* Every step keeps the types.                                                *)
LEMMA TypeStep ==
  ASSUME IInv, [Next]_vars
  PROVE  TypeOK'
<1>0. TxOK /\ LineOK /\ RxOK /\ WalkOK /\ CellsAsCovered
  BY DEF IInv, TypeOK
<1>1. ASSUME NEW len \in Lengths, NEW room \in Rooms, TakePacket(len, room) PROVE TypeOK'
  <2>1. /\ pkt' = [id |-> Len(cut) + 1, len |-> len, end |-> len + room]
        /\ pkt' \in Packets /\ plan' \in Plans /\ Covered(pkt', plan') \in Seq(Piece)
    BY <1>0, <1>1, Taken DEF TypeOK
  <2>2. cut' = Append(cut, [len |-> len, crc |-> Covered(pkt', plan')])
    BY <1>1 DEF TakePacket
  <2>3. cut' \in Seq([len : Lengths, crc : Seq(Piece)]) /\ Len(cut') = Len(cut) + 1
    BY <1>0, <2>1, <2>2 DEF TxOK
  <2>4. len \in Nat /\ room \in Nat /\ Len(cut) \in Nat
    BY <1>0, AalAssumption DEF TxOK
  <2>5. /\ pkt' \in [id : {Len(cut')}, len : Lengths, end : Nat]
        /\ pkt'.id > 0 /\ pkt'.end - pkt'.len \in Rooms
    BY <2>1, <2>3, <2>4
  <2>6. rbuf' \in 0 .. plan'.buf /\ rpad' \in 0 .. plan'.pad
    BY <1>1, <2>1 DEF TakePacket, Plans
  <2>7. ptr' \in [mem : {"data", "ExtraPad"}, off : Nat]
    BY <1>1 DEF TakePacket, Data, Extra
  <2>8. TxOK'
    BY <2>1, <2>3, <2>5, <2>6, <2>7 DEF TxOK, Plans
  <2>9. LineOK' /\ RxOK'
    BY <1>0, <1>1 DEF TakePacket, LineOK, RxOK, receive, Size
  <2>. QED
    BY <2>8, <2>9 DEF TypeOK
<1>2. CASE GetCell
  <2>1. pkt \in Packets /\ plan \in Plans /\ ptr \in Places
    BY <1>0, <1>2 DEF GetCell, TxOK, Packets, Plans, Places
  <2>2. Bytes(pkt, plan, ptr) \in Piece
    BY <2>1, BytesType
  <2>3. rbuf' \in 0 .. plan.buf /\ rpad' \in 0 .. plan.pad
    <3>1. rbuf \in 0 .. plan.buf /\ rpad \in 0 .. plan.pad /\ plan.buf \in Nat /\ plan.pad \in Nat
      BY <1>0, <2>1 DEF TxOK, Plans
    <3>2. rbuf % 48 = 0 /\ rpad % 48 = 0
      BY <1>0 DEF WalkOK, CELL_PAYLOAD_SIZE
    <3>3. /\ rbuf' = IF rbuf > 0 THEN rbuf - 48 ELSE rbuf
          /\ rpad' = IF rbuf = 0 /\ rpad > 0 THEN rpad - 48 ELSE rpad
      BY <1>2 DEF GetCell, CELL_PAYLOAD_SIZE
    <3>. QED
      BY <3>1, <3>2, <3>3
  <2>4. ptr' \in [mem : {"data", "ExtraPad"}, off : Nat]
    <3>1. ptr.off + 48 \in Nat /\ ptr.mem \in {"data", "ExtraPad"}
      BY <2>1 DEF Places
    <3>2. ptr' = IF rbuf > 0 /\ rbuf' = 0 THEN Extra(0) ELSE [ptr EXCEPT !.off = ptr.off + 48]
      BY <1>2 DEF GetCell, CELL_PAYLOAD_SIZE
    <3>3. Extra(0) \in Places /\ [ptr EXCEPT !.off = ptr.off + 48] \in Places
      BY <2>1, <3>1 DEF Extra, Places
    <3>. QED
      BY <3>2, <3>3 DEF Places
  <2>5. Number \in Nat
    BY <1>0, <2>1 DEF TxOK, Plans, Number, CELL_PAYLOAD_SIZE
  <2>6. LineOK'
    <3>1. LET c == [bytes |-> Bytes(pkt, plan, ptr), nr |-> Number,
                    auu |-> rbuf' = 0 /\ rpad' = 0]
          IN c \in [bytes : Piece, nr : Nat, auu : BOOLEAN] /\ line' = Append(line, c)
      BY <1>2, <2>2, <2>5 DEF GetCell
    <3>. QED
      BY <1>0, <1>2, <3>1, AalAssumption DEF GetCell, LineOK
  <2>7. TxOK'
    BY <1>0, <1>2, <2>3, <2>4 DEF TxOK, GetCell
  <2>8. RxOK'
    BY <1>0, <1>2 DEF RxOK, GetCell, receive, Size
  <2>. QED
    BY <2>6, <2>7, <2>8 DEF TypeOK
<1>3. CASE PutPacket
  BY <1>0, <1>3 DEF TypeOK, TxOK, LineOK, RxOK, PutPacket, receive, Size
<1>4. ASSUME line # <<>>, line' = Tail(line) PROVE Len(line') <= Window
  BY <1>0, <1>4, Received, AalAssumption DEF LineOK
<1>5. ASSUME line # <<>>, line' = Tail(line), UNCHANGED tx PROVE TxOK'
  BY <1>0, <1>5 DEF TxOK, tx
<1>6. CASE LoseCell
  <2>1. Name(Head(line)) \in Nat \X Nat
    BY <1>6, Received DEF LoseCell, Name, Piece
  <2>2. LineOK'
    BY <1>0, <1>4, <1>6, <2>1, Received DEF LineOK, LoseCell
  <2>3. RxOK'
    BY <1>0, <1>6 DEF RxOK, LoseCell, receive, Size
  <2>. QED
    BY <1>5, <1>6, <2>2, <2>3 DEF TypeOK, LoseCell
<1>7. ASSUME RxCell \/ RxFrame \/ RxDiscard \/ RxTooLong PROVE LineOK' /\ TxOK'
  BY <1>0, <1>4, <1>5, <1>7, Received DEF LineOK, RxCell, RxFrame, RxDiscard, RxTooLong
<1>8. CASE RxCell
  <2>1. Size(Stored) < rxEnd
    <3>1. Size(Stored) \in Int /\ rxEnd \in Int
      BY <1>0, <1>8, Received, AalAssumption DEF RxCell, RxOK, Size, CELL_PAYLOAD_SIZE
    <3>. QED
      BY <1>8, <3>1 DEF RxCell, Complete
  <2>2. RxOK'
    BY <1>0, <1>8, <2>1, Received DEF RxOK, RxCell, Size
  <2>. QED
    BY <1>7, <1>8, <2>2 DEF TypeOK
<1>9. CASE RxFrame
  <2>1. LET f == [id |-> Head(line).bytes.id, len |-> cut[Head(line).bytes.id].len,
                  cells |-> Stored]
        IN f \in [id : Nat, len : Lengths, cells : Seq(Piece)] /\ pushed' = Append(pushed, f)
    <3>1. Head(line).bytes.id \in Nat /\ Head(line).bytes.id \in DOMAIN cut
      BY <1>9, Received DEF RxFrame, Piece
    <3>2. cut[Head(line).bytes.id].len \in Lengths
      <4> DEFINE C == [len : Lengths, crc : Seq(Piece)]
      <4>1. cut \in Seq(C)
        BY <1>0 DEF TxOK
      <4> HIDE DEF C
      <4>2. cut[Head(line).bytes.id] \in C
        BY <3>1, <4>1
      <4>. QED
        BY <4>2 DEF C
    <3>3. Stored \in Seq(Piece)
      BY <1>9, Received DEF RxFrame
    <3>4. pushed' = Append(pushed, [id |-> Head(line).bytes.id,
                                    len |-> cut[Head(line).bytes.id].len, cells |-> Stored])
      BY <1>9 DEF RxFrame
    <3>. QED
      BY <3>1, <3>2, <3>3, <3>4
  <2>2. pushed' \in Seq([id : Nat, len : Lengths, cells : Seq(Piece)])
    BY <1>0, <2>1 DEF RxOK
  <2>3. RxOK'
    <3>1. rxBfr' \in BOOLEAN
      BY <1>9 DEF RxFrame
    <3>2. rx' \in Seq(Piece) /\ (rx' # <<>> => rxBfr' /\ Size(rx') < rxEnd')
      BY <1>9 DEF RxFrame
    <3>3. rxEnd' \in RxRooms
      BY <1>0, <1>9 DEF RxFrame, RxOK
    <3>. QED
      BY <2>2, <3>1, <3>2, <3>3 DEF RxOK
  <2>. QED
    BY <1>7, <1>9, <2>3 DEF TypeOK
<1>10. CASE RxDiscard \/ RxTooLong
  <2>1. RxOK'
    <3>1. rxBfr' \in BOOLEAN
      BY <1>10 DEF RxDiscard, RxTooLong
    <3>2. rx' = <<>>
      BY <1>10 DEF RxDiscard, RxTooLong
    <3>3. /\ rxEnd' \in RxRooms
          /\ pushed' \in Seq([id : Nat, len : Lengths, cells : Seq(Piece)])
      BY <1>0, <1>10 DEF RxDiscard, RxTooLong, RxOK
    <3>. QED
      BY <3>1, <3>2, <3>3 DEF RxOK
  <2>. QED
    BY <1>7, <1>10, <2>1 DEF TypeOK
<1>11. CASE UNCHANGED vars
  BY <1>0, <1>11 DEF TypeOK, TxOK, LineOK, RxOK, vars, tx, receive, Size
<1>. QED
  BY <1>1, <1>2, <1>3, <1>6, <1>8, <1>9, <1>10, <1>11 DEF Next

(* The packet being cut is one of those the CRC was calculated over, and what *)
(* was said of a packet when it was taken is not changed later.               *)
LEMMA CutAt ==
  ASSUME IInv
  PROVE  /\ \A id \in DOMAIN cut : cut[id].crc \in Seq(Piece)
         /\ pkt # NoPacket => pkt \in Packets /\ pkt.id \in DOMAIN cut
<1>1. cut \in Seq([len : Lengths, crc : Seq(Piece)])
  BY DEF IInv, TypeOK, TxOK
<1>2. ASSUME NEW id \in DOMAIN cut PROVE cut[id].crc \in Seq(Piece)
  <2> DEFINE C == [len : Lengths, crc : Seq(Piece)]
  <2>1. cut \in Seq(C)
    BY <1>1
  <2> HIDE DEF C
  <2>2. cut[id] \in C
    BY <1>2, <2>1
  <2>. QED
    BY <2>2 DEF C
<1>3. ASSUME pkt # NoPacket PROVE pkt \in Packets /\ pkt.id \in DOMAIN cut
  <2>1. pkt \in [id : {Len(cut)}, len : Lengths, end : Nat] /\ pkt.id > 0
    BY <1>3 DEF IInv, TypeOK, TxOK
  <2>. QED
    BY <1>1, <2>1 DEF Packets
<1>. QED
  BY <1>2, <1>3

(* The next cell of b + p bytes in two memories of which r + q are left.       *)
LEMMA WalkArithmetic ==
  ASSUME NEW b \in Nat, NEW p \in Nat, NEW r \in 0 .. b, NEW q \in 0 .. p,
         b % 48 = 0, p % 48 = 0, r % 48 = 0, q % 48 = 0,
         r + q > 0, r > 0 => q = p
  PROVE  /\ b + p - r - q \in Nat /\ b + p \in Nat /\ b + p - r - q + 48 <= b + p
         /\ (b + p - r - q) % 48 = 0 /\ (b + p) % 48 = 0
         /\ b + p - r - q + 48 = b + p <=> r + q = 48
<1>1. /\ b + p - r - q \in Nat /\ b + p \in Nat
      /\ b + p - r - q + 48 <= b + p
  OBVIOUS
<1>2. (b + p) % 48 = 0 /\ (r + q) % 48 = 0
  OBVIOUS
<1>3. (b + p - r - q) % 48 = 0
  BY <1>1, <1>2
<1>. QED
  BY <1>1, <1>2, <1>3

(* The next cell of the packet is the one the CRC was calculated over there.  *)
LEMMA NextCell ==
  ASSUME IInv, GetCell
  PROVE  LET crc == cut[pkt.id].crc IN
         /\ Number \in 1 .. Len(crc)
         /\ Bytes(pkt, plan, ptr) = crc[Number]
         /\ Bytes(pkt, plan, ptr).inside
         /\ (rbuf' = 0 /\ rpad' = 0) <=> Number = Len(crc)
<1> DEFINE o == plan.buf + plan.pad - rbuf - rpad
           all == plan.buf + plan.pad
<1>1. pkt \in Packets /\ plan \in Plans /\ pkt.end \in Nat
  BY CutAt DEF GetCell, IInv, TypeOK, TxOK, Plans, Packets
<1>2. /\ plan.buf \in Nat /\ plan.pad \in Nat
      /\ rbuf \in 0 .. plan.buf /\ rpad \in 0 .. plan.pad
  BY <1>1 DEF IInv, TypeOK, TxOK, Plans
<1>3. /\ rbuf % 48 = 0 /\ rpad % 48 = 0 /\ plan.buf % 48 = 0 /\ plan.pad % 48 = 0
      /\ plan.buf <= pkt.end /\ plan.pad <= 96
      /\ rbuf > 0 => rpad = plan.pad
      /\ ptr = IF rbuf > 0 THEN Data(plan.buf - rbuf) ELSE Extra(plan.pad - rpad)
      /\ cut[pkt.id].crc = Covered(pkt, plan)
  BY DEF GetCell, IInv, WalkOK, CELL_PAYLOAD_SIZE
<1>4. /\ rbuf + rpad > 0
      /\ rbuf' = IF rbuf > 0 THEN rbuf - 48 ELSE rbuf
      /\ rpad' = IF rbuf = 0 /\ rpad > 0 THEN rpad - 48 ELSE rpad
  BY DEF GetCell, CELL_PAYLOAD_SIZE
<1>5. /\ o \in Nat /\ all \in Nat /\ o + 48 <= all
      /\ o % 48 = 0 /\ all % 48 = 0
      /\ (rbuf' = 0 /\ rpad' = 0) <=> o + 48 = all
  <2>1. /\ o \in Nat /\ all \in Nat /\ o + 48 <= all /\ o % 48 = 0 /\ all % 48 = 0
        /\ o + 48 = all <=> rbuf + rpad = 48
    <3>1. PICK b \in Nat, p \in Nat : b = plan.buf /\ p = plan.pad
      BY <1>2
    <3>2. rbuf \in 0 .. b /\ rpad \in 0 .. p
      BY <1>2, <3>1
    <3>3. /\ b % 48 = 0 /\ p % 48 = 0 /\ rbuf % 48 = 0 /\ rpad % 48 = 0
          /\ rbuf > 0 => rpad = p
          /\ rbuf + rpad > 0
      BY <1>3, <1>4, <3>1
    <3>4. /\ b + p - rbuf - rpad \in Nat /\ b + p \in Nat
          /\ b + p - rbuf - rpad + 48 <= b + p
          /\ (b + p - rbuf - rpad) % 48 = 0 /\ (b + p) % 48 = 0
          /\ b + p - rbuf - rpad + 48 = b + p <=> rbuf + rpad = 48
      BY <3>2, <3>3, WalkArithmetic
    <3>. QED
      BY <3>1, <3>4
  <2>2. (rbuf' = 0 /\ rpad' = 0) <=> rbuf + rpad = 48
    <3>1. rbuf \in Nat /\ rpad \in Nat
      BY <1>2
    <3>2. rbuf > 0 => rbuf >= 48
      BY <1>3, <3>1
    <3>3. rpad > 0 => rpad >= 48
      BY <1>3, <3>1
    <3>. QED
      BY <1>4, <3>1, <3>2, <3>3
  <2>. QED
    BY <2>1, <2>2
<1>6. ptr = IF o < plan.buf THEN Data(o) ELSE Extra(o - plan.buf)
  BY <1>2, <1>3
<1>7. Number = o \div 48 + 1
  BY DEF Number, CELL_PAYLOAD_SIZE
<1> HIDE DEF o, all
<1>8. /\ Number \in 1 .. all \div 48 /\ (Number - 1) * 48 = o
      /\ Number = all \div 48 <=> o + 48 = all
  BY <1>5, <1>7
<1>9. Covered(pkt, plan)[Number] = Bytes(pkt, plan, ptr)
  BY <1>1, <1>6, <1>8, CoveredAt DEF all
<1>10. Len(cut[pkt.id].crc) = all \div 48
  BY <1>1, <1>3, CoveredType DEF all
<1>11. Bytes(pkt, plan, ptr).inside
  <2>1. CASE rbuf > 0
    <3>1. ptr.mem = "data" /\ ptr.off + 48 <= pkt.end
      BY <1>1, <1>2, <1>3, <2>1 DEF Data
    <3>. QED
      BY <3>1 DEF Bytes, CELL_PAYLOAD_SIZE
  <2>2. CASE rbuf = 0
    <3>1. ptr.mem = "ExtraPad" /\ ptr.off = plan.pad - rpad
      BY <1>3, <2>2 DEF Extra
    <3>2. rpad >= 48
      BY <1>2, <1>3, <1>4, <2>2
    <3>3. ptr.off + CELL_PAYLOAD_SIZE <= 2 * CELL_PAYLOAD_SIZE
      BY <1>2, <1>3, <3>1, <3>2 DEF CELL_PAYLOAD_SIZE
    <3>. QED
      BY <3>1, <3>3 DEF Bytes
  <2>. QED
    BY <1>2, <2>1, <2>2
<1>. QED
  BY <1>3, <1>5, <1>8, <1>9, <1>10, <1>11

(* The counters, the pointer and the two memories stay together.              *)
LEMMA WalkStep ==
  ASSUME IInv, [Next]_vars
  PROVE  WalkOK'
<1>0. TypeOK /\ WalkOK
  BY DEF IInv
<1>1. ASSUME NEW len \in Lengths, NEW room \in Rooms, TakePacket(len, room) PROVE WalkOK'
  <2>1. /\ pkt' = [id |-> Len(cut) + 1, len |-> len, end |-> len + room]
        /\ plan' \in Plans /\ plan'.buf % 48 = 0 /\ plan'.pad % 48 = 0
        /\ plan'.buf <= pkt'.end /\ plan'.pad <= 96
    BY <1>0, <1>1, Taken
  <2>2. /\ rbuf' = plan'.buf /\ rpad' = plan'.pad
        /\ ptr' = IF plan'.buf > 0 THEN Data(0) ELSE Extra(0)
        /\ cut' = Append(cut, [len |-> len, crc |-> Covered(pkt', plan')])
    BY <1>1 DEF TakePacket
  <2>3. plan'.buf \in Nat /\ plan'.pad \in Nat
    BY <2>1 DEF Plans
  <2>4. cut'[pkt'.id].crc = Covered(pkt', plan')
    <3>1. cut \in Seq([len : Lengths, crc : Seq(Piece)])
      BY <1>0 DEF TypeOK, TxOK
    <3>2. cut'[Len(cut) + 1] = [len |-> len, crc |-> Covered(pkt', plan')]
      BY <2>2, <3>1
    <3>. QED
      BY <2>1, <3>2
  <2>5. ptr' = IF rbuf' > 0 THEN Data(plan'.buf - rbuf') ELSE Extra(plan'.pad - rpad')
    BY <2>2, <2>3
  <2>. QED
    BY <2>1, <2>2, <2>4, <2>5 DEF WalkOK, CELL_PAYLOAD_SIZE
<1>2. CASE GetCell
  <2>1. /\ plan \in Plans /\ rbuf \in 0 .. plan.buf /\ rpad \in 0 .. plan.pad
        /\ plan.buf \in Nat /\ plan.pad \in Nat
    BY <1>0, <1>2, CutAt DEF GetCell, TypeOK, TxOK, Plans
  <2>2. /\ rbuf + rpad > 0 /\ pkt # NoPacket
        /\ rbuf' = IF rbuf > 0 THEN rbuf - 48 ELSE rbuf
        /\ rpad' = IF rbuf = 0 /\ rpad > 0 THEN rpad - 48 ELSE rpad
        /\ ptr' = IF rbuf > 0 /\ rbuf' = 0 THEN Extra(0)
                  ELSE [ptr EXCEPT !.off = ptr.off + 48]
        /\ UNCHANGED <<pkt, plan, cut>>
    BY <1>2 DEF GetCell, CELL_PAYLOAD_SIZE
  <2>3. /\ rbuf % 48 = 0 /\ rpad % 48 = 0
        /\ rbuf > 0 => rpad = plan.pad
        /\ ptr = IF rbuf > 0 THEN Data(plan.buf - rbuf) ELSE Extra(plan.pad - rpad)
    BY <1>0, <2>2 DEF WalkOK, CELL_PAYLOAD_SIZE
  <2>4. rbuf' % 48 = 0 /\ rpad' % 48 = 0
    <3>1. rbuf \in Nat /\ rpad \in Nat /\ rbuf % 48 = 0 /\ rpad % 48 = 0
      BY <2>1, <2>3
    <3>2. rbuf' = rbuf \/ rbuf' = rbuf - 48
      BY <2>2
    <3>3. rpad' = rpad \/ rpad' = rpad - 48
      BY <2>2
    <3>4. (rbuf - 48) % 48 = 0 /\ (rpad - 48) % 48 = 0
      BY <3>1
    <3>. QED
      BY <3>1, <3>2, <3>3, <3>4
  <2>5. rbuf' > 0 => rpad' = plan.pad
    BY <2>1, <2>2, <2>3
  <2>6. ptr' = IF rbuf' > 0 THEN Data(plan.buf - rbuf') ELSE Extra(plan.pad - rpad')
    <3>1. CASE rbuf > 0 /\ rbuf' > 0
      <4>1. ptr = [mem |-> "data", off |-> plan.buf - rbuf] /\ rbuf' = rbuf - 48
        BY <2>2, <2>3, <3>1 DEF Data
      <4>2. ptr' = [mem |-> "data", off |-> plan.buf - rbuf + 48]
        BY <2>1, <2>2, <3>1, <4>1
      <4>. QED
        BY <2>1, <3>1, <4>1, <4>2 DEF Data
    <3>2. CASE rbuf > 0 /\ ~(rbuf' > 0)
      BY <2>1, <2>2, <2>3, <3>2
    <3>3. CASE rbuf = 0
      <4>1. /\ ptr = [mem |-> "ExtraPad", off |-> plan.pad - rpad]
            /\ rbuf' = 0 /\ rpad' = rpad - 48
        BY <2>1, <2>2, <2>3, <3>3 DEF Extra
      <4>2. ptr' = [mem |-> "ExtraPad", off |-> plan.pad - rpad + 48]
        BY <2>1, <2>2, <3>3, <4>1
      <4>. QED
        BY <2>1, <3>3, <4>1, <4>2 DEF Extra
    <3>. QED
      BY <2>1, <3>1, <3>2, <3>3
  <2>7. /\ plan'.buf % 48 = 0 /\ plan'.pad % 48 = 0
        /\ plan'.buf <= pkt'.end /\ plan'.pad <= 96
        /\ cut'[pkt'.id].crc = Covered(pkt', plan')
    BY <1>0, <2>2 DEF WalkOK, CELL_PAYLOAD_SIZE
  <2>8. /\ rbuf' > 0 => rpad' = plan'.pad
        /\ ptr' = IF rbuf' > 0 THEN Data(plan'.buf - rbuf') ELSE Extra(plan'.pad - rpad')
    BY <2>2, <2>5, <2>6
  <2>. QED
    BY <2>4, <2>7, <2>8 DEF WalkOK, CELL_PAYLOAD_SIZE
<1>3. CASE PutPacket
  BY <1>0, <1>3 DEF WalkOK, PutPacket
<1>4. CASE UNCHANGED tx
  BY <1>0, <1>4 DEF WalkOK, tx
<1>. QED
  BY <1>1, <1>2, <1>3, <1>4
     DEF Next, LoseCell, RxCell, RxFrame, RxDiscard, RxTooLong, vars

(* Every cell on the line remains one that the CRC was calculated over.       *)
LEMMA CoveredStep ==
  ASSUME IInv, [Next]_vars
  PROVE  CellsAsCovered'
<1> DEFINE Cells == [bytes : Piece, nr : Nat, auu : BOOLEAN]
           OK(c, k) == /\ c.bytes.id \in DOMAIN k /\ c.bytes.inside
                       /\ c.nr \in DOMAIN k[c.bytes.id].crc
                       /\ c.bytes = k[c.bytes.id].crc[c.nr]
                       /\ c.auu <=> c.nr = Len(k[c.bytes.id].crc)
<1>1. CellsAsCovered <=> \A i \in DOMAIN line : OK(line[i], cut)
  BY DEF CellsAsCovered
<1>2. CellsAsCovered' <=> \A i \in DOMAIN line' : OK(line'[i], cut')
  BY DEF CellsAsCovered
<1>3. \A i \in DOMAIN line : OK(line[i], cut)
  BY <1>1 DEF IInv
<1>4. line \in Seq(Cells) /\ cut \in Seq([len : Lengths, crc : Seq(Piece)])
  BY DEF IInv, TypeOK, LineOK, TxOK
<1>5. ASSUME NEW len \in Lengths, NEW room \in Rooms, TakePacket(len, room)
      PROVE  CellsAsCovered'
  <2>1. cut' = Append(cut, [len |-> len, crc |-> Covered(pkt', plan')]) /\ line' = line
    BY <1>5 DEF TakePacket
  <2>2. \A id \in DOMAIN cut : id \in DOMAIN cut' /\ cut'[id] = cut[id]
    BY <1>4, <2>1
  <2>. QED
    BY <1>2, <1>3, <2>1, <2>2
<1>6. CASE GetCell
  <2> DEFINE c == [bytes |-> Bytes(pkt, plan, ptr), nr |-> Number,
                   auu |-> rbuf' = 0 /\ rpad' = 0]
  <2>1. line' = Append(line, c) /\ cut' = cut
    BY <1>6 DEF GetCell
  <2>2. c.bytes.id = pkt.id /\ pkt.id \in DOMAIN cut /\ cut[pkt.id].crc \in Seq(Piece)
    BY <1>6, CutAt DEF GetCell, Bytes
  <2>3. OK(c, cut)
    <3>1. /\ Number \in 1 .. Len(cut[pkt.id].crc)
          /\ Bytes(pkt, plan, ptr) = cut[pkt.id].crc[Number]
          /\ Bytes(pkt, plan, ptr).inside
          /\ (rbuf' = 0 /\ rpad' = 0) <=> Number = Len(cut[pkt.id].crc)
      BY <1>6, NextCell
    <3>2. DOMAIN cut[pkt.id].crc = 1 .. Len(cut[pkt.id].crc)
      BY <2>2
    <3>. QED
      BY <2>2, <3>1, <3>2
  <2> HIDE DEF c, OK, Cells
  <2>4. ASSUME NEW i \in DOMAIN line' PROVE OK(line'[i], cut)
    <3>1. CASE i \in DOMAIN line
      <4>1. line'[i] = line[i]
        BY <1>4, <2>1, <3>1
      <4>. QED
        BY <1>3, <3>1, <4>1
    <3>2. CASE i = Len(line) + 1
      <4>1. line'[i] = c
        BY <1>4, <2>1, <3>2
      <4>. QED
        BY <2>3, <4>1
    <3>. QED
      BY <1>4, <2>1, <3>1, <3>2
  <2>. QED
    BY <1>2, <2>1, <2>4
<1>7. ASSUME line # <<>>, line' = Tail(line), cut' = cut PROVE CellsAsCovered'
  <2> HIDE DEF OK, Cells
  <2>1. ASSUME NEW i \in DOMAIN line' PROVE OK(line'[i], cut)
    <3>1. i + 1 \in DOMAIN line /\ line'[i] = line[i + 1]
      BY <1>4, <1>7
    <3>. QED
      BY <1>3, <3>1
  <2>. QED
    BY <1>2, <1>7, <2>1
<1>8. CASE LoseCell \/ RxCell \/ RxFrame \/ RxDiscard \/ RxTooLong
  BY <1>7, <1>8 DEF LoseCell, RxCell, RxFrame, RxDiscard, RxTooLong, tx
<1>9. CASE UNCHANGED <<line, cut>>
  BY <1>2, <1>3, <1>9
<1>. QED
  BY <1>5, <1>6, <1>8, <1>9 DEF Next, PutPacket, vars, tx

LEMMA Invariance == Spec => []IInv
<1>1. IInv /\ [Next]_vars => IInv'
  BY TypeStep, WalkStep, CoveredStep DEF IInv
<1>. QED
  BY InitIInv, <1>1, PTL DEF Spec

(* Counters, pointer and receive buffer never leave their ranges; what is     *)
(* stored in a receive buffer between two cells always ends short of its end. *)
THEOREM TypeCorrect == Spec => []TypeOK
<1>1. IInv => TypeOK
  BY DEF IInv
<1>. QED
  BY Invariance, <1>1, PTL

(* A cell that leaves FrameALAALTxGetFullBuf is the one the CRC was           *)
(* calculated over at its place in the frame, read from memory that belongs   *)
(* to the packet or from ExtraPad; the AUU bit is in the last one only.       *)
THEOREM CellsCovered == Spec => []CellsAsCovered
<1>1. IInv => CellsAsCovered
  BY DEF IInv
<1>. QED
  BY Invariance, <1>1, PTL
-------------------------------------------------------------------------------
(* What the receiver relies on of what the CRC was calculated over: the cells *)
(* hold the payload from its beginning to its end, each what follows the one  *)
(* before, and only the last one has the trailer, which gives a length that   *)
(* fits the number of cells.                                                  *)
WholeFrame(c, id, len) ==
  /\ c # <<>> /\ c[1].first = 0 /\ c[Len(c)].trailer
  /\ Size(c) - len \in AAL5_TRLR_SIZE .. AAL5_TRLR_SIZE + MAX_PADDING
  /\ \A j \in DOMAIN c :
       /\ c[j].id = id /\ (c[j].trailer => j = Len(c))
       /\ c[j].first + c[j].n = IF j = Len(c) THEN len ELSE c[j + 1].first

LEMMA BytesIs ==
  ASSUME NEW p, NEW t, NEW at
  PROVE  LET b == Bytes(p, t, at)
             first == MinOf(IF at.mem = "data" THEN at.off ELSE t.from + at.off, p.len)
         IN /\ b.id = p.id /\ b.first = first /\ b.n = MinOf(p.len - first, 48)
            /\ b.trailer <=> at.off + 48 = IF at.mem = "data" THEN t.buf + t.pad ELSE t.pad
<1> DEFINE b == Bytes(p, t, at)
           first == MinOf(IF at.mem = "data" THEN at.off ELSE t.from + at.off, p.len)
           n == MinOf(p.len - first, 48)
           end == at.off + 48 = (IF at.mem = "data" THEN t.buf + t.pad ELSE t.pad)
           in == at.off + 48 <= (IF at.mem = "data" THEN p.end ELSE 2 * 48)
<1>1. b = [id |-> p.id, first |-> first, n |-> n, trailer |-> end, inside |-> in]
  BY DEF Bytes, CELL_PAYLOAD_SIZE
<1> HIDE DEF first, n, end, in, b
<1>2. b.id = p.id /\ b.first = first /\ b.n = n /\ b.trailer = end
  BY <1>1
<1>. QED
  BY <1>2 DEF b, first, n, end

LEMMA CoveredWhole ==
  ASSUME NEW p \in Packets, NEW t \in Plans, p.len \in Nat, p.len <= p.end,
         t = TxProcessBuf(p.len, p.end)
  PROVE  WholeFrame(Covered(p, t), p.id, p.len)
<1> DEFINE len == p.len
           all == t.buf + t.pad
           n == all \div 48
           c == Covered(p, t)
           q == Padding(len)
           place(i) == IF (i - 1) * 48 < t.buf THEN Data((i - 1) * 48)
                       ELSE Extra((i - 1) * 48 - t.buf)
<1>0. /\ p.end \in Nat /\ t.buf \in Nat /\ t.pad \in Nat /\ t.from \in Nat
      /\ all = len + q + 8 /\ q \in 0 .. 47 /\ (len + q + 8) % 48 = 0
  <2>1. p.end \in Nat /\ t.buf \in Nat /\ t.pad \in Nat /\ t.from \in Nat
    BY DEF Packets, Plans
  <2>2. t.buf + t.pad = len + Padding(len) + 8
    BY <2>1, PlanFits DEF AAL5_TRLR_SIZE
  <2>3. Padding(len) \in 0 .. 47 /\ (len + Padding(len) + 8) % 48 = 0
    BY PaddingFits DEF MAX_PADDING, AAL5_TRLR_SIZE, CELL_PAYLOAD_SIZE
  <2>. QED
    BY <2>1, <2>2, <2>3
<1>1. /\ len \in Nat /\ p.end \in Nat /\ t.buf \in Nat /\ t.pad \in Nat /\ t.from \in Nat
      /\ q \in 0 .. 47
  BY <1>0
<1> HIDE DEF q
<1>2. n \in Nat /\ n > 0 /\ n * 48 = all /\ all > len /\ all \in Nat /\ all - len \in 8 .. 55
  <2> HIDE DEF all
  <2>0. len \in Nat /\ q \in 0 .. 47 /\ all = len + q + 8 /\ (len + q + 8) % 48 = 0
    BY <1>0 DEF all
  <2> HIDE DEF len
  <2>1. all \in Nat /\ all % 48 = 0 /\ all > len /\ all - len \in 8 .. 55
    BY <2>0
  <2>2. n \in Nat /\ n * 48 = all
    BY <2>1
  <2> HIDE DEF n
  <2>. QED
    BY <1>1, <2>1, <2>2
<1>3. t.pad = 0 \/ t.from = t.buf \/ (t.from = len /\ t.buf >= len)
  <2> DEFINE w == len - (len % 48)
  <2>1. q > 40 => len + q + 8 - 48 >= len
    BY <1>1
  <2>2. q \in Nat
    BY <1>1
  <2>3. \/ t = [buf |-> len + q + 8, pad |-> 0, from |-> len]
        \/ t = [buf |-> w, pad |-> 48, from |-> w]
        \/ q > 40 /\ t = [buf |-> len + q + 8 - 48, pad |-> 48, from |-> len]
        \/ t = [buf |-> w, pad |-> 96, from |-> w]
    <3>1. t = IF len + q + 8 < p.end THEN [buf |-> len + q + 8, pad |-> 0, from |-> len]
              ELSE IF q <= 40 THEN [buf |-> w, pad |-> 48, from |-> w]
              ELSE IF len + q - 40 <= p.end
              THEN [buf |-> len + q + 8 - 48, pad |-> 48, from |-> len]
              ELSE [buf |-> w, pad |-> 96, from |-> w]
      BY DEF TxProcessBuf, q, CELL_PAYLOAD_SIZE, AAL5_TRLR_SIZE
    <3>2. q <= 40 \/ q > 40
      BY <2>2
    <3> HIDE DEF w
    <3>. QED
      BY <3>1, <3>2
  <2> HIDE DEF w
  <2>. QED
    BY <2>1, <2>3
<1>4. /\ c \in Seq(Piece) /\ Len(c) = n /\ DOMAIN c = 1 .. n
      /\ \A i \in 1 .. n : c[i] = Bytes(p, t, place(i))
  BY CoveredType, CoveredAt
<1> HIDE DEF c, n, all
<1>5. ASSUME NEW i \in 1 .. n
      PROVE  /\ c[i].id = p.id /\ c[i].first = MinOf((i - 1) * 48, len)
             /\ c[i].n = MinOf(len - c[i].first, 48)
             /\ c[i].trailer <=> i = n
  <2> DEFINE o == (i - 1) * 48
  <2>0. o \in Nat /\ o + 48 <= all /\ (o + 48 = all <=> i = n)
    BY <1>2
  <2> HIDE DEF o
  <2>1. CASE o < t.buf
    <3>1. c[i] = Bytes(p, t, Data(o)) /\ Data(o).mem = "data" /\ Data(o).off = o
      BY <1>4, <2>1 DEF o, Data
    <3>2. /\ c[i].id = p.id /\ c[i].first = MinOf(o, len)
          /\ c[i].n = MinOf(len - c[i].first, 48)
          /\ c[i].trailer <=> o + 48 = t.buf + t.pad
      BY <3>1, BytesIs
    <3>. QED
      BY <2>0, <3>2 DEF o, all
  <2>2. CASE ~(o < t.buf)
    <3>1. /\ c[i] = Bytes(p, t, Extra(o - t.buf))
          /\ Extra(o - t.buf).mem # "data" /\ Extra(o - t.buf).off = o - t.buf
      BY <1>4, <2>2 DEF o, Extra
    <3>2. /\ c[i].id = p.id /\ c[i].first = MinOf(t.from + (o - t.buf), len)
          /\ c[i].n = MinOf(len - c[i].first, 48)
          /\ c[i].trailer <=> o - t.buf + 48 = t.pad
      BY <3>1, BytesIs
    <3>3. MinOf(t.from + (o - t.buf), len) = MinOf(o, len)
      BY <1>1, <1>3, <2>0, <2>2 DEF MinOf, all
    <3>4. o - t.buf + 48 = t.pad <=> o + 48 = all
      BY <1>1, <2>0 DEF all
    <3>. QED
      BY <2>0, <3>2, <3>3, <3>4 DEF o
  <2>. QED
    BY <2>1, <2>2
<1>6. \A i \in 1 .. n : c[i].first + c[i].n = MinOf(i * 48, len)
  BY <1>1, <1>5 DEF MinOf
<1>7. \A i \in 1 .. n : c[i].first + c[i].n = IF i = n THEN len ELSE c[i + 1].first
  <2> SUFFICES ASSUME NEW i \in 1 .. n
               PROVE  c[i].first + c[i].n = IF i = n THEN len ELSE c[i + 1].first
    OBVIOUS
  <2>1. CASE i = n
    <3>1. i * 48 > len
      BY <1>2, <2>1
    <3>. QED
      BY <1>1, <1>6, <2>1, <3>1 DEF MinOf
  <2>2. CASE i # n
    <3>1. i + 1 \in 1 .. n /\ (i + 1 - 1) * 48 = i * 48
      BY <1>2, <2>2
    <3>2. c[i + 1].first = MinOf(i * 48, len)
      BY <1>5, <3>1
    <3>. QED
      BY <1>6, <2>2, <3>2
  <2>. QED
    BY <2>1, <2>2
<1>8. c[1].first = 0
  <2>1. 1 \in 1 .. n /\ (1 - 1) * 48 = 0
    BY <1>2
  <2>2. c[1].first = MinOf(0, len)
    BY <1>5, <2>1
  <2>. QED
    BY <1>1, <2>2 DEF MinOf
<1>9. Size(c) - len \in 8 .. 55
  <2>1. Size(c) = 48 * n
    BY <1>4 DEF Size, CELL_PAYLOAD_SIZE
  <2>2. 48 * n = all
    BY <1>2
  <2>. QED
    BY <1>2, <2>1, <2>2
<1>10. c # <<>> /\ c[Len(c)].trailer
  BY <1>2, <1>4, <1>5
<1>. QED
  BY <1>4, <1>5, <1>7, <1>8, <1>9, <1>10 DEF WholeFrame, AAL5_TRLR_SIZE, MAX_PADDING, c

(* Which cells were cut already, which of those are no longer on the line,    *)
(* and which cell comes before one.                                           *)
Final(k) == Len(cut[k].crc)
Cut(k, r) ==
  /\ k \in DOMAIN cut /\ r \in DOMAIN cut[k].crc
  /\ k = Len(cut) /\ pkt # NoPacket => r < Number
Gone(k, r) == Cut(k, r) /\ \A i \in DOMAIN line : Name(line[i]) # <<k, r>>
Earlier(k, r, c) == k < c.bytes.id \/ (k = c.bytes.id /\ r < c.nr)

(* Frames are whole, and the line keeps cells in order.                       *)
CutWhole == \A k \in DOMAIN cut : WholeFrame(cut[k].crc, k, cut[k].len)
InOrder ==
  /\ \A k, r \in Nat, i \in DOMAIN line : Name(line[i]) = <<k, r>> => Cut(k, r)
  /\ \A i, j \in DOMAIN line : i < j => Earlier(line[i].bytes.id, line[i].nr, line[j])
  /\ \A k, r \in Nat : Gone(k, r) => \A i \in DOMAIN line : Earlier(k, r, line[i])

(* The number of the next cell, and of the one after the last.                *)
LEMMA NumberIs ==
  ASSUME IInv, pkt # NoPacket
  PROVE  /\ Number \in Nat /\ Number > 0 /\ pkt.id = Len(cut) /\ pkt.id \in DOMAIN cut
         /\ rbuf = 0 /\ rpad = 0 => Number = Final(pkt.id) + 1
<1>1. /\ pkt \in Packets /\ plan \in Plans /\ pkt.id = Len(cut) /\ pkt.id \in DOMAIN cut
      /\ plan.buf \in Nat /\ plan.pad \in Nat /\ rbuf \in 0 .. plan.buf /\ rpad \in 0 .. plan.pad
  <2>1. pkt \in [id : {Len(cut)}, len : Lengths, end : Nat]
    BY DEF IInv, TypeOK, TxOK
  <2>2. pkt.id = Len(cut)
    BY <2>1
  <2>. QED
    BY <2>2, CutAt DEF IInv, TypeOK, TxOK, Plans
<1>2. Len(cut[pkt.id].crc) = (plan.buf + plan.pad) \div 48
  BY <1>1, CoveredType DEF IInv, WalkOK
<1>3. Number = (plan.buf + plan.pad - rbuf - rpad) \div 48 + 1
  BY DEF Number, CELL_PAYLOAD_SIZE
<1>4. Number \in Nat /\ Number > 0
  <2>1. plan.buf + plan.pad - rbuf - rpad \in Nat
    BY <1>1
  <2>2. ASSUME NEW o \in Nat PROVE o \div 48 \in Nat
    OBVIOUS
  <2>. QED
    BY <1>3, <2>1, <2>2
<1>5. ASSUME rbuf = 0, rpad = 0 PROVE Number = Final(pkt.id) + 1
  <2>1. plan.buf + plan.pad - rbuf - rpad = plan.buf + plan.pad
    BY <1>1, <1>5
  <2>. QED
    BY <1>2, <1>3, <2>1 DEF Final
<1>. QED
  BY <1>1, <1>4, <1>5

LEMMA NumberNext ==
  ASSUME IInv, GetCell
  PROVE  Number' = Number + 1
<1>1. /\ plan.buf \in Nat /\ plan.pad \in Nat /\ rbuf \in 0 .. plan.buf /\ rpad \in 0 .. plan.pad
      /\ plan' = plan /\ rbuf + rpad > 0
      /\ rbuf' = IF rbuf > 0 THEN rbuf - 48 ELSE rbuf
      /\ rpad' = IF rbuf = 0 /\ rpad > 0 THEN rpad - 48 ELSE rpad
  BY DEF IInv, TypeOK, TxOK, GetCell, CELL_PAYLOAD_SIZE
<1>2. plan'.buf + plan'.pad - rbuf' - rpad' = (plan.buf + plan.pad - rbuf - rpad) + 48
  BY <1>1
<1>3. plan.buf + plan.pad - rbuf - rpad \in Nat
  BY <1>1
<1>. QED
  BY <1>2, <1>3 DEF Number, CELL_PAYLOAD_SIZE

(* Taking a packet, and returning it, cuts nothing; ...                       *)
LEMMA TakeCuts ==
  ASSUME IInv, NEW len \in Lengths, NEW room \in Rooms, TakePacket(len, room)
  PROVE  /\ \A k, r : Cut(k, r)' <=> Cut(k, r)
         /\ CutWhole => CutWhole'
         /\ line' = line /\ Len(cut') = Len(cut) + 1
         /\ \A k \in DOMAIN cut : cut'[k] = cut[k] /\ k \in DOMAIN cut'
<1>1. /\ pkt' = [id |-> Len(cut) + 1, len |-> len, end |-> len + room]
      /\ pkt' \in Packets /\ plan' \in Plans /\ pkt' # NoPacket
  BY Taken DEF IInv
<1>2. /\ pkt = NoPacket /\ rbuf' = plan'.buf /\ rpad' = plan'.pad /\ line' = line
      /\ cut' = Append(cut, [len |-> len, crc |-> Covered(pkt', plan')])
      /\ plan' = TxProcessBuf(len, len + room)
  BY DEF TakePacket
<1>3. cut \in Seq([len : Lengths, crc : Seq(Piece)])
  BY DEF IInv, TypeOK, TxOK
<1>4. /\ Len(cut') = Len(cut) + 1 /\ Len(cut) \in Nat
      /\ DOMAIN cut = 1 .. Len(cut) /\ DOMAIN cut' = 1 .. Len(cut) + 1
      /\ \A k \in DOMAIN cut : cut'[k] = cut[k]
      /\ cut'[Len(cut) + 1] = [len |-> len, crc |-> Covered(pkt', plan')]
  BY <1>2, <1>3
<1>5. Number' = 1
  <2>1. plan'.buf \in Nat /\ plan'.pad \in Nat
    BY <1>1 DEF Plans
  <2>2. plan'.buf + plan'.pad - rbuf' - rpad' = 0
    BY <1>2, <2>1
  <2>. QED
    BY <2>2 DEF Number, CELL_PAYLOAD_SIZE
<1>6. Covered(pkt', plan') \in Seq(Piece) /\ DOMAIN Covered(pkt', plan') \subseteq Nat \ {0}
  BY <1>1, CoveredType
<1>7. ASSUME NEW k, NEW r PROVE Cut(k, r)' <=> Cut(k, r)
  <2>1. CASE k \in DOMAIN cut
    <3>1. k # Len(cut') /\ k \in DOMAIN cut' /\ cut'[k] = cut[k]
      BY <1>4, <2>1
    <3>. QED
      BY <1>2, <2>1, <3>1 DEF Cut
  <2>2. CASE k = Len(cut) + 1
    <3>1. k \notin DOMAIN cut /\ k = Len(cut')
      BY <1>4, <2>2
    <3>2. Cut(k, r)' => r < 1 /\ r \in Nat \ {0}
      BY <1>1, <1>4, <1>5, <1>6, <2>2, <3>1 DEF Cut
    <3>. QED
      BY <3>1, <3>2 DEF Cut
  <2>3. CASE k \notin DOMAIN cut /\ k # Len(cut) + 1
    BY <1>4, <2>3 DEF Cut
  <2>. QED
    BY <2>1, <2>2, <2>3
<1>8. ASSUME CutWhole PROVE CutWhole'
  <2>1. WholeFrame(Covered(pkt', plan'), Len(cut) + 1, len)
    <3>1. pkt'.len = len /\ pkt'.end = len + room /\ pkt'.id = Len(cut) + 1
      BY <1>1
    <3>2. len \in Nat /\ len <= len + room
      BY AalAssumption
    <3>. QED
      BY <1>1, <1>2, <3>1, <3>2, CoveredWhole
  <2>2. ASSUME NEW k \in DOMAIN cut' PROVE WholeFrame(cut'[k].crc, k, cut'[k].len)
    <3>1. CASE k \in DOMAIN cut
      BY <1>4, <1>8, <3>1 DEF CutWhole
    <3>2. CASE k = Len(cut) + 1
      BY <1>4, <2>1, <3>2
    <3>. QED
      BY <1>4, <3>1, <3>2
  <2>. QED
    BY <2>2 DEF CutWhole, WholeFrame, Size
<1>. QED
  BY <1>2, <1>4, <1>7, <1>8

LEMMA PutCuts ==
  ASSUME IInv, PutPacket
  PROVE  \A k, r : Cut(k, r)' <=> Cut(k, r)
<1>1. /\ pkt # NoPacket /\ rbuf = 0 /\ rpad = 0 /\ pkt' = NoPacket
      /\ UNCHANGED <<plan, rbuf, rpad, cut>>
  BY DEF PutPacket
<1>2. /\ pkt.id = Len(cut) /\ pkt.id \in DOMAIN cut /\ Number = Final(pkt.id) + 1
  BY <1>1, NumberIs
<1>3. cut[pkt.id].crc \in Seq(Piece)
  BY <1>2, CutAt
<1>4. \A r \in DOMAIN cut[pkt.id].crc : r < Number
  BY <1>2, <1>3 DEF Final
<1>. QED
  BY <1>1, <1>2, <1>4 DEF Cut

(* ... and a cell that is cut is on the line.                                 *)
LEMMA GetCuts ==
  ASSUME IInv, GetCell
  PROVE  /\ \A k, r \in Nat : Cut(k, r)' <=> Cut(k, r) \/ <<k, r>> = <<pkt.id, Number>>
         /\ ~Cut(pkt.id, Number) /\ pkt.id \in Nat /\ Number \in Nat
         /\ \A k, r \in Nat : Cut(k, r) => k < pkt.id \/ (k = pkt.id /\ r < Number)
<1>1. pkt # NoPacket /\ UNCHANGED <<pkt, plan, cut>>
  BY DEF GetCell
<1>2. Number \in Nat /\ pkt.id = Len(cut) /\ pkt.id \in DOMAIN cut /\ Number' = Number + 1
  BY <1>1, NumberIs, NumberNext
<1>3. Number \in DOMAIN cut[pkt.id].crc
  BY <1>2, CutAt, NextCell
<1>4. cut \in Seq([len : Lengths, crc : Seq(Piece)]) /\ DOMAIN cut = 1 .. Len(cut) /\ Len(cut) \in Nat
  BY DEF IInv, TypeOK, TxOK
<1>5. ASSUME NEW k \in Nat, NEW r \in Nat
      PROVE  Cut(k, r)' <=> Cut(k, r) \/ <<k, r>> = <<pkt.id, Number>>
  <2>1. Cut(k, r)' <=> /\ k \in DOMAIN cut /\ r \in DOMAIN cut[k].crc
                       /\ k = pkt.id => r < Number + 1
    BY <1>1, <1>2 DEF Cut
  <2>2. Cut(k, r) <=> /\ k \in DOMAIN cut /\ r \in DOMAIN cut[k].crc
                      /\ k = pkt.id => r < Number
    BY <1>1, <1>2 DEF Cut
  <2>3. r < Number + 1 <=> r < Number \/ r = Number
    BY <1>2
  <2>. QED
    BY <1>2, <1>3, <2>1, <2>2, <2>3
<1>6. ASSUME NEW k \in Nat, NEW r \in Nat, Cut(k, r)
      PROVE  k < pkt.id \/ (k = pkt.id /\ r < Number)
  <2>1. k \in 1 .. Len(cut) /\ (k = Len(cut) => r < Number)
    BY <1>1, <1>4, <1>6 DEF Cut
  <2>2. k < Len(cut) \/ k = Len(cut)
    <3>1. Len(cut) \in Nat
      BY <1>4
    <3>. QED
      BY <2>1, <3>1
  <2>. QED
    BY <1>2, <2>1, <2>2
<1>7. ~Cut(pkt.id, Number)
  BY <1>1, <1>2 DEF Cut
<1>8. pkt.id \in Nat
  BY <1>2, <1>4
<1>. QED
  BY <1>2, <1>5, <1>6, <1>7, <1>8

(* The names of cells on the line are numbers.                                *)
LEMMA LineCells ==
  ASSUME IInv
  PROVE  \A i \in DOMAIN line : /\ line[i].bytes.id \in Nat /\ line[i].nr \in Nat
                                /\ line[i].bytes \in Piece
<1> DEFINE C == [bytes : Piece, nr : Nat, auu : BOOLEAN]
<1>1. line \in Seq(C)
  BY DEF IInv, TypeOK, LineOK
<1> HIDE DEF C
<1>2. \A i \in DOMAIN line : line[i] \in C
  BY <1>1
<1>. QED
  BY <1>2 DEF C, Piece

(* A step of the sender puts cells behind those that are on the line.         *)
LEMMA SenderOrder ==
  ASSUME IInv, InOrder, CutWhole,
         \/ \E len \in Lengths, room \in Rooms : TakePacket(len, room)
         \/ GetCell \/ PutPacket \/ UNCHANGED <<tx, line>>
  PROVE  /\ InOrder' /\ CutWhole'
         /\ \A k, r \in Nat : Gone(k, r)' <=> Gone(k, r)
<1>0. ASSUME line' = line, \A k, r : Cut(k, r)' <=> Cut(k, r)
      PROVE  InOrder' /\ \A k, r \in Nat : Gone(k, r)' <=> Gone(k, r)
  <2>1. \A k, r : Gone(k, r)' <=> Gone(k, r)
    BY <1>0 DEF Gone, Name
  <2>. QED
    BY <1>0, <2>1 DEF InOrder, Earlier, Name
<1>1. ASSUME NEW len \in Lengths, NEW room \in Rooms, TakePacket(len, room)
      PROVE  /\ InOrder' /\ CutWhole'
             /\ \A k, r \in Nat : Gone(k, r)' <=> Gone(k, r)
  BY <1>0, <1>1, TakeCuts
<1>2. CASE PutPacket
  <2>1. CutWhole'
    BY <1>2 DEF PutPacket, CutWhole
  <2>2. line' = line /\ \A k, r : Cut(k, r)' <=> Cut(k, r)
    BY <1>2, PutCuts DEF PutPacket
  <2>. QED
    BY <1>0, <2>1, <2>2
<1>3. CASE UNCHANGED <<tx, line>>
  <2>1. CutWhole'
    BY <1>3 DEF CutWhole, tx
  <2>2. line' = line /\ \A k, r : Cut(k, r)' <=> Cut(k, r)
    BY <1>3 DEF Cut, Number, tx
  <2>. QED
    BY <1>0, <2>1, <2>2
<1>4. CASE GetCell
  <2>1. PICK c : /\ line' = Append(line, c) /\ c.bytes.id = pkt.id /\ c.nr = Number
                 /\ cut' = cut /\ c \in [bytes : Piece, nr : Nat, auu : BOOLEAN]
    <3>1. [bytes |-> Bytes(pkt, plan, ptr), nr |-> Number, auu |-> rbuf' = 0 /\ rpad' = 0]
             \in [bytes : Piece, nr : Nat, auu : BOOLEAN]
      <4>1. Bytes(pkt, plan, ptr) \in Piece
        BY <1>4, CutAt, BytesType DEF GetCell, IInv, TypeOK, TxOK, Places, Plans
      <4>. QED
        BY <1>4, <4>1, GetCuts
    <3>. QED
      BY <1>4, <3>1 DEF GetCell, Bytes
  <2>2. line \in Seq([bytes : Piece, nr : Nat, auu : BOOLEAN])
    BY DEF IInv, TypeOK, LineOK
  <2>3. /\ \A i \in DOMAIN line' : \/ i \in DOMAIN line /\ line'[i] = line[i]
                                   \/ i = Len(line) + 1 /\ line'[i] = c
        /\ \A i, j \in DOMAIN line' : i < j => i \in DOMAIN line
        /\ \A i \in DOMAIN line : i \in DOMAIN line' /\ line'[i] = line[i]
        /\ Len(line) + 1 \in DOMAIN line' /\ line'[Len(line) + 1] = c
    BY <2>1, <2>2, AppendIs
  <2>4. /\ \A k, r \in Nat : Cut(k, r)' <=> Cut(k, r) \/ <<k, r>> = <<pkt.id, Number>>
        /\ ~Cut(pkt.id, Number) /\ pkt.id \in Nat /\ Number \in Nat
        /\ \A k, r \in Nat : Cut(k, r) => k < pkt.id \/ (k = pkt.id /\ r < Number)
    BY <1>4, GetCuts
  <2>5. \A i \in DOMAIN line : line[i].bytes.id \in Nat /\ line[i].nr \in Nat
    BY LineCells
  <2>6. ASSUME NEW k \in Nat, NEW r \in Nat PROVE Gone(k, r)' <=> Gone(k, r)
    <3>1. Name(c) = <<pkt.id, Number>>
      BY <2>1 DEF Name
    <3>2. ASSUME Gone(k, r) PROVE Gone(k, r)'
      <4>1. <<k, r>> # <<pkt.id, Number>>
        BY <2>4, <3>2 DEF Gone
      <4>2. \A i \in DOMAIN line' : Name(line'[i]) # <<k, r>>
        BY <2>3, <3>1, <3>2, <4>1 DEF Gone
      <4>. QED
        BY <2>4, <3>2, <4>2 DEF Gone, Name
    <3>3. ASSUME Gone(k, r)' PROVE Gone(k, r)
      <4>1. \A i \in DOMAIN line' : Name(line'[i]) # <<k, r>>
        BY <3>3 DEF Gone, Name
      <4>2. <<k, r>> # <<pkt.id, Number>>
        BY <2>3, <3>1, <4>1
      <4>3. \A i \in DOMAIN line : Name(line[i]) # <<k, r>>
        BY <2>3, <4>1
      <4>. QED
        BY <2>4, <3>3, <4>2, <4>3 DEF Gone
    <3>. QED
      BY <3>2, <3>3
  <2>7. ASSUME NEW i \in DOMAIN line PROVE Earlier(line[i].bytes.id, line[i].nr, c)
    <3>1. Name(line[i]) = <<line[i].bytes.id, line[i].nr>>
      BY DEF Name
    <3>2. Cut(line[i].bytes.id, line[i].nr)
      BY <2>5, <3>1 DEF InOrder
    <3>. QED
      BY <2>1, <2>4, <2>5, <3>2 DEF Earlier
  <2>8. \A k, r \in Nat, i \in DOMAIN line' : Name(line'[i]) = <<k, r>> => Cut(k, r)'
    <3> SUFFICES ASSUME NEW k \in Nat, NEW r \in Nat, NEW i \in DOMAIN line',
                        Name(line'[i]) = <<k, r>>
                 PROVE  Cut(k, r)'
      OBVIOUS
    <3>1. CASE i \in DOMAIN line /\ line'[i] = line[i]
      BY <2>4, <3>1 DEF InOrder
    <3>2. CASE line'[i] = c
      BY <2>1, <2>4, <3>2 DEF Name
    <3>. QED
      BY <2>3, <3>1, <3>2
  <2>9. \A i, j \in DOMAIN line' : i < j => Earlier(line'[i].bytes.id, line'[i].nr, line'[j])
    BY <2>3, <2>7 DEF InOrder
  <2>10. \A k, r \in Nat : Gone(k, r) => \A i \in DOMAIN line' : Earlier(k, r, line'[i])
    <3> SUFFICES ASSUME NEW k \in Nat, NEW r \in Nat, Gone(k, r), NEW i \in DOMAIN line'
                 PROVE  Earlier(k, r, line'[i])
      OBVIOUS
    <3>1. Earlier(k, r, c)
      BY <2>1, <2>4 DEF Gone, Earlier
    <3>. QED
      BY <2>3, <3>1 DEF InOrder
  <2>11. InOrder'
    BY <2>6, <2>8, <2>9, <2>10 DEF InOrder, Earlier, Name
  <2>12. CutWhole'
    BY <2>1 DEF CutWhole
  <2>. QED
    BY <2>6, <2>11, <2>12
<1>. QED
  BY <1>1, <1>2, <1>3, <1>4

(* The first cell on the line is the next after all that are gone.            *)
LEMMA HeadCell ==
  ASSUME IInv, InOrder, line # <<>>, NEW h, h = Head(line)
  PROVE  /\ h.bytes.id \in Nat /\ h.nr \in Nat /\ Name(h) = <<h.bytes.id, h.nr>>
         /\ h.bytes = cut[h.bytes.id].crc[h.nr] /\ (h.auu <=> h.nr = Final(h.bytes.id))
         /\ Cut(h.bytes.id, h.nr) /\ ~Gone(h.bytes.id, h.nr)
         /\ \A k, r \in Nat : Gone(k, r) <=> Cut(k, r) /\ Earlier(k, r, h)
<1>1. 1 \in DOMAIN line /\ h = line[1] /\ \A i \in DOMAIN line : i # 1 => 1 < i
  <2>1. line \in Seq([bytes : Piece, nr : Nat, auu : BOOLEAN])
    BY DEF IInv, TypeOK, LineOK
  <2>. QED
    BY <2>1, TailIs
<1>2. h.bytes.id \in Nat /\ h.nr \in Nat /\ Name(h) = <<h.bytes.id, h.nr>>
  BY <1>1, LineCells DEF Name
<1>3. h.bytes = cut[h.bytes.id].crc[h.nr] /\ (h.auu <=> h.nr = Final(h.bytes.id))
  BY <1>1 DEF IInv, CellsAsCovered, Final
<1>4. Cut(h.bytes.id, h.nr) /\ ~Gone(h.bytes.id, h.nr)
  BY <1>1, <1>2 DEF InOrder, Gone
<1>5. ASSUME NEW k \in Nat, NEW r \in Nat, Gone(k, r) PROVE Cut(k, r) /\ Earlier(k, r, h)
  BY <1>1, <1>5 DEF InOrder, Gone
<1>6. ASSUME NEW k \in Nat, NEW r \in Nat, Cut(k, r), Earlier(k, r, h) PROVE Gone(k, r)
  <2> SUFFICES ASSUME NEW i \in DOMAIN line, Name(line[i]) = <<k, r>> PROVE FALSE
    BY <1>6 DEF Gone
  <2>1. line[i].bytes.id = k /\ line[i].nr = r
    BY DEF Name
  <2>2. CASE i = 1
    BY <1>1, <1>2, <1>6, <2>1, <2>2 DEF Earlier
  <2>3. CASE i # 1
    <3>1. Earlier(h.bytes.id, h.nr, line[i])
      BY <1>1, <2>3 DEF InOrder
    <3>. QED
      BY <1>2, <1>6, <2>1, <3>1 DEF Earlier
  <2>. QED
    BY <2>2, <2>3
<1>. QED
  BY <1>2, <1>3, <1>4, <1>5, <1>6

(* A cell that is received, or lost, is gone.                                 *)
LEMMA ReceiverOrder ==
  ASSUME IInv, InOrder, CutWhole, line # <<>>, line' = Tail(line), UNCHANGED tx,
         NEW h, h = Head(line)
  PROVE  /\ InOrder' /\ CutWhole'
         /\ \A k, r \in Nat : Gone(k, r)' <=> Gone(k, r) \/ <<k, r>> = <<h.bytes.id, h.nr>>
<1>0. cut' = cut /\ \A k, r : Cut(k, r)' <=> Cut(k, r)
  BY DEF tx, Cut, Number
<1>1. line \in Seq([bytes : Piece, nr : Nat, auu : BOOLEAN])
  BY DEF IInv, TypeOK, LineOK
<1>2. /\ \A i \in DOMAIN line' : i + 1 \in DOMAIN line /\ line'[i] = line[i + 1] /\ i + 1 > 1
      /\ \A i, j \in DOMAIN line' : i < j => i + 1 < j + 1
      /\ h = line[1] /\ 1 \in DOMAIN line
  BY <1>1, TailIs
<1>3. \A i \in DOMAIN line : i # 1 => \E j \in DOMAIN line' : line'[j] = line[i]
  <2> SUFFICES ASSUME NEW i \in DOMAIN line, i # 1 PROVE i - 1 \in DOMAIN line' /\ line'[i - 1] = line[i]
    OBVIOUS
  <2>. QED
    BY <1>1
<1>4. /\ h.bytes.id \in Nat /\ h.nr \in Nat /\ Name(h) = <<h.bytes.id, h.nr>>
      /\ Cut(h.bytes.id, h.nr)
  BY HeadCell
<1>5. \A i \in DOMAIN line' : Earlier(h.bytes.id, h.nr, line'[i])
  BY <1>2 DEF InOrder
<1>6. ASSUME NEW k \in Nat, NEW r \in Nat
      PROVE  Gone(k, r)' <=> Gone(k, r) \/ <<k, r>> = <<h.bytes.id, h.nr>>
  <2>1. Gone(k, r)' <=> Cut(k, r) /\ \A i \in DOMAIN line' : Name(line'[i]) # <<k, r>>
    BY <1>0 DEF Gone, Name
  <2>2. ASSUME Gone(k, r) PROVE Gone(k, r)'
    BY <1>2, <2>1, <2>2 DEF Gone
  <2>3. ASSUME <<k, r>> = <<h.bytes.id, h.nr>> PROVE Gone(k, r)'
    <3>1. k = h.bytes.id /\ r = h.nr
      BY <2>3
    <3>2. \A i \in DOMAIN line' : Name(line'[i]) # <<k, r>>
      BY <1>4, <1>5, <3>1 DEF Earlier, Name
    <3>. QED
      BY <1>4, <2>1, <3>1, <3>2
  <2>4. ASSUME Gone(k, r)', <<k, r>> # <<h.bytes.id, h.nr>> PROVE Gone(k, r)
    <3>1. \A i \in DOMAIN line : Name(line[i]) # <<k, r>>
      BY <1>2, <1>3, <1>4, <2>1, <2>4
    <3>. QED
      BY <2>1, <2>4, <3>1 DEF Gone
  <2>. QED
    BY <2>2, <2>3, <2>4
<1>7. \A k, r \in Nat, i \in DOMAIN line' : Name(line'[i]) = <<k, r>> => Cut(k, r)'
  BY <1>0, <1>2 DEF InOrder
<1>8. \A i, j \in DOMAIN line' : i < j => Earlier(line'[i].bytes.id, line'[i].nr, line'[j])
  BY <1>2 DEF InOrder
<1>9. \A k, r \in Nat : Gone(k, r)' => \A i \in DOMAIN line' : Earlier(k, r, line'[i])
  <2> SUFFICES ASSUME NEW k \in Nat, NEW r \in Nat, Gone(k, r)', NEW i \in DOMAIN line'
               PROVE  Earlier(k, r, line'[i])
    OBVIOUS
  <2>1. CASE Gone(k, r)
    BY <1>2, <2>1 DEF InOrder
  <2>2. CASE <<k, r>> = <<h.bytes.id, h.nr>>
    BY <1>5, <2>2
  <2>. QED
    BY <1>6, <2>1, <2>2
<1>10. InOrder'
  BY <1>7, <1>8, <1>9 DEF InOrder, Earlier, Name
<1>11. CutWhole'
  BY <1>0 DEF CutWhole
<1>. QED
  BY <1>6, <1>10, <1>11

(* What is passed up is a frame whose cells are all gone, and later than what *)
(* was passed up before.                                                      *)
PassedUp ==
  /\ FramesIntact
  /\ \A i \in DOMAIN pushed : pushed[i].id \in DOMAIN cut /\ Gone(pushed[i].id, Final(pushed[i].id))

(* A good frame that is complete is the frame whose last cell came.           *)
LEMMA FrameIs ==
  ASSUME IInv, InOrder, CutWhole, RxFrame, NEW h, h = Head(line)
  PROVE  /\ h.bytes.id \in DOMAIN cut /\ Stored = cut[h.bytes.id].crc
         /\ h.nr = Final(h.bytes.id)
<1>1. line # <<>> /\ Complete /\ RxProcessBuf(Stored)
  BY DEF RxFrame
<1>2. /\ Stored = Append(rx, h.bytes) /\ rx \in Seq(Piece) /\ Stored \in Seq(Piece)
      /\ Stored[Len(Stored)] = h.bytes /\ h.bytes.id \in DOMAIN cut
  <2>1. rx \in Seq(Piece)
    BY DEF IInv, TypeOK, RxOK
  <2>2. Stored = Append(rx, h.bytes)
    BY DEF Stored
  <2>3. Stored \in Seq(Piece) /\ Len(Stored) = Len(rx) + 1 /\ h.bytes.id \in DOMAIN cut
    BY <1>1, Received
  <2>. QED
    BY <2>1, <2>2, <2>3
<1>3. Stored = cut[h.bytes.id].crc /\ Size(Stored) < rxEnd
  BY <1>1, <1>2 DEF RxProcessBuf
<1>4. h.auu
  <2>1. Size(Stored) \in Nat /\ rxEnd \in Nat
    BY <1>2, AalAssumption DEF Size, CELL_PAYLOAD_SIZE, IInv, TypeOK, RxOK
  <2>. QED
    BY <1>1, <1>3, <2>1 DEF Complete
<1>5. h.nr = Final(h.bytes.id)
  BY <1>1, <1>4, HeadCell
<1>. QED
  BY <1>2, <1>3, <1>5

(* Packets are named by numbers.                                              *)
LEMMA IdsAre == TxOK => DOMAIN cut \subseteq Nat
<1>1. ASSUME NEW S, NEW q \in Seq(S) PROVE DOMAIN q \subseteq Nat
  OBVIOUS
<1>2. TxOK => cut \in Seq([len : Lengths, crc : Seq(Piece)])
  BY DEF TxOK
<1>. QED
  BY <1>1, <1>2

(* Every step keeps the order, and what is gone stays gone.                   *)
LEMMA OrderStep ==
  ASSUME IInv, InOrder, CutWhole, [Next]_vars
  PROVE  /\ InOrder' /\ CutWhole'
         /\ \A k \in DOMAIN cut : k \in DOMAIN cut' /\ cut'[k] = cut[k]
         /\ \A k, r \in Nat : Gone(k, r) => Gone(k, r)'
<1>1. CASE \/ \E len \in Lengths, room \in Rooms : TakePacket(len, room)
           \/ GetCell \/ PutPacket \/ UNCHANGED <<tx, line>>
  <2>1. \A k \in DOMAIN cut : k \in DOMAIN cut' /\ cut'[k] = cut[k]
    BY <1>1, TakeCuts DEF GetCell, PutPacket, tx
  <2>. QED
    BY <1>1, <2>1, SenderOrder
<1>2. CASE line # <<>> /\ line' = Tail(line) /\ UNCHANGED tx
  <2>1. cut' = cut
    BY <1>2 DEF tx
  <2>. QED
    BY <1>2, <2>1, ReceiverOrder
<1>3. CASE LoseCell \/ RxCell \/ RxFrame \/ RxDiscard \/ RxTooLong
  BY <1>2, <1>3 DEF LoseCell, RxCell, RxFrame, RxDiscard, RxTooLong
<1>. QED
  BY <1>1, <1>3 DEF Next, vars

LEMMA PassedUpStep ==
  ASSUME IInv, InOrder, CutWhole, PassedUp, [Next]_vars
  PROVE  PassedUp'
<1>1. /\ pushed \in Seq([id : Nat, len : Lengths, cells : Seq(Piece)])
      /\ DOMAIN cut \subseteq Nat
  <2>1. DOMAIN cut \subseteq Nat
    BY IdsAre DEF IInv, TypeOK
  <2>. QED
    BY <2>1 DEF IInv, TypeOK, RxOK
<1>2. /\ \A k \in DOMAIN cut : k \in DOMAIN cut' /\ cut'[k] = cut[k]
      /\ \A k, r \in Nat : Gone(k, r) => Gone(k, r)'
  BY OrderStep
<1>3. ASSUME NEW k \in DOMAIN cut, Gone(k, Final(k))
      PROVE  /\ k \in DOMAIN cut' /\ Final(k)' = Final(k)
             /\ Gone(k, Final(k))'
  <2>1. Final(k)' = Final(k) /\ k \in DOMAIN cut' /\ k \in Nat /\ Final(k) \in Nat
    BY <1>1, <1>2, CutAt DEF Final
  <2>2. \A r \in Nat : r = Final(k) => Gone(k, r)'
    BY <1>2, <1>3, <2>1
  <2>3. \A r : r = Final(k)' /\ Gone(k, r)' => Gone(k, Final(k))'
    BY DEF Gone, Cut
  <2>. QED
    BY <2>1, <2>2, <2>3
<1>4. CASE UNCHANGED pushed
  <2>1. FramesIntact'
    BY <1>2, <1>4 DEF PassedUp, FramesIntact
  <2>2. ASSUME NEW k, NEW i \in DOMAIN pushed', k = pushed'[i].id
        PROVE  k \in DOMAIN cut' /\ Gone(k, Final(k))'
    BY <1>3, <1>4, <2>2 DEF PassedUp
  <2>. QED
    BY <2>1, <2>2 DEF PassedUp, Gone, Cut, Final
<1>5. CASE RxFrame
  <2> DEFINE h == Head(line)
             k0 == h.bytes.id
             f == [id |-> k0, len |-> cut[k0].len, cells |-> Stored]
  <2>1. /\ pushed' = Append(pushed, f) /\ cut' = cut /\ line # <<>> /\ line' = Tail(line)
        /\ UNCHANGED tx
    BY <1>5 DEF RxFrame, tx
  <2>2. k0 \in DOMAIN cut /\ Stored = cut[k0].crc /\ h.nr = Final(k0)
    BY <1>5, FrameIs
  <2>3. /\ \A i \in DOMAIN pushed' : \/ i \in DOMAIN pushed /\ pushed'[i] = pushed[i]
                                     \/ i = Len(pushed) + 1 /\ pushed'[i] = f
        /\ \A i, j \in DOMAIN pushed' : i < j => i \in DOMAIN pushed
        /\ DOMAIN pushed \subseteq Nat \ {0}
        /\ Len(pushed) \in Nat /\ \A i \in DOMAIN pushed : i - 1 = 0 \/ i - 1 \in DOMAIN pushed
        /\ Len(pushed) + 1 > 1 => Len(pushed) \in DOMAIN pushed
        /\ \A i \in DOMAIN pushed : pushed'[i] = pushed[i]
    BY <1>1, <2>1, AppendIs
  <2>4. ASSUME NEW k, k = k0 PROVE k \in DOMAIN cut' /\ Gone(k, Final(k))'
    <3>1. k \in Nat /\ Final(k) \in Nat /\ <<k, Final(k)>> = <<h.bytes.id, h.nr>>
      BY <1>1, <2>2, <2>4, CutAt DEF Final
    <3>2. \A r \in Nat : Gone(k, r)' <=> Gone(k, r) \/ <<k, r>> = <<h.bytes.id, h.nr>>
      BY <2>1, <3>1, ReceiverOrder
    <3>3. \A r : r = Final(k)' /\ Gone(k, r)' => Gone(k, Final(k))'
      BY DEF Gone, Cut
    <3>4. Final(k)' = Final(k) /\ k \in DOMAIN cut'
      BY <2>1, <2>2, <2>4 DEF Final
    <3>5. \A r \in Nat : r = Final(k) => Gone(k, r)'
      BY <3>1, <3>2
    <3>. QED
      BY <3>1, <3>3, <3>4, <3>5
  <2>5. ASSUME NEW i \in DOMAIN pushed PROVE pushed[i].id < k0
    <3>1. pushed[i].id \in DOMAIN cut /\ Gone(pushed[i].id, Final(pushed[i].id))
      BY DEF PassedUp
    <3>2. pushed[i].id \in Nat /\ Final(pushed[i].id) \in Nat
      BY <1>1, <3>1, CutAt DEF Final
    <3>3. Earlier(pushed[i].id, Final(pushed[i].id), h)
      BY <2>1, <3>1, <3>2, HeadCell
    <3>. QED
      BY <2>2, <3>2, <3>3 DEF Earlier
  <2>6. /\ f.id = k0 /\ f.len = cut[k0].len /\ f.cells = cut[k0].crc
        /\ WholeFrame(f.cells, f.id, f.len)
    BY <2>2 DEF CutWhole
  <2> HIDE DEF f, h, k0
  <2>7. ASSUME NEW i \in DOMAIN pushed'
        PROVE  LET p == pushed'[i] IN
               /\ i > 1 => p.id > pushed'[i - 1].id
               /\ p.len = cut[p.id].len
               /\ p.cells[1].first = 0 /\ p.cells[Len(p.cells)].trailer
               /\ \A j \in DOMAIN p.cells :
                    /\ p.cells[j].id = p.id
                    /\ p.cells[j].first + p.cells[j].n =
                         IF j = Len(p.cells) THEN p.len ELSE p.cells[j + 1].first
    <3>1. CASE i \in DOMAIN pushed /\ pushed'[i] = pushed[i]
      <4>1. i > 1 => i - 1 \in DOMAIN pushed /\ pushed'[i - 1] = pushed[i - 1]
        BY <2>3, <3>1
      <4>. QED
        BY <3>1, <4>1 DEF PassedUp, FramesIntact
    <3>2. CASE i = Len(pushed) + 1 /\ pushed'[i] = f
      <4>1. i > 1 => i - 1 \in DOMAIN pushed /\ pushed'[i - 1] = pushed[i - 1]
        BY <2>3, <3>2
      <4>2. i > 1 => pushed'[i - 1].id < k0
        BY <2>5, <4>1
      <4>3. i > 1 => f.id > pushed'[i - 1].id
        BY <2>6, <4>2
      <4>4. /\ f.len = cut[f.id].len
            /\ f.cells[1].first = 0 /\ f.cells[Len(f.cells)].trailer
        BY <2>6 DEF WholeFrame
      <4>5. \A j \in DOMAIN f.cells :
              /\ f.cells[j].id = f.id
              /\ f.cells[j].first + f.cells[j].n =
                   IF j = Len(f.cells) THEN f.len ELSE f.cells[j + 1].first
        BY <2>6 DEF WholeFrame
      <4>. QED
        BY <3>2, <4>3, <4>4, <4>5
    <3>. QED
      BY <2>3, <3>1, <3>2
  <2>8. FramesIntact'
    BY <2>1, <2>7 DEF FramesIntact
  <2>9. ASSUME NEW k, NEW i \in DOMAIN pushed', k = pushed'[i].id
        PROVE  k \in DOMAIN cut' /\ Gone(k, Final(k))'
    <3>1. CASE i \in DOMAIN pushed /\ pushed'[i] = pushed[i]
      BY <1>3, <2>9, <3>1 DEF PassedUp
    <3>2. CASE pushed'[i] = f
      BY <2>4, <2>6, <2>9, <3>2
    <3>. QED
      BY <2>3, <3>1, <3>2
  <2>. QED
    BY <2>8, <2>9 DEF PassedUp, Gone, Cut, Final
<1>6. CASE ~RxFrame
  BY <1>4, <1>6 DEF Next, vars, TakePacket, GetCell, PutPacket, LoseCell, RxCell, RxDiscard, RxTooLong, receive
<1>. QED
  BY <1>5, <1>6

(* No cell that frame k needs to get as far as its r-th cell was lost; and    *)
(* the cells that are gone are those up to that one.                          *)
Fine(k, r) ==
  /\ \A j \in 1 .. r : <<k, j>> \notin lost
  /\ k > 1 => <<k - 1, Final(k - 1)>> \notin lost
UpTo(k, r) ==
  /\ r > 0 => Gone(k, r)
  /\ r = 0 /\ k > 1 => Gone(k - 1, Final(k - 1))
  /\ ~Gone(k, r + 1) /\ (k \in DOMAIN cut => r < Final(k))

(* Then these cells are in the receive buffer, and nothing else is; and if    *)
(* the frame is complete, it was passed up.                                   *)
Collected ==
  \A k \in Nat \ {0}, r \in Nat :
    UpTo(k, r) /\ Fine(k, r) /\ (r > 0 => Size(cut[k].crc) < rxEnd) =>
      Len(rx) = r /\ \A j \in 1 .. r : rx[j] = cut[k].crc[j]
Arrived ==
  \A k \in DOMAIN cut :
    Gone(k, Final(k)) /\ Fine(k, Final(k)) /\ Size(cut[k].crc) < rxEnd =>
      \E i \in DOMAIN pushed : pushed[i].id = k

LEMMA CutIs ==
  ASSUME IInv, CutWhole
  PROVE  /\ DOMAIN cut = 1 .. Len(cut) /\ Len(cut) \in Nat
         /\ \A k \in DOMAIN cut :
              /\ cut[k].crc \in Seq(Piece) /\ Final(k) \in Nat \ {0}
              /\ DOMAIN cut[k].crc = 1 .. Final(k)
              /\ k \in Nat \ {0} /\ k <= Len(cut) /\ (k > 1 => k - 1 \in DOMAIN cut)
<1>1. DOMAIN cut = 1 .. Len(cut) /\ Len(cut) \in Nat
  BY DEF IInv, TypeOK, TxOK
<1>2. ASSUME NEW k \in DOMAIN cut
      PROVE  cut[k].crc \in Seq(Piece) /\ Final(k) \in Nat \ {0} /\ DOMAIN cut[k].crc = 1 .. Final(k)
  <2>1. cut[k].crc \in Seq(Piece) /\ cut[k].crc # <<>>
    BY CutAt DEF CutWhole, WholeFrame
  <2>. QED
    BY <2>1 DEF Final
<1>. QED
  BY <1>1, <1>2

(* All the cells before the first one on the line are gone.                   *)
LEMMA GoneBefore ==
  ASSUME IInv, InOrder, CutWhole, line # <<>>, NEW h, h = Head(line)
  PROVE  /\ \A k \in DOMAIN cut : \A r \in 1 .. Final(k) : Gone(k, r) <=> Earlier(k, r, h)
         /\ h.bytes.id \in DOMAIN cut /\ h.nr \in 1 .. Final(h.bytes.id)
<1>1. /\ DOMAIN cut = 1 .. Len(cut) /\ Len(cut) \in Nat
      /\ \A k \in DOMAIN cut : /\ Final(k) \in Nat \ {0} /\ DOMAIN cut[k].crc = 1 .. Final(k)
                               /\ k \in Nat /\ k <= Len(cut)
  BY CutIs
<1>2. /\ h.bytes.id \in Nat /\ h.nr \in Nat /\ Cut(h.bytes.id, h.nr)
      /\ \A k, r \in Nat : Gone(k, r) <=> Cut(k, r) /\ Earlier(k, r, h)
  BY HeadCell
<1>3. /\ h.bytes.id \in DOMAIN cut /\ h.nr \in 1 .. Final(h.bytes.id)
      /\ h.bytes.id = Len(cut) /\ pkt # NoPacket => h.nr < Number
  BY <1>1, <1>2 DEF Cut
<1>4. pkt # NoPacket => Number \in Nat
  BY NumberIs
<1>5. ASSUME NEW k \in DOMAIN cut, NEW r \in 1 .. Final(k), Earlier(k, r, h)
      PROVE  Cut(k, r)
  <2>1. k = Len(cut) => k = h.bytes.id /\ r < h.nr
    BY <1>1, <1>3, <1>5 DEF Earlier
  <2>2. k = Len(cut) /\ pkt # NoPacket => r < Number
    BY <1>1, <1>2, <1>3, <1>4, <2>1
  <2>. QED
    BY <1>1, <2>2 DEF Cut
<1>. QED
  BY <1>1, <1>2, <1>3, <1>5

(* What is gone after the first cell on the line is taken away.               *)
LEMMA UpToNext ==
  ASSUME IInv, InOrder, CutWhole, line # <<>>, line' = Tail(line), UNCHANGED tx,
         NEW h, h = Head(line), NEW k \in Nat \ {0}, NEW r \in Nat, UpTo(k, r)'
  PROVE  \/ k = h.bytes.id /\ r = h.nr /\ r < Final(k)
         \/ k = h.bytes.id + 1 /\ r = 0 /\ h.nr = Final(h.bytes.id)
<1> DEFINE k0 == h.bytes.id
           r0 == h.nr
<1>1. /\ DOMAIN cut = 1 .. Len(cut) /\ Len(cut) \in Nat
      /\ \A n \in DOMAIN cut : Final(n) \in Nat \ {0} /\ n \in Nat \ {0}
  BY CutIs
<1>2. /\ \A n \in DOMAIN cut : \A m \in 1 .. Final(n) : Gone(n, m) <=> Earlier(n, m, h)
      /\ k0 \in DOMAIN cut /\ r0 \in 1 .. Final(k0)
  BY GoneBefore
<1>3. \A n, m \in Nat : Gone(n, m)' <=> Gone(n, m) \/ <<n, m>> = <<k0, r0>>
  BY ReceiverOrder
<1>4. cut' = cut
  BY DEF tx
<1>5. /\ r > 0 => Gone(k, r)'
      /\ ~Gone(k, r + 1)'
      /\ k \in DOMAIN cut => r < Final(k)
  BY <1>4 DEF UpTo, Final, Gone, Cut
<1>6. \A n, m : Gone(n, m) => n \in DOMAIN cut /\ m \in 1 .. Final(n)
  BY CutIs DEF Gone, Cut
<1>7. k \in DOMAIN cut /\ r < Final(k) => ~Earlier(k, r + 1, h) /\ <<k, r + 1>> # <<k0, r0>>
  BY <1>1, <1>2, <1>3, <1>5
<1> HIDE DEF k0, r0
<1>8. CASE r > 0
  <2>1. CASE Gone(k, r)
    BY <1>1, <1>2, <1>5, <1>6, <1>7, <1>8, <2>1 DEF Earlier, k0, r0
  <2>2. CASE k = k0 /\ r = r0
    BY <1>2, <1>5, <2>2 DEF k0, r0
  <2>. QED
    BY <1>3, <1>5, <1>8, <2>1, <2>2
<1>9. CASE r = 0
  <2>1. 1 \in DOMAIN cut /\ (k > 1 => k - 1 \in Nat)
    BY <1>1, <1>2
  <2>2. ASSUME NEW n \in Nat, n = k - 1, k > 1
        PROVE  /\ n \in DOMAIN cut
               /\ (n = k0 /\ r0 = Final(k0)) \/ Earlier(n, Final(n), h)
    <3>1. Gone(n, Final(n))'
      BY <1>9, <2>2 DEF UpTo
    <3>2. n \in DOMAIN cut /\ Gone(n, Final(n))' /\ Final(n)' = Final(n)
      BY <1>4, <3>1 DEF Gone, Cut, Final
    <3>3. \A m : m = Final(n) => Gone(n, m)'
      BY <1>4, <3>1 DEF Gone, Cut, Final
    <3>4. Gone(n, Final(n)) \/ <<n, Final(n)>> = <<k0, r0>>
      BY <1>1, <1>3, <3>2, <3>3
    <3>. QED
      BY <1>1, <1>2, <3>2, <3>4
  <2>3. CASE k > 1 /\ k - 1 = k0 /\ r0 = Final(k0)
    BY <1>2, <1>9, <2>3 DEF k0, r0
  <2>4. CASE k > 1 /\ Earlier(k - 1, Final(k - 1), h)
    <3>1. k - 1 \in DOMAIN cut /\ k - 1 < k0
      BY <1>1, <1>2, <2>1, <2>2, <2>4 DEF Earlier, k0, r0
    <3>2. k \in DOMAIN cut
      BY <1>1, <1>2, <3>1 DEF k0
    <3>. QED
      BY <1>1, <1>2, <1>7, <1>9, <3>1, <3>2 DEF Earlier, k0, r0
  <2>5. CASE k = 1
    <3>1. 0 < Final(1) /\ k0 \in Nat \ {0} /\ r0 \in Nat \ {0}
      BY <1>1, <1>2, <2>1 DEF k0, r0
    <3>2. ~Earlier(1, 1, h) /\ <<1, 1>> # <<k0, r0>>
      BY <1>7, <1>9, <2>1, <2>5, <3>1
    <3>. QED
      BY <3>1, <3>2 DEF Earlier, k0, r0
  <2>. QED
    BY <2>1, <2>2, <2>3, <2>4, <2>5
<1>. QED
  BY <1>8, <1>9

(* When the next cell comes, the cells of its frame before it are stored, if  *)
(* none of them was lost; it fits, and only the last one completes the frame. *)
LEMMA NextStored ==
  ASSUME IInv, InOrder, CutWhole, Collected, line # <<>>, NEW h, h = Head(line),
         NEW k, k = h.bytes.id, NEW r, r = h.nr, Fine(k, r - 1), Size(cut[k].crc) < rxEnd
  PROVE  /\ Len(Stored) = r /\ \A j \in 1 .. r : Stored[j] = cut[k].crc[j]
         /\ Fits /\ (Complete <=> r = Final(k))
<1>1. /\ k \in DOMAIN cut /\ k \in Nat \ {0} /\ r \in 1 .. Final(k) /\ Final(k) \in Nat
      /\ \A n \in DOMAIN cut : Final(n) \in 1 .. Final(n)
      /\ \A n \in DOMAIN cut : \A m \in 1 .. Final(n) : Gone(n, m) <=> Earlier(n, m, h)
      /\ k > 1 => k - 1 \in DOMAIN cut
  BY GoneBefore, CutIs
<1>2. UpTo(k, r - 1)
  <2>1. r - 1 > 0 => Gone(k, r - 1)
    BY <1>1 DEF Earlier
  <2>2. k > 1 => Gone(k - 1, Final(k - 1))
    BY <1>1 DEF Earlier
  <2>3. ~Gone(k, r)
    BY <1>1 DEF Earlier
  <2>4. r - 1 + 1 = r /\ r - 1 < Final(k)
    BY <1>1
  <2>. QED
    BY <2>1, <2>2, <2>3, <2>4 DEF UpTo
<1>3. Len(rx) = r - 1 /\ \A j \in 1 .. r - 1 : rx[j] = cut[k].crc[j]
  <2>1. k \in Nat \ {0} /\ r - 1 \in Nat
    BY <1>1
  <2>. QED
    BY <1>2, <2>1 DEF Collected
<1>4. h.bytes = cut[k].crc[r] /\ (h.auu <=> r = Final(k))
  BY HeadCell
<1>5. rx \in Seq(Piece) /\ Stored = Append(rx, h.bytes)
  BY DEF IInv, TypeOK, RxOK, Stored
<1>6. Len(Stored) = r /\ \A j \in 1 .. r : Stored[j] = cut[k].crc[j]
  <2>1. /\ Len(Stored) = Len(rx) + 1 /\ Stored[Len(rx) + 1] = h.bytes
        /\ \A j \in 1 .. Len(rx) : Stored[j] = rx[j]
    BY <1>5
  <2>2. r - 1 + 1 = r
    BY <1>1
  <2>3. ASSUME NEW j \in 1 .. r PROVE Stored[j] = cut[k].crc[j]
    <3>1. CASE j \in 1 .. r - 1
      BY <1>3, <2>1, <3>1
    <3>2. CASE j = r
      BY <1>3, <1>4, <2>1, <2>2, <3>2
    <3>. QED
      BY <1>1, <3>1, <3>2
  <2>. QED
    BY <1>3, <2>1, <2>2, <2>3
<1>7. Size(Stored) = 48 * r /\ Size(cut[k].crc) = 48 * Final(k) /\ rxEnd \in Nat
  BY <1>6, AalAssumption DEF Size, Final, CELL_PAYLOAD_SIZE, IInv, TypeOK, RxOK
<1>8. 48 * r < rxEnd
  BY <1>1, <1>7
<1>. QED
  BY <1>1, <1>4, <1>6, <1>7, <1>8 DEF Fits, Complete

(* A frame whose last cell comes then is passed up.                           *)
LEMMA WholeStored ==
  ASSUME IInv, InOrder, CutWhole, Collected, line # <<>>, NEW h, h = Head(line),
         NEW k, k = h.bytes.id, h.nr = Final(k), Fine(k, Final(k) - 1), Size(cut[k].crc) < rxEnd
  PROVE  Fits /\ Complete /\ RxProcessBuf(Stored)
<1>1. /\ Len(Stored) = Final(k) /\ \A j \in 1 .. Final(k) : Stored[j] = cut[k].crc[j]
      /\ Fits /\ Complete
  BY NextStored
<1>2. /\ k \in DOMAIN cut /\ cut[k].crc \in Seq(Piece) /\ Final(k) \in Nat \ {0}
      /\ Len(cut[k].crc) = Final(k) /\ Stored \in Seq(Piece)
      /\ Final(k) \in DOMAIN cut[k].crc
  BY GoneBefore, CutIs, Received DEF Final
<1>3. Stored = cut[k].crc
  BY <1>1, <1>2
<1>4. WholeFrame(cut[k].crc, k, cut[k].len)
  BY <1>2 DEF CutWhole
<1>5. Stored[Len(Stored)].id = k
  <2>1. cut[k].crc[Final(k)].id = k
    BY <1>2, <1>4 DEF WholeFrame
  <2>. QED
    BY <1>1, <1>3, <2>1
<1>6. Size(Stored) - cut[k].len \in AAL5_TRLR_SIZE .. AAL5_TRLR_SIZE + MAX_PADDING
  BY <1>3, <1>4 DEF WholeFrame
<1>. QED
  BY <1>1, <1>3, <1>5, <1>6 DEF RxProcessBuf

(* The sender changes neither what is gone nor what was collected.            *)
LEMMA SenderCollected ==
  ASSUME IInv, IInv', InOrder, CutWhole, Collected, Arrived,
         \/ \E len \in Lengths, room \in Rooms : TakePacket(len, room)
         \/ GetCell \/ PutPacket \/ UNCHANGED <<tx, line>>,
         UNCHANGED <<receive, lost>>
  PROVE  Collected' /\ Arrived'
<1>1. /\ \A k \in DOMAIN cut : k \in DOMAIN cut' /\ cut'[k] = cut[k]
      /\ DOMAIN cut \subseteq DOMAIN cut' /\ DOMAIN cut' \subseteq Nat
      /\ rx' = rx /\ rxEnd' = rxEnd /\ pushed' = pushed /\ lost' = lost
  <2>1. DOMAIN cut' \subseteq Nat
    <3>1. ASSUME NEW S, NEW q \in Seq(S) PROVE DOMAIN q \subseteq Nat
      OBVIOUS
    <3>2. cut' \in Seq([len : Lengths, crc : Seq(Piece)])
      BY DEF IInv, TypeOK, TxOK
    <3>. QED
      BY <3>1, <3>2
  <2>2. CASE UNCHANGED cut
    BY <2>1, <2>2 DEF receive
  <2>3. CASE \E len \in Lengths, room \in Rooms : TakePacket(len, room)
    BY <2>1, <2>3, TakeCuts DEF receive
  <2>. QED
    BY <2>2, <2>3 DEF GetCell, PutPacket, tx
<1>2. \A k, r \in Nat : Gone(k, r)' <=> Gone(k, r)
  BY SenderOrder
<1>3. ASSUME NEW k \in Nat, NEW r \in Nat, Gone(k, r) PROVE k \in DOMAIN cut
  BY <1>3 DEF Gone, Cut
<1>4. ASSUME NEW k \in Nat, Gone(k, Final(k))'
      PROVE  k \in DOMAIN cut /\ Gone(k, Final(k)) /\ Final(k)' = Final(k)
  <2>1. k \in DOMAIN cut'
    BY <1>4 DEF Gone, Cut
  <2>2. \E r \in Nat : r = Final(k)' /\ Gone(k, r)'
    <3>1. cut' \in Seq([len : Lengths, crc : Seq(Piece)])
      BY DEF IInv, TypeOK, TxOK
    <3>2. Final(k)' \in Nat
      BY <2>1, <3>1 DEF Final
    <3>. QED
      BY <1>4, <3>2 DEF Gone, Cut
  <2>3. k \in DOMAIN cut
    BY <1>2, <1>3, <2>2
  <2>4. Final(k)' = Final(k)
    BY <1>1, <2>3 DEF Final
  <2>. QED
    BY <1>2, <2>2, <2>3, <2>4
<1>5. ASSUME NEW k \in Nat \ {0}, NEW r \in Nat, UpTo(k, r)', Fine(k, r)',
             r > 0 => Size(cut'[k].crc) < rxEnd
      PROVE  Len(rx) = r /\ \A j \in 1 .. r : rx[j] = cut[k].crc[j] /\ k \in DOMAIN cut
  <2>1. r > 0 => Gone(k, r) /\ k \in DOMAIN cut
    BY <1>2, <1>3, <1>5 DEF UpTo
  <2>2. r = 0 /\ k > 1 => Gone(k - 1, Final(k - 1)) /\ Final(k - 1)' = Final(k - 1)
    BY <1>4, <1>5 DEF UpTo
  <2>3. ~Gone(k, r + 1)
    BY <1>2, <1>5 DEF UpTo
  <2>4. k \in DOMAIN cut => r < Final(k)
    BY <1>1, <1>5 DEF UpTo, Final
  <2>5. UpTo(k, r)
    BY <2>1, <2>2, <2>3, <2>4 DEF UpTo
  <2>6. k > 1 => Final(k - 1)' = Final(k - 1)
    BY <1>1, <2>1, <2>2, CutIs DEF Final
  <2>7. Fine(k, r)
    BY <1>1, <1>5, <2>6 DEF Fine
  <2>8. r > 0 => Size(cut[k].crc) < rxEnd
    BY <1>1, <1>5, <2>1
  <2>. QED
    BY <2>1, <2>5, <2>7, <2>8 DEF Collected
<1>6. Collected'
  <2> SUFFICES ASSUME NEW k \in Nat \ {0}, NEW r \in Nat, UpTo(k, r)', Fine(k, r)',
                      r > 0 => Size(cut'[k].crc) < rxEnd
               PROVE  Len(rx) = r /\ \A j \in 1 .. r : rx[j] = cut'[k].crc[j]
    BY <1>1 DEF Collected, Size
  <2>. QED
    BY <1>1, <1>5
<1>7. Arrived'
  <2> SUFFICES ASSUME NEW k \in DOMAIN cut', Gone(k, Final(k))', Fine(k, Final(k))',
                      Size(cut'[k].crc) < rxEnd
               PROVE  \E i \in DOMAIN pushed : pushed[i].id = k
    BY <1>1 DEF Arrived, Size
  <2>1. k \in DOMAIN cut /\ Gone(k, Final(k)) /\ Final(k)' = Final(k)
    BY <1>1, <1>4
  <2>2. k > 1 => Final(k - 1)' = Final(k - 1)
    BY <1>1, <2>1, CutIs DEF Final
  <2>3. Fine(k, Final(k)) /\ Size(cut[k].crc) < rxEnd
    BY <1>1, <2>1, <2>2 DEF Fine
  <2>. QED
    BY <2>1, <2>3 DEF Arrived
<1>. QED
  BY <1>6, <1>7

(* The receiver stores the cell that comes, or ends the frame.                *)
LEMMA ReceiverCollected ==
  ASSUME IInv, InOrder, CutWhole, Collected, Arrived,
         LoseCell \/ RxCell \/ RxFrame \/ RxDiscard \/ RxTooLong
  PROVE  Collected' /\ Arrived'
<1> DEFINE h == Head(line)
           k0 == h.bytes.id
           r0 == h.nr
<1>1. /\ line # <<>> /\ line' = Tail(line) /\ UNCHANGED <<tx, rxEnd>> /\ cut' = cut
      /\ lost \subseteq lost' /\ (LoseCell => <<k0, r0>> \in lost')
  BY DEF LoseCell, RxCell, RxFrame, RxDiscard, RxTooLong, receive, tx, Name
<1>2. \A i \in DOMAIN pushed : i \in DOMAIN pushed' /\ pushed'[i] = pushed[i]
  <2>1. CASE UNCHANGED pushed
    BY <2>1
  <2>2. CASE RxFrame
    <3>1. pushed \in Seq([id : Nat, len : Lengths, cells : Seq(Piece)])
      BY DEF IInv, TypeOK, RxOK
    <3>. QED
      BY <2>2, <3>1 DEF RxFrame
  <2>. QED
    BY <2>1, <2>2 DEF LoseCell, RxCell, RxDiscard, RxTooLong, receive
<1>3. /\ k0 \in DOMAIN cut /\ k0 \in Nat \ {0} /\ r0 \in 1 .. Final(k0) /\ Final(k0) \in Nat
      /\ (h.auu <=> r0 = Final(k0))
  BY <1>1, GoneBefore, CutIs, HeadCell
<1>4. ASSUME NEW k, NEW r, NEW r1, r1 <= r, r \in Int, r1 \in Int, Fine(k, r)' PROVE Fine(k, r1)
  <2>1. \A j \in 1 .. r1 : j \in 1 .. r
    BY <1>4
  <2>. QED
    BY <1>1, <1>4, <2>1 DEF Fine, Final
<1>5. ASSUME NEW k \in Nat \ {0}, NEW r \in Nat, UpTo(k, r)', Fine(k, r)',
             r > 0 => Size(cut[k].crc) < rxEnd
      PROVE  Len(rx') = r /\ \A j \in 1 .. r : rx'[j] = cut[k].crc[j]
  <2>1. \/ k = k0 /\ r = r0 /\ r < Final(k)
        \/ k = k0 + 1 /\ r = 0 /\ r0 = Final(k0)
    BY <1>1, <1>5, UpToNext
  <2>2. CASE k = k0 /\ r = r0 /\ r < Final(k)
    <3>1. Fine(k, r - 1) /\ Size(cut[k].crc) < rxEnd
      BY <1>3, <1>4, <1>5, <2>2
    <3>2. /\ Len(Stored) = r /\ \A j \in 1 .. r : Stored[j] = cut[k].crc[j]
          /\ Fits /\ (Complete <=> r = Final(k))
      <4> HIDE DEF h
      <4>1. line # <<>> /\ h = Head(line) /\ k = h.bytes.id /\ r = h.nr
        BY <1>1, <2>2 DEF h
      <4>. QED
        BY <3>1, <4>1, NextStored
    <3>3. ~LoseCell
      BY <1>1, <1>3, <1>5, <2>2 DEF Fine
    <3>4. rx' = Stored
      <4>1. ~Complete
        BY <1>3, <2>2, <3>2
      <4>. QED
        BY <3>2, <3>3, <4>1 DEF RxCell, RxFrame, RxDiscard, RxTooLong
    <3>. QED
      BY <3>2, <3>4
  <2>3. CASE k = k0 + 1 /\ r = 0 /\ r0 = Final(k0)
    <3>1. <<k0, r0>> \notin lost'
      <4>1. k - 1 = k0 /\ k > 1
        BY <1>3, <2>3
      <4>2. <<k - 1, Final(k - 1)>> \notin lost'
        BY <1>1, <1>5, <4>1 DEF Fine, Final
      <4>. QED
        BY <2>3, <4>1, <4>2
    <3>2. Complete
      BY <1>3, <2>3 DEF Complete
    <3>3. rx' = <<>>
      BY <1>1, <3>1, <3>2 DEF RxCell, RxFrame, RxDiscard, RxTooLong
    <3>. QED
      BY <2>3, <3>3
  <2>. QED
    BY <2>1, <2>2, <2>3
<1>6. Collected'
  BY <1>1, <1>5 DEF Collected, Size
<1>7. ASSUME NEW k \in DOMAIN cut, NEW r, r = Final(k), Gone(k, r)', Fine(k, r)',
             Size(cut[k].crc) < rxEnd
      PROVE  \E i \in DOMAIN pushed' : pushed'[i].id = k
  <2>1. k \in Nat \ {0} /\ r \in Nat \ {0}
    BY <1>7, CutIs
  <2>2. Gone(k, r) \/ <<k, r>> = <<k0, r0>>
    BY <1>1, <1>7, <2>1, ReceiverOrder
  <2>3. CASE Gone(k, r)
    <3>1. Fine(k, r)
      BY <1>4, <1>7, <2>1
    <3>2. \E i \in DOMAIN pushed : pushed[i].id = k
      BY <1>7, <2>3, <3>1 DEF Arrived
    <3>. QED
      BY <1>2, <3>2
  <2>4. CASE k = k0 /\ r = r0
    <3>1. Fine(k, Final(k) - 1)
      BY <1>4, <1>7, <2>1
    <3>2. Fits /\ Complete /\ RxProcessBuf(Stored)
      BY <1>1, <1>7, <2>4, <3>1, WholeStored
    <3>3. ~LoseCell
      BY <1>1, <1>3, <1>7, <2>4 DEF Fine
    <3>4. RxFrame
      BY <3>2, <3>3 DEF RxCell, RxDiscard, RxTooLong
    <3>5. pushed \in Seq([id : Nat, len : Lengths, cells : Seq(Piece)])
      BY DEF IInv, TypeOK, RxOK
    <3>6. Len(pushed) + 1 \in DOMAIN pushed' /\ pushed'[Len(pushed) + 1].id = k
      BY <2>4, <3>4, <3>5 DEF RxFrame
    <3>. QED
      BY <3>6
  <2>. QED
    BY <2>2, <2>3, <2>4
<1>8. Arrived'
  <2> SUFFICES ASSUME NEW k \in DOMAIN cut, Gone(k, Final(k))', Fine(k, Final(k))',
                      Size(cut[k].crc) < rxEnd
               PROVE  \E i \in DOMAIN pushed' : pushed'[i].id = k
    BY <1>1 DEF Arrived, Size
  <2>1. \A r : r = Final(k) => Gone(k, r)' /\ Fine(k, r)'
    BY <1>1 DEF Gone, Cut, Fine, Final
  <2>. QED
    BY <1>7, <2>1
<1>. QED
  BY <1>6, <1>8

(* The invariant that both properties follow from.                            *)
FInv == IInv /\ InOrder /\ CutWhole /\ PassedUp /\ Collected /\ Arrived

LEMMA InitFInv == Init => FInv
<1> SUFFICES ASSUME Init PROVE FInv
  OBVIOUS
<1>1. /\ cut = <<>> /\ line = <<>> /\ pushed = <<>> /\ rx = <<>>
      /\ DOMAIN cut = {} /\ DOMAIN line = {} /\ DOMAIN pushed = {}
  BY DEF Init
<1>2. InOrder /\ CutWhole /\ PassedUp /\ Arrived
  BY <1>1 DEF InOrder, CutWhole, PassedUp, FramesIntact, Arrived, Gone, Cut
<1>3. Collected
  BY <1>1 DEF Collected, UpTo, Gone, Cut
<1>. QED
  BY <1>2, <1>3, InitIInv DEF FInv

LEMMA FramesInvariance == Spec => []FInv
<1>1. ASSUME FInv, [Next]_vars PROVE FInv'
  <2>1. IInv'
    BY <1>1, TypeStep, WalkStep, CoveredStep DEF IInv, FInv
  <2>2. InOrder' /\ CutWhole' /\ PassedUp'
    BY <1>1, OrderStep, PassedUpStep DEF FInv
  <2>3. CASE LoseCell \/ RxCell \/ RxFrame \/ RxDiscard \/ RxTooLong
    BY <1>1, <2>1, <2>2, <2>3, ReceiverCollected DEF FInv
  <2>4. CASE /\ \/ \E len \in Lengths, room \in Rooms : TakePacket(len, room)
                \/ GetCell \/ PutPacket \/ UNCHANGED <<tx, line>>
             /\ UNCHANGED <<receive, lost>>
    BY <1>1, <2>1, <2>2, <2>4, SenderCollected DEF FInv
  <2>. QED
    BY <1>1, <2>3, <2>4 DEF Next, vars, TakePacket, GetCell, PutPacket
<1>. QED
  BY InitFInv, <1>1, PTL DEF Spec

(* Whatever the line loses, a frame that FrameALAALRxProcessBuf passes up is  *)
(* one that was sent, all of its payload in place, in the order of sending.   *)
THEOREM FramesComeIntact == Spec => []FramesIntact
<1>1. FInv => FramesIntact
  BY DEF FInv, PassedUp
<1>. QED
  BY FramesInvariance, <1>1, PTL

(* A frame that does not fill the receive buffer is passed up, if none of its *)
(* cells was lost, nor the last one of the frame before it: what becomes of   *)
(* other frames does it no harm.                                              *)
THEOREM GoodFramesCome == Spec => []GoodFramesArrive
<1>1. ASSUME FInv PROVE GoodFramesArrive
  <2> SUFFICES ASSUME NEW k \in DOMAIN cut, Ended(k),
                      \A i \in DOMAIN line : line[i].bytes.id # k,
                      \A j \in DOMAIN cut[k].crc : <<k, j>> \notin lost,
                      k > 1 => <<k - 1, Len(cut[k - 1].crc)>> \notin lost,
                      Size(cut[k].crc) < rxEnd
               PROVE  \E i \in DOMAIN pushed : pushed[i].id = k
    BY DEF GoodFramesArrive
  <2>1. /\ DOMAIN cut[k].crc = 1 .. Final(k) /\ Final(k) \in Nat \ {0}
        /\ k \in Nat /\ Len(cut) \in Nat
    BY <1>1, CutIs DEF FInv
  <2>2. Cut(k, Final(k))
    BY <2>1 DEF Cut, Ended
  <2>3. Gone(k, Final(k))
    BY <2>2 DEF Gone, Name
  <2>4. Fine(k, Final(k))
    BY <2>1 DEF Fine, Final
  <2>. QED
    BY <1>1, <2>3, <2>4 DEF FInv, Arrived
<1>. QED
  BY FramesInvariance, <1>1, PTL
===============================================================================
