----------------------------- MODULE ArmLoadProofs -----------------------------
(* Two properties of the load, for every set of files of whole words, every   *)
(* number of pins, tries and refused commands and every length of a word:     *)
(* who is signalled, and what the ARM's memory holds when it starts.          *)
EXTENDS ArmLoad, SequenceTheorems, TLAPS
--------------------------------------------------------------------------------
(* The inductive invariant of the waits: types of all but the history, and    *)
(* where the loader is,                                                       *)
Steps == {"out", "address", "word", "goto", "read", "extend", "pins", "conf"}
Words == [0 .. WordLen - 1 -> Nat]
Orders == [op : {"address"}, arg : Nat, note : Signals]
            \cup [op : {"word"}, arg : Words, note : Signals]
            \cup [op : {"goto", "read", "extend", "pin", "conf"}, arg : Nat, note : Signals]

TypeOK ==
  /\ faults \subseteq {"late", "signal", "memory", "dud"} /\ file \in Files
  /\ tool \in {"idle", "read", "sent", "starting", "loaded", "failed"}
  /\ pos \in Nat \ {0} /\ seg \in Nat /\ lin \in Nat /\ ret \in BOOLEAN
  /\ step \in Steps /\ waiting \in BOOLEAN /\ event \in BOOLEAN
  /\ fifo \in Seq(Orders) /\ reg \in Seq(Orders) /\ Len(reg) <= 1
  /\ onRead \in Signals /\ onConf \in Signals /\ resp \subseteq {"read", "conf"}
  /\ wr \in Nat /\ ran \in Nat /\ conf \in BOOLEAN /\ go \in BOOLEAN /\ dead \in BOOLEAN

(* The ioctl that is executed is the one of the record that is read, and what *)
(* is left of its digits is their end.                                        *)
CallOK ==
  /\ tool \in {"sent", "starting"} => pos \in DOMAIN file
  /\ tool = "sent" => file[pos].type \in {"data", "goto"}
  /\ tool = "starting" => file[pos].type = "end"
  /\ step \in {"address", "word"} => tool = "sent" /\ file[pos].type = "data"
  /\ step \notin {"out", "address", "word"} => tool = "starting"
  /\ IF step \in {"address", "word"} THEN left \in Digits ELSE left \in Seq({"pin"})
  /\ step = "word" /\ ~waiting => left # <<>>
  /\ step = "address" => left = file[pos].digits
  /\ step \in {"address", "word"} =>
       /\ Len(left) <= Len(file[pos].digits)
       /\ \A k \in 1 .. Len(left) :
            left[k] = file[pos].digits[Len(file[pos].digits) - Len(left) + k]

(* Only the response to the last command can wake the function that gives the *)
(* go, unless a late signal wakes it.                                         *)
GoesLast ==
  /\ onRead = "live" <=> step = "read"
  /\ step = "conf" => onConf = "live"
  /\ "conf" \in resp => conf
  /\ step = "conf" => \A i \in DOMAIN fifo : fifo[i].note # "live"
  /\ step = "conf" /\ event /\ ~dead => conf
  /\ go /\ ~dead => conf

(* As long as no wait was cut short: a command that will signal, or a response*)
(* that will, is the last that is under way, and the function that waits for  *)
(* it waits.                                                                  *)
Waits == waiting /\ ~event
Pending(op) == \/ \E i \in DOMAIN fifo : fifo[i].op = op
               \/ \E i \in DOMAIN reg : reg[i].op = op
               \/ op \in resp
Awaited(op, handler) ==
  /\ Pending(op) => step = op /\ Waits /\ handler = "live"
  /\ \A i \in DOMAIN fifo : fifo[i].op = op =>
       i = Len(fifo) /\ op \notin resp /\ \A j \in DOMAIN reg : reg[j].op # op
  /\ \A j \in DOMAIN reg : reg[j].op = op => op \notin resp

InTime ==
  /\ ~dead
  /\ \A i \in DOMAIN fifo : fifo[i].note # "dead"
  /\ \A i \in DOMAIN fifo : fifo[i].note = "live" =>
       i = Len(fifo) /\ Waits /\ step \in {"address", "word", "goto", "extend", "pins"}
  /\ ~waiting => ~event
  /\ step = "out" => ~waiting
  /\ Awaited("read", onRead) /\ Awaited("conf", onConf)

SignalInv == TypeOK /\ CallOK /\ GoesLast /\ (~cut => InTime)
--------------------------------------------------------------------------------
(* The inductive invariant of the memory.  at[i] is where the ARM will write  *)
(* its next word when it comes to command i of those it was given.            *)
Commands  == reg \o fifo
WordBytes == WordLen \div 2
After(a, c) == CASE c.op = "address" -> c.arg
                 [] c.op = "word"    -> a + WordBytes
                 [] OTHER            -> a
Trail(q, a, at) ==
  /\ at \in [1 .. Len(q) + 1 -> Nat] /\ at[1] = a
  /\ \A i \in DOMAIN q : at[i + 1] = After(at[i], q[i])

(* A word only has what the file says of the bytes it is written to.          *)
RightWord(f, w, a) ==
  \A i \in DOMAIN f : \A k \in Bytes(f, i) :
    At(f, i, k) \in WordAt(a) => ByteOf(w, a, At(f, i, k)) = Byte(f, i, k)
RightWords(f, q, at) == \A i \in DOMAIN q : q[i].op = "word" => RightWord(f, q[i].arg, at[i])

(* The byte is in the memory, or in a word among the first n commands.        *)
Comes(f, q, at, n, m, i, k) ==
  \/ Held(m, f, i, k)
  \/ \E j \in DOMAIN q : j <= n /\ q[j].op = "word" /\ At(f, i, k) \in WordAt(at[j])

(* Every byte comes before a program is started.                              *)
StartsAfter(f, q, at, m) ==
  \A g \in DOMAIN q : q[g].op = "goto" =>
    \A i \in DOMAIN f : \A k \in Bytes(f, i) : Comes(f, q, at, g, m, i, k)

(* The bytes that were sent, of the records before this one and of this one,  *)
(* come; but what follows a refused command is not counted on.                *)
Sent(k) ==
  /\ tool = "sent"
  /\ \/ step = "out" /\ ret
     \/ /\ step \in {"address", "word"} /\ ~vain
        /\ 2 * (k + 1) + Len(left) <= Len(file[pos].digits)
Due(i, k) == i < pos \/ (i = pos /\ Sent(k))
SentWords(q, at) ==
  \A i \in DOMAIN file : \A k \in Bytes(file, i) : Due(i, k) => Comes(file, q, at, Len(q), mem, i, k)

(* The next word will be written where the file wants it.                     *)
NextAddress(e) ==
  (step = "word" \/ (step = "address" /\ waiting)) /\ ~vain =>
    2 * (e - At(file, pos, 0)) + Len(left) = Len(file[pos].digits)

LoadOK(at) ==
  /\ Trail(Commands, wr, at)
  /\ RightWords(file, Commands, at)
  /\ StartsAfter(file, Commands, at, mem)
  /\ SentWords(Commands, at)
  /\ NextAddress(at[Len(Commands) + 1])

(* Addresses count from the last address records before this record.          *)
Addresses == seg = 16 * LastOf(file, pos - 1, "segment") /\ lin = 65536 * LastOf(file, pos - 1, "linear")

(* No ioctl, no wait; and after a refused command no next word, unless a stale*)
(* completion has passed for its own.                                         *)
Rests ==
  /\ step = "out" => ~waiting
  /\ step = "word" /\ ~waiting /\ vain => misled

LoadInv == SignalInv /\ Rests /\ Addresses /\ (misled \/ \E at : LoadOK(at))
--------------------------------------------------------------------------------
(* Commands, records and words.                                               *)
LEMMA Constants ==
  /\ WordLen \in Nat /\ WordLen > 0 /\ WordLen % 2 = 0 /\ WordLen = 2 * WordBytes /\ WordBytes \in Nat
  /\ WordBytes > 0 /\ Pins \in Nat
BY ArmLoadAssumption DEF WordBytes

(* What the commands are, with any note.                                      *)
LEMMA OrderTypes ==
  /\ \A n \in Signals, a \in Nat :
       /\ Cmd("address", a, n) \in Orders /\ Cmd("goto", a, n) \in Orders /\ Cmd("read", a, n) \in Orders
       /\ Cmd("extend", a, n) \in Orders /\ Cmd("pin", a, n) \in Orders /\ Cmd("conf", a, n) \in Orders
  /\ \A n \in Signals, w \in Words : Cmd("word", w, n) \in Orders
  /\ \A c \in Orders, n \in Signals : [c EXCEPT !.note = n] \in Orders
  /\ \A c \in Orders : c.note \in Signals
BY DEF Cmd, Orders

(* What the records of the file are.                                          *)
LEMMA RecordTypes ==
  ASSUME TypeOK
  PROVE  /\ file \in Seq(Records)
         /\ \A i \in DOMAIN file :
              /\ file[i].type = "data" => file[i].offset \in Nat /\ file[i].digits \in Digits
              /\ file[i].type \in {"segment", "linear", "goto"} => file[i].value \in Nat
<1>1. file \in Seq(Records)
  BY ArmLoadAssumption DEF TypeOK
<1>2. \A r \in Records : /\ r.type = "data" => r.offset \in Nat /\ r.digits \in Digits
                         /\ r.type \in {"segment", "linear", "goto"} => r.value \in Nat
  BY DEF Records
<1>3. \A i \in DOMAIN file : file[i] \in Records
  BY <1>1
<1>. QED
  BY <1>1, <1>2, <1>3

(* Signals, writes and returns keep types.                                    *)
LEMMA SignalTypes ==
  ASSUME TypeOK, NEW n \in Signals, Signal(n)
  PROVE  event' \in BOOLEAN /\ dead' \in BOOLEAN
BY DEF TypeOK, Signal, Signals

(* A write of a command does.                                                 *)
LEMMA WriteTypes ==
  ASSUME TypeOK, NEW c \in Orders, ChipALWrite(c)
  PROVE  fifo' \in Seq(Orders) /\ reg' \in Seq(Orders) /\ Len(reg') <= 1
         /\ event' \in BOOLEAN /\ dead' \in BOOLEAN
<1>1. CASE WriteNow(c)
  <2>1. c.note \in Signals
    BY OrderTypes
  <2>2. event' \in BOOLEAN /\ dead' \in BOOLEAN
    BY <1>1, <2>1, SignalTypes DEF WriteNow
  <2>3. reg' = <<c>> /\ fifo' = fifo
    BY <1>1 DEF WriteNow
  <2>. QED
    BY <2>2, <2>3 DEF TypeOK
<1>2. CASE WriteQueue(c)
  <2>1. fifo' = Append(fifo, c) /\ reg' = reg /\ event' = event /\ dead' = dead
    BY <1>2 DEF WriteQueue
  <2>. QED
    BY <2>1 DEF TypeOK
<1>3. CASE WriteRefused
  BY <1>3 DEF WriteRefused, TypeOK
<1>. QED
  BY <1>1, <1>2, <1>3 DEF ChipALWrite, Accepts

(* Notes that are changed do.                                                 *)
LEMMA OrphanTypes ==
  ASSUME NEW q \in Seq(Orders)
  PROVE  Orphaned(q) \in Seq(Orders)
<1>1. Len(q) \in Nat /\ DOMAIN q = 1 .. Len(q)
  OBVIOUS
<1>2. \A i \in 1 .. Len(q) : [q[i] EXCEPT !.note = Gone(@)] \in Orders
  <2>. SUFFICES ASSUME NEW i \in 1 .. Len(q) PROVE [q[i] EXCEPT !.note = Gone(@)] \in Orders
    OBVIOUS
  <2>1. q[i] \in Orders
    OBVIOUS
  <2>2. q[i].note \in Signals /\ Gone(q[i].note) \in Signals
    BY <2>1, OrderTypes DEF Gone, Signals
  <2>. QED
    BY <2>1, <2>2, OrderTypes
<1>. QED
  BY <1>1, <1>2 DEF Orphaned

(* parseData swaps the two digits of each byte.                               *)
LEMMA ParsedDigits ==
  ASSUME NEW d \in Seq(Nat), Len(d) = WordLen
  PROVE /\ parseData(d) \in Words
        /\ \A k \in 0 .. WordBytes - 1 : parseData(d)[2 * k + 1] = d[2 * k + 1] /\ parseData(d)[2 * k] = d[2 * k + 2]
<1> DEFINE U(i) == IF i % 2 = 0 THEN i + 1 ELSE i - 1
           W == 0 .. WordLen - 1
<1>1. WordLen \in Nat /\ WordLen > 0 /\ WordLen % 2 = 0 /\ WordLen = 2 * WordBytes /\ WordBytes \in Nat
  BY ArmLoadAssumption DEF WordBytes
<1>2. \A i \in W : U(i) \in W /\ U(U(i)) = i
  BY <1>1
<1>3. \A k \in W : (CHOOSE i \in W : U(i) = k) = U(k)
  <2>. SUFFICES ASSUME NEW k \in W PROVE (CHOOSE i \in W : U(i) = k) = U(k)
    OBVIOUS
  <2>1. U(k) \in W /\ U(U(k)) = k /\ \A i \in W : U(i) = k => i = U(k)
    BY <1>2
  <2>. HIDE DEF U, W
  <2>. QED
    BY <2>1
<1>4. parseData(d) = [k \in W |-> d[1 + U(k)]]
  <2> DEFINE Place(k) == CHOOSE i \in W : U(i) = k
  <2>1. parseData(d) = [k \in W |-> d[1 + Place(k)]]
    BY DEF parseData
  <2>2. \A k \in W : Place(k) = U(k)
    BY <1>3
  <2>. HIDE DEF U, W, Place
  <2>. QED
    BY <2>1, <2>2
<1>5. \A k \in W : d[1 + U(k)] \in Nat
  BY <1>1, <1>2
<1>6. \A k \in 0 .. WordBytes - 1 : /\ 2 * k \in W /\ 2 * k + 1 \in W /\ U(2 * k) = 2 * k + 1 /\ U(2 * k + 1) = 2 * k
  BY <1>1
<1>7. parseData(d) \in Words
  BY <1>4, <1>5 DEF Words
<1>. HIDE DEF U, W
<1>8. ASSUME NEW k \in 0 .. WordBytes - 1
      PROVE parseData(d)[2 * k + 1] = d[2 * k + 1] /\ parseData(d)[2 * k] = d[2 * k + 2]
  BY <1>4, <1>6
<1>. QED BY <1>7, <1>8

(* Whom a completion or a handler signals.                                    *)
LEMMA SignalIs ==
  ASSUME TypeOK, NEW n \in Signals, Signal(n)
  PROVE  /\ n = "none" => (event' <=> event) /\ (dead' <=> dead)
         /\ n = "live" => event' /\ (dead' <=> dead)
         /\ n = "dead" => dead'
<1>1. CASE n = "none"
  BY <1>1 DEF Signal
<1>2. CASE n = "live"
  BY <1>2 DEF Signal
<1>3. CASE n = "dead"
  BY <1>3 DEF Signal
<1>. QED
  BY <1>1, <1>2, <1>3 DEF Signals

(* Notes are struck out of queued commands, and the commands stay.            *)
Struck(q) == [i \in DOMAIN q |-> IF q[i].note = "live" THEN [q[i] EXCEPT !.note = "none"] ELSE q[i]]

(* Commands with their notes struck out are commands.                         *)
LEMMA StruckTypes ==
  ASSUME NEW q \in Seq(Orders)
  PROVE  Struck(q) \in Seq(Orders)
<1>1. Len(q) \in Nat /\ DOMAIN q = 1 .. Len(q)
  OBVIOUS
<1>2. "none" \in Signals
  BY DEF Signals
<1>4. \A i \in 1 .. Len(q) : q[i] \in Orders
  OBVIOUS
<1>3. \A i \in 1 .. Len(q) : [q[i] EXCEPT !.note = "none"] \in Orders
  BY <1>2, <1>4, OrderTypes
<1>. QED
  BY <1>1, <1>3, <1>4 DEF Struck

SameOrders(q, p) ==
  Len(p) = Len(q) /\ \A i \in DOMAIN q : p[i].op = q[i].op /\ p[i].arg = q[i].arg

(* A change of notes changes nothing else.                                    *)
LEMMA NotesOnly ==
  ASSUME NEW q \in Seq(Orders)
  PROVE  /\ SameOrders(q, Orphaned(q)) /\ SameOrders(q, Struck(q)) /\ SameOrders(q, q)
         /\ \A i \in DOMAIN q : q[i].note = "none" =>
              Orphaned(q)[i].note = "none" /\ Struck(q)[i].note = "none"
         /\ \A i \in DOMAIN q : Struck(q)[i].note # "live"
<1>1. Len(q) \in Nat /\ DOMAIN q = 1 .. Len(q)
  OBVIOUS
<1>2. \A i \in DOMAIN q : q[i] \in Orders
  OBVIOUS
<1>3. \A c \in Orders : \A n : [c EXCEPT !.note = n].op = c.op /\ [c EXCEPT !.note = n].arg = c.arg
                          /\ [c EXCEPT !.note = n].note = n
  BY DEF Orders
<1>4. Len(Orphaned(q)) = Len(q) /\ Len(Struck(q)) = Len(q)
  BY OrphanTypes, StruckTypes, <1>1 DEF Orphaned, Struck
<1>5. \A i \in DOMAIN q : /\ Orphaned(q)[i] = [q[i] EXCEPT !.note = Gone(@)]
                          /\ Struck(q)[i] = IF q[i].note = "live" THEN [q[i] EXCEPT !.note = "none"] ELSE q[i]
  BY DEF Orphaned, Struck
<1>6. ASSUME NEW i \in DOMAIN q
      PROVE  /\ Orphaned(q)[i].op = q[i].op /\ Orphaned(q)[i].arg = q[i].arg
             /\ Orphaned(q)[i].note = Gone(q[i].note)
  <2>1. q[i] \in Orders /\ Orphaned(q)[i] = [q[i] EXCEPT !.note = Gone(q[i].note)]
    BY <1>2, <1>5
  <2>. QED
    BY <1>3, <2>1
<1>7. ASSUME NEW i \in DOMAIN q
      PROVE  /\ Struck(q)[i].op = q[i].op /\ Struck(q)[i].arg = q[i].arg
             /\ Struck(q)[i].note = IF q[i].note = "live" THEN "none" ELSE q[i].note
  <2>1. CASE q[i].note = "live"
    <3>1. q[i] \in Orders /\ Struck(q)[i] = [q[i] EXCEPT !.note = "none"]
      BY <1>2, <1>5, <2>1
    <3>. QED
      BY <1>3, <2>1, <3>1
  <2>2. CASE q[i].note # "live"
    <3>1. Struck(q)[i] = q[i]
      BY <1>5, <2>2
    <3>. QED
      BY <2>2, <3>1
  <2>. QED
    BY <2>1, <2>2
<1>8. SameOrders(q, Orphaned(q)) /\ SameOrders(q, Struck(q)) /\ SameOrders(q, q)
  BY <1>4, <1>6, <1>7 DEF SameOrders
<1>9. \A i \in DOMAIN q : q[i].note = "none" => Orphaned(q)[i].note = "none" /\ Struck(q)[i].note = "none"
  BY <1>6, <1>7 DEF Gone
<1>10. \A i \in DOMAIN q : Struck(q)[i].note # "live"
  BY <1>7
<1>. QED
  BY <1>8, <1>9, <1>10

(* Nothing in the queue is to signal anyone.                                  *)
Quiet(q) == \A i \in DOMAIN q : q[i].note = "none"

(* Where commands are after one was written.                                  *)
LEMMA WriteFacts ==
  ASSUME TypeOK, NEW c \in Orders, Accepts(c)
  PROVE  \/ /\ fifo = <<>> /\ reg = <<>> /\ fifo' = <<>> /\ reg' = <<c>>
            /\ Signal(c.note)
         \/ /\ fifo' = Append(fifo, c) /\ reg' = reg /\ event' = event /\ dead' = dead
            /\ Len(fifo') = Len(fifo) + 1 /\ fifo'[Len(fifo) + 1] = c
            /\ \A i \in DOMAIN fifo : fifo'[i] = fifo[i]
            /\ \A i \in DOMAIN fifo' : i \in DOMAIN fifo \/ i = Len(fifo) + 1
<1>1. CASE WriteNow(c)
  BY <1>1 DEF WriteNow
<1>2. CASE WriteQueue(c)
  <2>1. fifo' = Append(fifo, c) /\ reg' = reg /\ event' = event /\ dead' = dead
    BY <1>2 DEF WriteQueue
  <2>2. fifo \in Seq(Orders)
    BY DEF TypeOK
  <2>3. /\ Len(fifo') = Len(fifo) + 1 /\ fifo'[Len(fifo) + 1] = c
        /\ \A i \in DOMAIN fifo : fifo'[i] = fifo[i]
        /\ \A i \in DOMAIN fifo' : i \in DOMAIN fifo \/ i = Len(fifo) + 1
    BY <2>1, <2>2
  <2>. QED
    BY <2>1, <2>3
<1>. QED
  BY <1>1, <1>2 DEF Accepts

(* While nobody waits, nothing is to signal anyone.                           *)
LEMMA IdleIsQuiet ==
  ASSUME TypeOK, InTime, ~waiting \/ event
  PROVE  Quiet(fifo) /\ ~Pending("read") /\ ~Pending("conf")
<1>1. \A i \in DOMAIN fifo : fifo[i].note \in Signals
  BY OrderTypes DEF TypeOK
<1>2. ~Waits
  BY DEF Waits
<1>. QED
  BY <1>1, <1>2 DEF InTime, Awaited, Quiet, Signals

(* Nor when a wait runs out after the ARM has done all it was given.          *)
LEMMA LateIsQuiet ==
  ASSUME TypeOK, GivesUp, ~cut'
  PROVE  Quiet(fifo) /\ ~Pending("read") /\ ~Pending("conf")
<1>1. ~UnderWay
  BY Zenon DEF GivesUp
<1>. QED
  BY <1>1 DEF TypeOK, UnderWay, Quiet, Pending

(* The wait is over: nobody is waited for any more.                           *)
LEMMA WakingKeepsTime ==
  ASSUME TypeOK, InTime, Quiet(fifo), ~Pending("read"), ~Pending("conf"),
         TypeOK', waiting' = FALSE, event' = FALSE,
         SameOrders(fifo, fifo'), \A i \in DOMAIN fifo : fifo[i].note = "none" => fifo'[i].note = "none",
         reg' = reg, resp' = resp, dead' = dead
  PROVE  InTime'
<1>1. DOMAIN fifo' = DOMAIN fifo
  BY DEF TypeOK, SameOrders
<1>2. \A i \in DOMAIN fifo' : fifo'[i].note = "none" /\ fifo'[i].op \notin {"read", "conf"}
  BY <1>1 DEF Quiet, SameOrders, Pending
<1>3. \A i \in DOMAIN reg' : reg'[i].op \notin {"read", "conf"}
  BY DEF Pending
<1>4. "read" \notin resp' /\ "conf" \notin resp'
  BY DEF Pending
<1>5. Awaited("read", onRead)' /\ Awaited("conf", onConf)'
  BY <1>2, <1>3, <1>4 DEF Awaited, Pending
<1>. QED
  BY <1>2, <1>5 DEF InTime

(* A command is written by a function that waits afterwards, or does not care.*)
LEMMA WritingKeepsTime ==
  ASSUME TypeOK, InTime, NEW c \in Orders, ChipALWrite(c), ~waiting, step' = step,
         c.note # "dead",
         c.note = "live" => waiting' = TRUE /\ step \in {"address", "word", "goto", "extend", "pins"},
         c.op \in {"read", "conf"} => c.note = "none" /\ waiting' = TRUE /\ step = c.op,
         step = "out" => ~waiting',
         c.op = "read" => onRead = "live", c.op = "conf" => onConf = "live",
         UNCHANGED <<onRead, onConf, resp>>, TypeOK'
  PROVE  InTime'
<1>1. Quiet(fifo) /\ ~Pending("read") /\ ~Pending("conf") /\ ~event /\ ~dead
  BY IdleIsQuiet DEF InTime
<1>2. \A i \in DOMAIN fifo : fifo[i].op \notin {"read", "conf"} /\ fifo[i].note = "none"
  BY <1>1 DEF Pending, Quiet
<1>3. /\ \A i \in DOMAIN reg : reg[i].op \notin {"read", "conf"}
      /\ "read" \notin resp /\ "conf" \notin resp
  BY <1>1 DEF Pending
<1>4. CASE WriteRefused
  <2>1. fifo' = fifo /\ reg' = reg /\ event' = event /\ dead' = dead
    BY <1>4 DEF WriteRefused
  <2>2. Awaited("read", onRead)' /\ Awaited("conf", onConf)'
    BY <1>2, <1>3, <2>1 DEF Awaited, Pending
  <2>. QED
    BY <1>1, <1>2, <2>1, <2>2 DEF InTime
<1>5. CASE Accepts(c) /\ fifo' = <<>> /\ reg' = <<c>> /\ Signal(c.note)
  <2>1. ~dead' /\ (c.note # "live" => ~event')
    BY <1>1, <1>5, OrderTypes, SignalIs DEF Signals
  <2>2. \A i \in DOMAIN reg' : reg'[i] = c
    BY <1>5
  <2>3. Awaited("read", onRead)'
    BY <1>3, <1>5, <2>1, <2>2 DEF Awaited, Pending, Waits
  <2>4. Awaited("conf", onConf)'
    BY <1>3, <1>5, <2>1, <2>2 DEF Awaited, Pending, Waits
  <2>5. ~waiting' => ~event'
    BY <2>1 DEF TypeOK
  <2>. QED
    BY <1>5, <2>1, <2>3, <2>4, <2>5 DEF InTime, TypeOK
<1>6. CASE /\ fifo' = Append(fifo, c) /\ reg' = reg /\ event' = event /\ dead' = dead
           /\ Len(fifo') = Len(fifo) + 1 /\ fifo'[Len(fifo) + 1] = c
           /\ \A i \in DOMAIN fifo : fifo'[i] = fifo[i]
           /\ \A i \in DOMAIN fifo' : i \in DOMAIN fifo \/ i = Len(fifo) + 1
  <2>1. \A i \in DOMAIN fifo' : fifo'[i].note # "none" \/ fifo'[i].op \in {"read", "conf"} =>
           i = Len(fifo') /\ fifo'[i] = c
    BY <1>2, <1>6
  <2>2. Awaited("read", onRead)'
    BY <1>1, <1>3, <1>6, <2>1 DEF Awaited, Pending, Waits
  <2>3. Awaited("conf", onConf)'
    BY <1>1, <1>3, <1>6, <2>1 DEF Awaited, Pending, Waits
  <2>4. \A i \in DOMAIN fifo' : fifo'[i].note # "dead"
    BY <2>1
  <2>5. \A i \in DOMAIN fifo' : fifo'[i].note = "live" =>
       i = Len(fifo') /\ Waits' /\ step' \in {"address", "word", "goto", "extend", "pins"}
    BY <1>1, <1>6, <2>1 DEF Waits
  <2>. QED
    BY <1>1, <1>6, <2>2, <2>3, <2>4, <2>5 DEF InTime, TypeOK
<1>. QED
  BY <1>4, <1>5, <1>6, WriteFacts DEF ChipALWrite

(* What is not with the ARM and not under way was not asked.                  *)
LEMMA NextCommandKeepsTime ==
  ASSUME TypeOK, InTime, WriteNextCommand, TypeOK'
  PROVE  InTime'
<1>1. /\ fifo # <<>> /\ reg = <<>> /\ reg' = <<Head(fifo)>> /\ fifo' = Tail(fifo)
      /\ Signal(Head(fifo).note) /\ UNCHANGED <<waiting, step, onRead, onConf, resp>>
  BY DEF WriteNextCommand, ToolVars, CallVars, Handlers
<1>2. /\ Len(fifo) \in Nat /\ Len(fifo) > 0 /\ Len(fifo') = Len(fifo) - 1 /\ DOMAIN fifo = 1 .. Len(fifo)
      /\ DOMAIN fifo' = 1 .. Len(fifo')
      /\ Head(fifo) = fifo[1] /\ 1 \in DOMAIN fifo /\ fifo[1] \in Orders
      /\ \A i \in DOMAIN fifo' : i + 1 \in DOMAIN fifo /\ fifo'[i] = fifo[i + 1]
  BY <1>1 DEF TypeOK
<1>3. fifo[1].note \in {"none", "live"}
  BY <1>2, OrderTypes DEF InTime, Signals
<1>4. /\ ~dead' /\ (fifo[1].note = "none" => (event' <=> event))
      /\ fifo[1].note = "live" => Len(fifo) = 1 /\ Waits
  BY <1>1, <1>2, <1>3, SignalIs DEF InTime, Signals
<1>5. DOMAIN reg' = {1} /\ reg'[1] = fifo[1]
  BY <1>1, <1>2
<1>6. ASSUME NEW op \in {"read", "conf"}, NEW h,
             step = op => step \notin {"address", "word", "goto", "extend", "pins"},
             Awaited(op, h)
      PROVE  /\ Pending(op)' => step = op /\ Waits' /\ h = "live"
             /\ \A i \in DOMAIN fifo' : fifo'[i].op = op =>
                  i = Len(fifo') /\ op \notin resp' /\ \A j \in DOMAIN reg' : reg'[j].op # op
             /\ \A j \in DOMAIN reg' : reg'[j].op = op => op \notin resp'
  <2>1. Pending(op)' => Pending(op)
    BY <1>1, <1>2, <1>5 DEF Pending
  <2>2. Pending(op) => step = op /\ Waits /\ h = "live"
    BY <1>6 DEF Awaited
  <2>3. step = op => fifo[1].note = "none"
    BY <1>2, <1>3, <1>6 DEF InTime
  <2>4. Pending(op)' => step = op /\ Waits' /\ h = "live"
    BY <1>1, <1>4, <2>1, <2>2, <2>3 DEF Waits
  <2>5. \A i \in DOMAIN fifo : fifo[i].op = op => i = Len(fifo) /\ op \notin resp
    BY <1>6 DEF Awaited
  <2>6. \A i \in DOMAIN fifo' : fifo'[i].op = op =>
                  i = Len(fifo') /\ op \notin resp' /\ \A j \in DOMAIN reg' : reg'[j].op # op
    BY <1>1, <1>2, <1>5, <2>5
  <2>7. \A j \in DOMAIN reg' : reg'[j].op = op => op \notin resp'
    BY <1>1, <1>2, <1>5, <2>5
  <2>. QED
    BY <2>4, <2>6, <2>7
<1>7. Awaited("read", onRead)'
  <2>1. step' = step /\ onRead' = onRead /\ Awaited("read", onRead)
    BY <1>1 DEF InTime
  <2>. QED
    BY <1>6, <2>1 DEF Awaited
<1>8. Awaited("conf", onConf)'
  <2>1. step' = step /\ onConf' = onConf /\ Awaited("conf", onConf)
    BY <1>1 DEF InTime
  <2>. QED
    BY <1>6, <2>1 DEF Awaited
<1>9. ASSUME NEW i \in DOMAIN fifo', fifo'[i].note = "live"
      PROVE  i = Len(fifo') /\ Waits' /\ step' \in {"address", "word", "goto", "extend", "pins"}
  <2>1. i + 1 = Len(fifo) /\ Waits /\ step \in {"address", "word", "goto", "extend", "pins"}
    BY <1>2, <1>9 DEF InTime
  <2>2. fifo[1].note = "none"
    BY <1>2, <1>3, <1>4, <2>1
  <2>. QED
    BY <1>1, <1>2, <1>4, <2>1, <2>2 DEF Waits
<1>10. \A i \in DOMAIN fifo' : fifo'[i].note # "dead"
  BY <1>2 DEF InTime
<1>11. ~waiting' => ~event'
  BY <1>1, <1>3, <1>4 DEF InTime, Waits
<1>12. step' = "out" => ~waiting'
  BY <1>1 DEF InTime
<1>. QED
  BY <1>4, <1>7, <1>8, <1>9, <1>10, <1>11, <1>12 DEF InTime

(* The response that is waited for has come.                                  *)
LEMMA ResponseKeepsTime ==
  ASSUME TypeOK, InTime, ARMSyncRoutine, TypeOK'
  PROVE  InTime'
<1>1. UNCHANGED <<waiting, step, fifo, reg, onRead, onConf>>
  BY DEF ARMSyncRoutine, CallVars, Handlers
<1>2. /\ "read" \in resp => Waits /\ step = "read" /\ onRead = "live"
      /\ "conf" \in resp => Waits /\ step = "conf" /\ onConf = "live"
  BY DEF InTime, Awaited, Pending
<1>3. Waits /\ step \in {"read", "conf"} /\ ~dead' /\ resp' = {}
  <2>1. CASE "read" \in resp /\ resp' = resp \ {"read"} /\ Signal(onRead)
    BY <1>2, <2>1, SignalIs DEF Signals, InTime, TypeOK
  <2>2. CASE "conf" \in resp /\ resp' = resp \ {"conf"} /\ Signal(onConf)
    BY <1>2, <2>2, SignalIs DEF Signals, InTime, TypeOK
  <2>. QED
    BY <2>1, <2>2 DEF ARMSyncRoutine
<1>4. ~Pending("read")' /\ ~Pending("conf")'
  <2>1. \A op \in {"read", "conf"} : op \in resp =>
          (\A i \in DOMAIN fifo : fifo[i].op # op) /\ \A i \in DOMAIN reg : reg[i].op # op
    BY DEF InTime, Awaited
  <2>2. \A op \in {"read", "conf"} : op \notin resp /\ step # op =>
          (\A i \in DOMAIN fifo : fifo[i].op # op) /\ \A i \in DOMAIN reg : reg[i].op # op
    BY DEF InTime, Awaited, Pending
  <2>3. \A op \in {"read", "conf"} : step = op => op \in resp
    BY <1>2 DEF ARMSyncRoutine
  <2>. QED
    BY <1>1, <1>3, <2>1, <2>2, <2>3 DEF Pending
<1>5. Awaited("read", onRead)' /\ Awaited("conf", onConf)'
  BY <1>4 DEF Awaited, Pending
<1>. QED
  BY <1>1, <1>3, <1>5 DEF InTime, Waits

(* The ARM executes a command and may answer.                                 *)
LEMMA ArmKeepsTime ==
  ASSUME TypeOK, InTime, Arm, TypeOK'
  PROVE  InTime'
<1>1. UNCHANGED <<waiting, step, fifo, event, onRead, onConf, dead>>
  BY DEF Arm, CallVars, Handlers
<1>2. /\ reg # <<>> /\ reg' = <<>>
      /\ resp' = IF Head(reg).op \in {"read", "conf"} THEN resp \cup {Head(reg).op} ELSE resp
  BY DEF Arm
<1>3. 1 \in DOMAIN reg /\ Head(reg) = reg[1] /\ DOMAIN reg' = {}
  BY <1>2 DEF TypeOK
<1>4. ASSUME NEW op \in {"read", "conf"}, NEW h, Awaited(op, h)
      PROVE  /\ Pending(op)' => step = op /\ Waits /\ h = "live"
             /\ \A i \in DOMAIN fifo : fifo[i].op = op => i = Len(fifo) /\ op \notin resp'
  <2>1. Pending(op)' => Pending(op)
    BY <1>1, <1>2, <1>3 DEF Pending
  <2>. QED
    BY <1>2, <1>3, <1>4, <2>1 DEF Awaited
<1>5. Awaited("read", onRead)'
  BY <1>1, <1>3, <1>4 DEF InTime, Awaited, Waits
<1>6. Awaited("conf", onConf)'
  BY <1>1, <1>3, <1>4 DEF InTime, Awaited, Waits
<1>. QED
  BY <1>1, <1>5, <1>6 DEF InTime, Waits

(* Whole words but one are whole words.                                       *)
LEMMA WholeWords ==
  ASSUME NEW n \in Nat, NEW w \in Nat, w > 0, n > 0, n % w = 0
  PROVE  n >= w /\ n - w \in Nat /\ (n - w) % w = 0
<1>1. n >= w
  BY SMT
<1>2. PICK q \in Int : n = w * q
  <2>1. n = w * (n \div w) + (n % w)
    BY SMT
  <2>. QED
    BY <2>1
<1>3. n - w = w * (q - 1)
  BY <1>2
<1>4. \A m \in Nat, p \in Int : m = w * p => m % w = 0
  <2>. SUFFICES ASSUME NEW m \in Nat, NEW p \in Int, m = w * p PROVE m % w = 0
    OBVIOUS
  <2>1. m = w * (m \div w) + (m % w) /\ m % w \in 0 .. w - 1 /\ m \div w \in Int
    BY SMT
  <2> DEFINE e == p - m \div w
  <2>2. e \in Int /\ w * e = m % w
    BY <2>1
  <2> HIDE DEF e
  <2>3. e > 0 => w * e >= w
    BY <2>2
  <2>4. e < 0 => w * e < 0
    BY <2>2
  <2>5. e = 0 => w * e = 0
    BY <2>2
  <2>. QED
    BY <2>1, <2>2, <2>3, <2>4, <2>5
<1>. QED
  BY <1>1, <1>3, <1>4

(* The first word of some digits, and the rest.                               *)
LEMMA FirstWord ==
  ASSUME NEW d \in Digits, d # <<>>
  PROVE  /\ Len(d) >= WordLen
         /\ SubSeq(d, 1, WordLen) \in Seq(Nat) /\ Len(SubSeq(d, 1, WordLen)) = WordLen
         /\ \A k \in 1 .. WordLen : SubSeq(d, 1, WordLen)[k] = d[k]
         /\ SubSeq(d, WordLen + 1, Len(d)) \in Digits
         /\ Len(SubSeq(d, WordLen + 1, Len(d))) = Len(d) - WordLen
         /\ \A k \in 1 .. Len(d) - WordLen : SubSeq(d, WordLen + 1, Len(d))[k] = d[WordLen + k]
<1>1. d \in Seq(Nat) /\ Len(d) \in Nat /\ Len(d) > 0 /\ Len(d) % WordLen = 0 /\ WordLen \in Nat /\ WordLen > 0
  BY Constants DEF Digits
<1>2. Len(d) >= WordLen /\ (Len(d) - WordLen) % WordLen = 0 /\ Len(d) - WordLen \in Nat
  BY <1>1, WholeWords
<1>3. /\ SubSeq(d, 1, WordLen) \in Seq(Nat) /\ Len(SubSeq(d, 1, WordLen)) = WordLen
      /\ \A k \in 1 .. WordLen : SubSeq(d, 1, WordLen)[k] = d[k]
  BY <1>1, <1>2
<1>4. /\ SubSeq(d, WordLen + 1, Len(d)) \in Seq(Nat)
      /\ Len(SubSeq(d, WordLen + 1, Len(d))) = Len(d) - WordLen
      /\ \A k \in 1 .. Len(d) - WordLen : SubSeq(d, WordLen + 1, Len(d))[k] = d[WordLen + k]
  BY <1>1, <1>2
<1>. QED
  BY <1>2, <1>3, <1>4 DEF Digits

(* What an ioctl leaves when it returns.                                      *)
LEMMA ReturnTypes ==
  ASSUME TypeOK, NEW s \in BOOLEAN, Return(s)
  PROVE  /\ step' = "out" /\ waiting' = FALSE /\ left' = <<>> /\ ret' = s /\ event' = FALSE /\ reg' = reg
         /\ fifo' \in Seq(Orders) /\ onConf' \in Signals
BY OrphanTypes DEF TypeOK, Return, Gone, Signals

(* The steps of cnxadslload keep types.                                       *)
LEMMA ToolTypes ==
  ASSUME TypeOK, CallOK, Tool
  PROVE  TypeOK' /\ CallOK'
<1> USE DEF ToolVars, CallVars, CmdVars, Handlers, ArmVars, fixed, Refusals
<1>0. file \in Seq(Records) /\ DOMAIN file = 1 .. Len(file) /\ Len(file) \in Nat
  BY RecordTypes
<1>1. CASE LoadStart
  <2>1. TypeOK'
    BY <1>1 DEF LoadStart, TypeOK
  <2>2. step = "out"
    BY <1>1 DEF LoadStart, CallOK, TypeOK, Steps
  <2>. QED
    BY <1>1, <2>1, <2>2 DEF LoadStart, CallOK
<1>2. CASE ReadAddress
  <2>1. step = "out" /\ step' = "out" /\ left' = left /\ tool' = "read"
    BY <1>2 DEF ReadAddress, Reads, CallOK, TypeOK, Steps
  <2>2. pos \in DOMAIN file
    BY <1>0, <1>2 DEF ReadAddress, Reads, TypeOK
  <2>3. seg' \in Nat /\ lin' \in Nat
    <3>1. /\ file[pos].type \in {"segment", "linear"} => file[pos].value \in Nat
          /\ seg \in Nat /\ lin \in Nat
      BY <2>2, RecordTypes DEF TypeOK
    <3>. QED
      BY <1>2, <3>1 DEF ReadAddress, Reads, Record
  <2>4. TypeOK'
    BY <1>2, <2>1, <2>3 DEF ReadAddress, TypeOK
  <2>. QED
    BY <2>1, <2>4 DEF CallOK
<1>3. CASE ReadData
  <2>1. pos \in DOMAIN file
    BY <1>0, <1>3 DEF ReadData, Reads, TypeOK
  <2>2. file[pos].type = "data" /\ file[pos].digits \in Digits
    BY <1>3, <2>1, RecordTypes DEF ReadData, Reads, Record
  <2>3. TypeOK'
    BY <1>3 DEF ReadData, TypeOK, Steps
  <2>4. /\ Len(file[pos].digits) \in Nat
        /\ \A k \in 1 .. Len(file[pos].digits) : Len(file[pos].digits) - Len(file[pos].digits) + k = k
    BY <2>2 DEF Digits
  <2>5. /\ tool' = "sent" /\ step' = "address" /\ left' = file[pos].digits /\ pos' = pos /\ file' = file
    BY <1>3 DEF ReadData, Record
  <2>. QED
    BY <2>1, <2>2, <2>3, <2>4, <2>5 DEF CallOK
<1>4. CASE ReadGoto
  <2>1. pos \in DOMAIN file
    BY <1>0, <1>4 DEF ReadGoto, Reads, TypeOK
  <2>2. file[pos].type = "goto" /\ file[pos].value \in Nat
    BY <1>4, <2>1, RecordTypes DEF ReadGoto, Reads, Record
  <2>3. Cmd("goto", file[pos].value, "none") \in Orders
    BY <2>2, OrderTypes DEF Signals
  <2>4. ChipALWrite(Cmd("goto", file[pos].value, "none")) /\ ret' \in BOOLEAN
    BY <1>4 DEF ReadGoto, Record, ChipALWrite
  <2>5. /\ fifo' \in Seq(Orders) /\ reg' \in Seq(Orders) /\ Len(reg') <= 1
        /\ event' \in BOOLEAN /\ dead' \in BOOLEAN
    BY <2>3, <2>4, WriteTypes
  <2>6. /\ tool' = "sent"
        /\ UNCHANGED <<fixed, pos, seg, lin, tries, CallVars, Handlers, resp, ArmVars, go>>
    BY <1>4 DEF ReadGoto
  <2>7. TypeOK'
    BY <2>4, <2>5, <2>6 DEF TypeOK
  <2>8. step = "out"
    BY <1>4 DEF ReadGoto, Reads, CallOK, TypeOK, Steps
  <2>. QED
    BY <2>1, <2>2, <2>6, <2>7, <2>8 DEF CallOK
<1>5. CASE ReadEnd
  <2>1. pos \in DOMAIN file /\ file[pos].type = "end" /\ step = "out"
    BY <1>0, <1>5 DEF ReadEnd, Reads, Record, CallOK, TypeOK, Steps
  <2>2. TypeOK'
    BY <1>5 DEF ReadEnd, TypeOK, Steps
  <2>3. tool' = "starting" /\ step' = "goto" /\ left' = left /\ pos' = pos /\ file' = file
    BY <1>5 DEF ReadEnd
  <2>. QED
    BY <2>1, <2>2, <2>3 DEF CallOK
<1>6. CASE ReadFails
  <2>1. step = "out"
    BY <1>6 DEF ReadFails, CallOK, TypeOK, Steps
  <2>2. TypeOK'
    BY <1>6 DEF ReadFails, TypeOK
  <2>. QED
    BY <1>6, <2>1, <2>2 DEF ReadFails, CallOK
<1>7. CASE RecordDone
  <2>1. TypeOK'
    BY <1>7 DEF RecordDone, TypeOK
  <2>. QED
    BY <1>7, <2>1 DEF RecordDone, CallOK
<1>8. CASE LoadDone
  <2>1. TypeOK'
    BY <1>8 DEF LoadDone, TypeOK
  <2>. QED
    BY <1>8, <2>1 DEF LoadDone, CallOK
<1>9. CASE Killed
  <2>1. TypeOK'
    BY <1>9 DEF Killed, TypeOK
  <2>. QED
    BY <1>9, <2>1 DEF Killed, CallOK
<1>. QED
  BY <1>1, <1>2, <1>3, <1>4, <1>5, <1>6, <1>7, <1>8, <1>9 DEF Tool

(* Those of processDataRec do.                                                *)
LEMMA DataTypes ==
  ASSUME TypeOK, CallOK, SendAddress \/ NextWord \/ SendWord \/ DataSent
  PROVE  TypeOK' /\ CallOK'
<1> USE DEF ToolVars, CallVars, CmdVars, Handlers, ArmVars, fixed, Refusals
<1>1. CASE SendAddress
  <2>1. pos \in DOMAIN file /\ file[pos].type = "data"
    BY <1>1 DEF SendAddress, WriteRecord, ChipALWrite, CallOK
  <2>2. lin + seg + file[pos].offset \in Nat
    BY <2>1, RecordTypes DEF TypeOK
  <2>3. Cmd("address", lin + seg + file[pos].offset, "live") \in Orders
    BY <2>2, OrderTypes DEF Signals
  <2>4. /\ fifo' \in Seq(Orders) /\ reg' \in Seq(Orders) /\ Len(reg') <= 1
        /\ event' \in BOOLEAN /\ dead' \in BOOLEAN
    BY <1>1, <2>3, WriteTypes DEF SendAddress, WriteRecord, ChipALWrite, Record
  <2>5. /\ waiting' = TRUE /\ step = "address"
        /\ UNCHANGED <<fixed, ToolVars, step, left, Handlers, resp, ArmVars, go>>
    BY <1>1 DEF SendAddress, WriteRecord, ChipALWrite
  <2>6. TypeOK'
    BY <2>4, <2>5 DEF TypeOK
  <2>. QED
    BY <2>5, <2>6 DEF CallOK
<1>2. CASE NextWord
  <2>1. /\ step' = "word" /\ waiting' = FALSE /\ event' = FALSE /\ step \in {"address", "word"} /\ left # <<>>
        /\ UNCHANGED <<fixed, ToolVars, left, fifo, reg, refused, Handlers, resp, ArmVars, go, dead>>
    BY <1>2 DEF NextWord
  <2>2. TypeOK'
    BY <2>1 DEF TypeOK, Steps
  <2>. QED
    BY <2>1, <2>2 DEF CallOK
<1>3. CASE SendWord
  <2>1. /\ waiting' = TRUE /\ step = "word" /\ left' = SubSeq(left, WordLen + 1, Len(left))
        /\ UNCHANGED <<fixed, ToolVars, step, Handlers, resp, ArmVars, go>>
    BY <1>3 DEF SendWord, WriteRecord, ChipALWrite
  <2>2. left \in Digits /\ left # <<>>
    BY <1>3 DEF SendWord, WriteRecord, ChipALWrite, CallOK
  <2>3. Cmd("word", parseData(SubSeq(left, 1, WordLen)), "live") \in Orders
    <3>1. parseData(SubSeq(left, 1, WordLen)) \in Words
      BY <2>2, FirstWord, ParsedDigits
    <3>. QED
      BY <3>1, OrderTypes DEF Signals
  <2>4. /\ fifo' \in Seq(Orders) /\ reg' \in Seq(Orders) /\ Len(reg') <= 1
        /\ event' \in BOOLEAN /\ dead' \in BOOLEAN
    BY <1>3, <2>3, WriteTypes DEF SendWord, WriteRecord, ChipALWrite
  <2>5. TypeOK'
    BY <2>1, <2>4 DEF TypeOK
  <2>6. /\ left' \in Digits /\ Len(left') = Len(left) - WordLen /\ Len(left) \in Nat
        /\ WordLen \in Nat /\ Len(left) >= WordLen
        /\ \A k \in 1 .. Len(left') : left'[k] = left[WordLen + k]
    <3>1. /\ left' \in Digits /\ Len(left') = Len(left) - WordLen /\ Len(left) >= WordLen
          /\ \A k \in 1 .. Len(left) - WordLen : left'[k] = left[WordLen + k]
      BY <2>1, <2>2, FirstWord
    <3>2. Len(left) \in Nat /\ WordLen \in Nat
      BY <2>2, Constants DEF Digits
    <3>. QED
      BY <3>1, <3>2
  <2> DEFINE d == file[pos].digits
  <2>7. /\ pos \in DOMAIN file /\ file[pos].type = "data" /\ d \in Digits /\ Len(d) \in Nat /\ Len(left) <= Len(d)
        /\ \A k \in 1 .. Len(left) : left[k] = d[Len(d) - Len(left) + k]
    <3>1. pos \in DOMAIN file /\ file[pos].type = "data" /\ Len(left) <= Len(d)
          /\ \A k \in 1 .. Len(left) : left[k] = d[Len(d) - Len(left) + k]
      BY <2>1 DEF CallOK
    <3>2. d \in Digits /\ Len(d) \in Nat
      BY <3>1, RecordTypes DEF Digits
    <3>. QED
      BY <3>1, <3>2
  <2> HIDE DEF d
  <2>8. Len(left') <= Len(d) /\ \A k \in 1 .. Len(left') : left'[k] = d[Len(d) - Len(left') + k]
    <3>1. Len(left') <= Len(d)
      BY <2>6, <2>7
    <3>2. ASSUME NEW k \in 1 .. Len(left')
          PROVE  left'[k] = d[Len(d) - Len(left') + k]
      <4>1. WordLen + k \in 1 .. Len(left) /\ Len(d) - Len(left) + (WordLen + k) = Len(d) - Len(left') + k
        BY <2>6, <2>7
      <4>. QED
        BY <2>6, <2>7, <4>1
    <3>. QED
      BY <3>1, <3>2
  <2>9. d' = d /\ step' = "word" /\ tool' = tool /\ pos' = pos /\ file' = file
    BY <2>1 DEF d
  <2>10. CallOK'
    BY <2>1, <2>6, <2>8, <2>9 DEF CallOK, d
  <2>. QED
    BY <2>5, <2>10
<1>4. CASE DataSent
  <2>1. Return(TRUE) /\ UNCHANGED <<fixed, tool, pos, seg, lin, tries, onRead, resp, ArmVars, go, dead>>
    BY <1>4 DEF DataSent
  <2>2. /\ step' = "out" /\ waiting' = FALSE /\ left' = <<>> /\ ret' = TRUE /\ event' = FALSE /\ reg' = reg
        /\ fifo' \in Seq(Orders) /\ onConf' \in Signals
    BY <2>1, ReturnTypes
  <2>3. TypeOK'
    BY <2>1, <2>2 DEF TypeOK, Steps
  <2>. QED
    BY <2>1, <2>2, <2>3 DEF CallOK
<1>. QED
  BY <1>1, <1>2, <1>3, <1>4

(* Those of the start of the firmware do.                                     *)
LEMMA StartTypes ==
  ASSUME TypeOK, CallOK,
         \/ SendGoto \/ AskForRoutine \/ SendRead \/ GotRoutine \/ SendExtend \/ Started
         \/ SendPin \/ SendLastPin \/ NotifyArmReady \/ SendConf \/ Ready \/ Timeout
  PROVE  TypeOK' /\ CallOK'
<1> USE DEF ToolVars, CallVars, CmdVars, Handlers, ArmVars, fixed, Refusals
<1>1. ASSUME NEW op \in {"goto", "read", "extend", "pin", "conf"}, NEW n \in {"none", "live"},
             ChipALWrite(Cmd(op, 0, n)),
             UNCHANGED <<fixed, ToolVars, step, left, Handlers, resp, ArmVars, go>>, waiting' = TRUE,
             step \notin {"address", "word"}
      PROVE  TypeOK' /\ CallOK'
  <2>1. Cmd(op, 0, n) \in Orders
    BY OrderTypes DEF Signals
  <2>2. /\ fifo' \in Seq(Orders) /\ reg' \in Seq(Orders) /\ Len(reg') <= 1
        /\ event' \in BOOLEAN /\ dead' \in BOOLEAN
    BY <1>1, <2>1, WriteTypes
  <2>3. TypeOK'
    BY <1>1, <2>2 DEF TypeOK
  <2>. QED
    BY <1>1, <2>3 DEF CallOK
<1>2. CASE SendGoto
  BY <1>1, <1>2 DEF SendGoto
<1>3. CASE SendRead
  BY <1>1, <1>3 DEF SendRead
<1>4. CASE SendExtend
  BY <1>1, <1>4 DEF SendExtend
<1>5. CASE SendLastPin
  BY <1>1, <1>5 DEF SendLastPin
<1>6. CASE SendConf
  BY <1>1, <1>6 DEF SendConf
<1>7. CASE AskForRoutine
  <2>1. /\ UNCHANGED <<fixed, ToolVars, fifo, reg, onConf, resp, ArmVars, go, dead>>
        /\ step' = "read" /\ waiting' = FALSE /\ event' = FALSE /\ onRead' = "live"
    BY <1>7 DEF AskForRoutine
  <2>2. TypeOK'
    <3>1. step' \in Steps /\ waiting' \in BOOLEAN /\ event' \in BOOLEAN /\ onRead' \in Signals
      BY <2>1 DEF Steps, Signals
    <3>2. /\ UNCHANGED <<faults, file, tool, pos, seg, lin, ret, fifo, reg, onConf>>
          /\ UNCHANGED <<resp, wr, ran, conf, go, dead>>
      BY <2>1
    <3>. QED
      BY <3>1, <3>2 DEF TypeOK
  <2>. QED
    BY <1>7, <2>2 DEF AskForRoutine, CallOK
<1>8. ASSUME NEW s \in BOOLEAN, Return(s), onRead' \in Signals, go' \in BOOLEAN,
             UNCHANGED <<fixed, tool, pos, seg, lin, tries, resp, ArmVars, dead>>
      PROVE  TypeOK' /\ CallOK'
  <2>1. /\ step' = "out" /\ waiting' = FALSE /\ left' = <<>> /\ ret' = s /\ event' = FALSE /\ reg' = reg
        /\ fifo' \in Seq(Orders) /\ onConf' \in Signals
    BY <1>8, ReturnTypes
  <2>2. TypeOK'
    BY <1>8, <2>1 DEF TypeOK, Steps
  <2>. QED
    BY <1>8, <2>1, <2>2 DEF CallOK
<1>9. CASE GotRoutine
  <2>1. CASE ~routine /\ Return(FALSE)
    BY <1>8, <1>9, <2>1 DEF GotRoutine, Signals, TypeOK
  <2>2. CASE /\ routine /\ step' = "extend" /\ waiting' = FALSE /\ event' = FALSE
             /\ UNCHANGED <<left, fifo, reg, refused, ret, onConf>>
    <3>1. TypeOK'
      <4>1. onRead' = "none" /\ UNCHANGED <<fixed, tool, pos, seg, lin, tries, resp, ArmVars, go, dead>>
        BY <1>9 DEF GotRoutine
      <4>. QED
        <5>1. step' \in Steps /\ waiting' \in BOOLEAN /\ event' \in BOOLEAN /\ onRead' \in Signals
          BY <2>2, <4>1 DEF Steps, Signals
        <5>2. /\ UNCHANGED <<faults, file, tool, pos, seg, lin, ret, fifo, reg, onConf>>
              /\ UNCHANGED <<resp, wr, ran, conf, go, dead>>
          BY <2>2, <4>1
        <5>. QED
          BY <5>1, <5>2 DEF TypeOK
    <3>. QED
      BY <1>9, <2>2, <3>1 DEF GotRoutine, CallOK
  <2>. QED
    BY <1>9, <2>1, <2>2 DEF GotRoutine
<1>10. CASE Started
  <2>1. fifo' \in Seq(Orders)
    BY <1>10, OrphanTypes DEF Started, TypeOK
  <2>2. TypeOK'
    BY <1>10, <2>1 DEF Started, TypeOK, Steps
  <2>3. left' \in Seq({"pin"})
    BY <1>10, Constants DEF Started
  <2>. QED
    BY <1>10, <2>2, <2>3 DEF Started, CallOK
<1>11. CASE SendPin
  <2>1. left \in Seq({"pin"}) /\ left # <<>> /\ step = "pins" /\ step' = step
    BY <1>11 DEF SendPin, CallOK
  <2>2. left' \in Seq({"pin"}) /\ waiting' \in BOOLEAN
    <3>1. Tail(left) \in Seq({"pin"}) /\ <<>> \in Seq({"pin"})
      BY <2>1
    <3>. QED
      BY <1>11, <3>1 DEF SendPin, TypeOK
  <2>3. Cmd("pin", 0, "none") \in Orders
    BY OrderTypes DEF Signals
  <2>4. ChipALWrite(Cmd("pin", 0, "none"))
    BY <1>11 DEF SendPin, ChipALWrite
  <2>5. /\ fifo' \in Seq(Orders) /\ reg' \in Seq(Orders) /\ Len(reg') <= 1
        /\ event' \in BOOLEAN /\ dead' \in BOOLEAN
    BY <2>3, <2>4, WriteTypes
  <2>6. UNCHANGED <<fixed, ToolVars, step, Handlers, resp, ArmVars, go>>
    BY <1>11 DEF SendPin
  <2>7. TypeOK'
    BY <2>2, <2>5, <2>6 DEF TypeOK
  <2>. QED
    BY <2>1, <2>2, <2>6, <2>7 DEF CallOK
<1>12. CASE NotifyArmReady
  <2>1. fifo' = Struck(fifo)
    BY <1>12 DEF NotifyArmReady, Struck
  <2>2. fifo' \in Seq(Orders)
    BY <2>1, StruckTypes DEF TypeOK
  <2>3. /\ UNCHANGED <<fixed, ToolVars, reg, onRead, resp, ArmVars, go, dead>>
        /\ step' = "conf" /\ waiting' = FALSE /\ event' = FALSE /\ onConf' = "live"
    BY <1>12 DEF NotifyArmReady
  <2>4. TypeOK'
    <3>1. step' \in Steps /\ waiting' \in BOOLEAN /\ event' \in BOOLEAN /\ onConf' \in Signals
      BY <2>3 DEF Steps, Signals
    <3>2. /\ UNCHANGED <<faults, file, tool, pos, seg, lin, ret, reg, onRead>>
          /\ UNCHANGED <<resp, wr, ran, conf, go, dead>>
      BY <2>3
    <3>. QED
      BY <2>2, <3>1, <3>2 DEF TypeOK
  <2>. QED
    BY <1>12, <2>4 DEF NotifyArmReady, CallOK
<1>13. CASE Ready
  <2>1. go' \in BOOLEAN /\ onRead' \in Signals
    BY <1>13 DEF Ready, TypeOK
  <2>. QED
    BY <1>8, <1>13, <2>1 DEF Ready
<1>14. CASE Timeout
  <2>1. go' \in BOOLEAN /\ onRead' \in Signals
    BY <1>14 DEF Timeout, TypeOK, Signals
  <2>. QED
    BY <1>8, <1>14, <2>1 DEF Timeout
<1>. QED
  BY <1>2, <1>3, <1>4, <1>5, <1>6, <1>7, <1>9, <1>10, <1>11, <1>12, <1>13, <1>14

(* Those of interrupts and of the ARM do.                                     *)
LEMMA ServedTypes ==
  ASSUME TypeOK, CallOK, Interrupt \/ Arm
  PROVE  TypeOK' /\ CallOK'
<1> USE DEF ToolVars, CallVars, CmdVars, Handlers, ArmVars, fixed, Refusals
<1>1. CASE WriteNextCommand
  <2>1. Head(fifo) \in Orders /\ Tail(fifo) \in Seq(Orders) /\ <<Head(fifo)>> \in Seq(Orders)
        /\ Len(<<Head(fifo)>>) <= 1
    BY <1>1 DEF WriteNextCommand, TypeOK
  <2>2. event' \in BOOLEAN /\ dead' \in BOOLEAN
    <3>1. Signal(Head(fifo).note) /\ Head(fifo).note \in Signals
      BY <1>1, <2>1, OrderTypes DEF WriteNextCommand
    <3>. QED
      BY <3>1, SignalTypes
  <2>3. TypeOK'
    BY <1>1, <2>1, <2>2 DEF WriteNextCommand, TypeOK
  <2>. QED
    BY <1>1, <2>3 DEF WriteNextCommand, CallOK
<1>2. CASE ARMSyncRoutine
  <2>1. event' \in BOOLEAN /\ dead' \in BOOLEAN
    BY <1>2, SignalTypes DEF ARMSyncRoutine, TypeOK
  <2>2. TypeOK'
    <3>1. /\ UNCHANGED <<faults, file, tool, pos, seg, lin, ret, step, waiting, fifo, reg, onRead, onConf>>
          /\ UNCHANGED <<wr, ran, conf, go>>
      BY <1>2 DEF ARMSyncRoutine
    <3>2. resp' \subseteq {"read", "conf"}
      BY <1>2 DEF ARMSyncRoutine, TypeOK
    <3>. QED
      BY <2>1, <3>1, <3>2 DEF TypeOK
  <2>. QED
    BY <1>2, <2>2 DEF ARMSyncRoutine, CallOK
<1>3. CASE Arm
  <2>1. Head(reg) \in Orders
    BY <1>3 DEF Arm, TypeOK
  <2>2. Head(reg).op = "address" => Head(reg).arg \in Nat
    BY <2>1 DEF Orders
  <2>3. wr' \in Nat
    <3>1. wr + WordLen \div 2 \in Nat
      BY Constants DEF TypeOK, WordBytes
    <3>. QED
      BY <1>3, <2>2, <3>1 DEF Arm, TypeOK
  <2>4. ran' \in Nat /\ conf' \in BOOLEAN /\ resp' \subseteq {"read", "conf"}
    BY <1>3 DEF Arm, TypeOK
  <2>5. reg' \in Seq(Orders) /\ Len(reg') <= 1
    BY <1>3 DEF Arm
  <2>6. TypeOK'
    BY <1>3, <2>3, <2>4, <2>5 DEF Arm, TypeOK
  <2>. QED
    BY <1>3, <2>6 DEF Arm, CallOK
<1>. QED
  BY <1>1, <1>2, <1>3 DEF Interrupt

(* Every step does.                                                           *)
LEMMA TypesKept ==
  ASSUME TypeOK, CallOK, [Next]_vars
  PROVE  TypeOK' /\ CallOK'
<1>1. CASE UNCHANGED vars
  BY <1>1 DEF vars, fixed, ToolVars, CallVars, CmdVars, Handlers, ArmVars, TypeOK, CallOK
<1>. QED
  BY <1>1, ToolTypes, DataTypes, StartTypes, ServedTypes DEF Next, Driver
--------------------------------------------------------------------------------
(* A late signal is never forgotten.                                          *)
LEMMA DeadStays ==
  ASSUME TypeOK, NEW c \in Orders, ChipALWrite(c), dead
  PROVE  dead'
<1>1. CASE WriteNow(c)
  BY <1>1 DEF WriteNow, Signal
<1>. QED
  BY <1>1 DEF ChipALWrite, Accepts, WriteQueue, WriteRefused

(* The firmware's go comes after its configuration.                           *)
LEMMA GoKept ==
  ASSUME TypeOK, CallOK, GoesLast, TypeOK', [Next]_vars
  PROVE  GoesLast'
<1> USE DEF ToolVars, CallVars, CmdVars, Handlers, ArmVars, fixed, Refusals
<1>1. ASSUME step' # "conf", onRead' = "live" <=> step' = "read", resp' = resp, conf' = conf, go' = go,
             dead => dead'
      PROVE  GoesLast'
  BY <1>1 DEF GoesLast
<1>2. \A s \in {"read", "conf"} : step = s => ~Reads("data") /\ ~Reads("end") /\ ~Reads("goto")
  BY DEF Reads, CallOK
<1>3. CASE UNCHANGED vars
  BY <1>3 DEF vars, GoesLast
<1>4. CASE Tool /\ ~ReadGoto
  <2>1. /\ UNCHANGED <<resp, conf, go, dead, onRead, onConf, event, fifo>>
        /\ step' = step \/ (step' \in {"address", "goto"} /\ step \notin {"read", "conf"})
    BY <1>2, <1>4 DEF Tool, LoadStart, ReadAddress, ReadData, ReadEnd, ReadFails, RecordDone, LoadDone, Killed
  <2>. QED
    BY <2>1 DEF GoesLast
<1>5. CASE ReadGoto
  <2>1. dead => dead'
    BY <1>5 DEF ReadGoto, Accepts, WriteNow, WriteQueue, WriteRefused, Signal
  <2>2. step \notin {"read", "conf"} /\ UNCHANGED <<resp, conf, go, onRead, step>>
    BY <1>2, <1>5 DEF ReadGoto
  <2>. QED
    BY <1>1, <2>1, <2>2 DEF GoesLast
<1>6. ASSUME NEW c, ChipALWrite(c), step # "conf", UNCHANGED <<step, Handlers, resp, ArmVars, go>>
      PROVE  GoesLast'
  <2>1. dead => dead'
    BY <1>6 DEF ChipALWrite, Accepts, WriteNow, WriteQueue, WriteRefused, Signal
  <2>. QED
    BY <1>1, <1>6, <2>1 DEF GoesLast
<1>7. CASE SendAddress \/ SendWord \/ SendGoto \/ SendRead \/ SendExtend \/ SendPin \/ SendLastPin
  BY <1>6, <1>7 DEF SendAddress, WriteRecord, ChipALWrite, SendWord, SendGoto, SendRead, SendExtend, SendPin, SendLastPin, ChipALWrite
<1>8. CASE NextWord \/ AskForRoutine \/ Started
  BY <1>1, <1>8 DEF NextWord, AskForRoutine, Started, GoesLast
<1>9. CASE DataSent \/ GotRoutine \/ Timeout
  BY <1>1, <1>9 DEF DataSent, GotRoutine, Timeout, Return, GoesLast
<1>10. CASE NotifyArmReady
  <2>1. fifo' = Struck(fifo)
    BY <1>10 DEF NotifyArmReady, Struck
  <2>2. \A i \in DOMAIN fifo' : fifo'[i].note # "live"
    BY <2>1, NotesOnly DEF TypeOK, Struck
  <2>. QED
    BY <1>10, <2>2 DEF NotifyArmReady, GoesLast
<1>11. CASE SendConf
  <2> DEFINE c == Cmd("conf", 0, "none")
  <2>1. c \in Orders /\ c.note = "none"
    BY OrderTypes DEF Signals, Cmd
  <2>2. ChipALWrite(c) /\ step = "conf" /\ UNCHANGED <<step, Handlers, resp, ArmVars, go>>
    BY <1>11 DEF SendConf
  <2> HIDE DEF c
  <2>3. (dead => dead') /\ (event' <=> event)
    BY <2>1, <2>2, SignalIs DEF ChipALWrite, Accepts, WriteNow, WriteQueue, WriteRefused, Signals
  <2>4. \A i \in DOMAIN fifo' : fifo'[i].note # "live"
    <3>1. \A i \in DOMAIN fifo : fifo[i].note # "live"
      BY <2>2 DEF GoesLast
    <3>. QED
      BY <2>1, <2>2, <3>1, WriteFacts DEF ChipALWrite, WriteRefused
  <2>. QED
    BY <2>2, <2>3, <2>4 DEF GoesLast
<1>12. CASE Ready
  BY <1>12 DEF Ready, Return, GoesLast
<1>13. CASE WriteNextCommand
  <2>1. /\ fifo # <<>> /\ fifo' = Tail(fifo) /\ Signal(Head(fifo).note)
        /\ UNCHANGED <<step, onRead, onConf, resp, conf, go>>
    BY <1>13 DEF WriteNextCommand
  <2>2. Head(fifo) = fifo[1] /\ 1 \in DOMAIN fifo /\ fifo[1] \in Orders
        /\ \A i \in DOMAIN fifo' : i + 1 \in DOMAIN fifo /\ fifo'[i] = fifo[i + 1]
    BY <2>1 DEF TypeOK
  <2>3. /\ dead => dead'
        /\ fifo[1].note = "none" => (event' <=> event)
        /\ fifo[1].note = "dead" => dead'
    BY <2>1, <2>2, OrderTypes, SignalIs DEF Signal
  <2>4. step = "conf" => fifo[1].note \in {"none", "dead"}
    BY <2>2, OrderTypes DEF GoesLast, Signals
  <2>. QED
    BY <2>1, <2>2, <2>3, <2>4 DEF GoesLast
<1>14. CASE ARMSyncRoutine
  <2>1. UNCHANGED <<step, fifo, onRead, onConf, conf, go>> /\ resp' \subseteq resp
    BY <1>14 DEF ARMSyncRoutine
  <2>2. CASE "read" \in resp /\ Signal(onRead)
    <3>1. (dead => dead') /\ (onRead = "none" => (event' <=> event)) /\ (onRead = "dead" => dead')
      BY <2>2, SignalIs DEF Signal, TypeOK
    <3>2. onRead \in {"none", "dead"} \/ step = "read"
      BY DEF GoesLast, TypeOK, Signals
    <3>. QED
      BY <2>1, <3>1, <3>2 DEF GoesLast
  <2>3. CASE "conf" \in resp /\ Signal(onConf)
    <3>1. dead => dead'
      BY <2>3 DEF Signal
    <3>. QED
      BY <2>1, <2>3, <3>1 DEF GoesLast
  <2>. QED
    BY <1>14, <2>2, <2>3 DEF ARMSyncRoutine
<1>15. CASE Arm
  BY <1>15 DEF Arm, GoesLast
<1>. QED
  BY <1>3, <1>4, <1>5, <1>7, <1>8, <1>9, <1>10, <1>11, <1>12, <1>13, <1>14, <1>15
     DEF Next, Tool, Driver, Interrupt

(* What may go wrong, and the file, are chosen once; a wait that was cut short*)
(* and a stale completion that was taken for another one are not forgotten.   *)
LEMMA FaultStays ==
  ASSUME [Next]_vars
  PROVE  faults' = faults /\ file' = file /\ (cut => cut') /\ (misled => misled')
<1>1. CASE UNCHANGED vars
  BY <1>1 DEF vars, Refusals, fixed
<1>2. CASE Tool
  BY <1>2 DEF Tool, Refusals, fixed, LoadStart, ReadAddress, ReadData, ReadGoto, ReadEnd, ReadFails, RecordDone, LoadDone, Killed
<1>3. CASE SendAddress \/ SendWord
  <2>1. faults' = faults /\ file' = file /\ cut' = cut /\ misled' = misled
    BY <1>3 DEF fixed, SendAddress, SendWord
  <2>. QED
    BY <2>1
<1>4. CASE NextWord \/ DataSent
  <2>1. faults' = faults /\ file' = file /\ cut' = cut /\ misled' = (misled \/ vain)
    BY <1>4 DEF fixed, NextWord, DataSent
  <2>. QED
    BY <2>1, Zenon
<1>5. CASE SendGoto \/ AskForRoutine \/ SendRead \/ GotRoutine \/ SendExtend \/ Started
  <2>1. faults' = faults /\ file' = file /\ cut' = cut /\ misled' = misled
    BY <1>5 DEF Refusals, fixed, SendGoto, AskForRoutine, SendRead, GotRoutine, SendExtend, Started
  <2>. QED
    BY <2>1
<1>6. CASE SendPin \/ SendLastPin \/ NotifyArmReady \/ SendConf
  <2>1. faults' = faults /\ file' = file /\ cut' = cut /\ misled' = misled
    BY <1>6 DEF Refusals, fixed, SendPin, SendLastPin, NotifyArmReady, SendConf
  <2>. QED
    BY <2>1
<1>7. CASE Ready \/ Timeout
  <2>1. faults' = faults /\ file' = file /\ cut' \in {cut, cut \/ UnderWay} /\ misled' = misled
    BY <1>7 DEF Refusals, fixed, Ready, Timeout, GivesUp
  <2>. QED
    BY <2>1, Zenon
<1>8. CASE Interrupt \/ Arm
  <2>1. faults' = faults /\ file' = file /\ cut' = cut /\ misled' = misled
    BY <1>8 DEF Refusals, fixed, Interrupt, WriteNextCommand, ARMSyncRoutine, Arm
  <2>. QED
    BY <2>1
<1>. QED
  BY <1>1, <1>2, <1>3, <1>4, <1>5, <1>6, <1>7, <1>8 DEF Next, Driver

(* Nobody is signalled late if no wait is cut short.                          *)
LEMMA TimeKept ==
  ASSUME TypeOK, CallOK, GoesLast, InTime, ~cut', TypeOK', CallOK', [Next]_vars
  PROVE  InTime'
<1> USE DEF ToolVars, CallVars, CmdVars, Handlers, ArmVars, fixed, Refusals
<1>1. CASE UNCHANGED vars
  BY <1>1 DEF vars, InTime, Awaited, Pending, Waits
<1>2. ASSUME step = "out", UNCHANGED <<waiting, fifo, reg, event, onRead, onConf, resp, dead>>
      PROVE  InTime'
  <2>1. ~waiting
    BY <1>2 DEF InTime
  <2>2. Quiet(fifo) /\ ~Pending("read") /\ ~Pending("conf")
    BY <2>1, IdleIsQuiet
  <2>3. SameOrders(fifo, fifo) /\ waiting' = FALSE /\ event' = FALSE /\ resp' = resp /\ dead' = dead
    BY <1>2, <2>1, NotesOnly DEF InTime, TypeOK
  <2>. QED
    BY <1>2, <2>2, <2>3, WakingKeepsTime
<1>3. CASE Tool /\ ~ReadGoto
  <2>1. UNCHANGED <<waiting, fifo, reg, event, onRead, onConf, resp, dead>>
    BY <1>3 DEF Tool, LoadStart, ReadAddress, ReadData, ReadEnd, ReadFails, RecordDone, LoadDone, Killed
  <2>2. step = "out"
    BY <1>3 DEF Tool, LoadStart, ReadAddress, ReadData, ReadEnd, ReadFails, RecordDone, LoadDone, Killed, Reads, CallOK, TypeOK, Steps
  <2>. QED
    BY <1>2, <2>1, <2>2
<1>4. ASSUME NEW c \in Orders, c.note = "none", c.op \notin {"read", "conf"}, ChipALWrite(c), ~waiting,
             step = "out" => ~waiting', UNCHANGED <<step, Handlers, resp>>
      PROVE  InTime'
  BY <1>4, WritingKeepsTime
<1>5. CASE ReadGoto
  <2> DEFINE c == Cmd("goto", file[pos].value, "none")
  <2>1. step = "out" /\ pos \in DOMAIN file /\ file[pos].type = "goto"
    <3>1. step = "out" /\ pos <= Len(file) /\ file[pos].type = "goto"
      BY <1>5 DEF ReadGoto, Reads, Record, CallOK, TypeOK, Steps
    <3>2. file \in Seq(Records) /\ pos \in Nat \ {0}
      BY RecordTypes DEF TypeOK
    <3>3. pos \in DOMAIN file
      BY <3>1, <3>2
    <3>. QED
      BY <3>1, <3>3
  <2>2. c \in Orders /\ c.note = "none" /\ c.op = "goto"
    BY <2>1, RecordTypes, OrderTypes DEF Signals, Cmd
  <2>3. ChipALWrite(c) /\ UNCHANGED <<step, waiting, Handlers, resp>>
    BY <1>5 DEF ReadGoto, ChipALWrite, Record
  <2>4. ~waiting
    BY <2>1 DEF InTime
  <2> HIDE DEF c
  <2>. QED
    BY <1>4, <2>2, <2>3, <2>4
<1>6. ASSUME NEW c \in Orders, c.note = "live", c.op \notin {"read", "conf"}, ChipALWrite(c), ~waiting, waiting' = TRUE,
             step \in {"address", "word", "goto", "extend", "pins"}, UNCHANGED <<step, Handlers, resp>>
      PROVE  InTime'
  BY <1>6, WritingKeepsTime
<1>7. CASE SendAddress
  <2> DEFINE c == Cmd("address", lin + seg + file[pos].offset, "live")
  <2>1. pos \in DOMAIN file /\ file[pos].type = "data"
    BY <1>7 DEF SendAddress, WriteRecord, ChipALWrite, CallOK
  <2>2. c \in Orders /\ c.note = "live" /\ c.op = "address"
    <3>1. lin \in Nat /\ seg \in Nat /\ file[pos].offset \in Nat
      <4>1. lin \in Nat /\ seg \in Nat
        BY DEF TypeOK
      <4>2. file[pos].offset \in Nat
        BY <2>1, RecordTypes
      <4>. QED
        BY <4>1, <4>2
    <3>2. lin + seg + file[pos].offset \in Nat
      BY <3>1
    <3>. QED
      BY <3>2, OrderTypes DEF Signals, Cmd
  <2>3. ChipALWrite(c) /\ ~waiting /\ waiting' = TRUE /\ step = "address" /\ UNCHANGED <<step, Handlers, resp>>
    BY <1>7 DEF SendAddress, WriteRecord, ChipALWrite, Record
  <2> HIDE DEF c
  <2>. QED
    BY <1>6, <2>2, <2>3
<1>8. CASE SendWord
  <2> DEFINE c == Cmd("word", parseData(SubSeq(left, 1, WordLen)), "live")
  <2>2. c \in Orders /\ c.note = "live" /\ c.op = "word"
    <3>1. left \in Digits /\ left # <<>>
      BY <1>8 DEF SendWord, WriteRecord, ChipALWrite, CallOK
    <3>2. parseData(SubSeq(left, 1, WordLen)) \in Words
      BY <3>1, FirstWord, ParsedDigits
    <3>. QED
      BY <3>2, OrderTypes DEF Signals, Cmd
  <2>3. ChipALWrite(c) /\ ~waiting /\ waiting' = TRUE /\ step = "word" /\ UNCHANGED <<step, Handlers, resp>>
    BY <1>8 DEF SendWord, WriteRecord, ChipALWrite
  <2> HIDE DEF c
  <2>. QED
    BY <1>6, <2>2, <2>3
<1>9. CASE SendGoto \/ SendExtend \/ SendLastPin
  <2>1. \A op \in {"goto", "extend", "pin"} :
          Cmd(op, 0, "live") \in Orders /\ Cmd(op, 0, "live").note = "live" /\ Cmd(op, 0, "live").op = op
    BY OrderTypes DEF Signals, Cmd
  <2>. QED
    BY <1>6, <1>9, <2>1 DEF SendGoto, SendExtend, SendLastPin
<1>10. CASE SendPin
  <2>1. Cmd("pin", 0, "none") \in Orders /\ Cmd("pin", 0, "none").note = "none" /\ Cmd("pin", 0, "none").op = "pin"
    BY OrderTypes DEF Signals, Cmd
  <2>. QED
    BY <1>4, <1>10, <2>1 DEF SendPin, ChipALWrite
<1>11. CASE SendRead
  <2>1. Cmd("read", 0, "none") \in Orders /\ Cmd("read", 0, "none").note = "none" /\ Cmd("read", 0, "none").op = "read"
    BY OrderTypes DEF Signals, Cmd
  <2>2. onRead = "live"
    BY <1>11 DEF SendRead, GoesLast
  <2>. QED
    BY <1>11, <2>1, <2>2, WritingKeepsTime DEF SendRead
<1>12. CASE SendConf
  <2>1. Cmd("conf", 0, "none") \in Orders /\ Cmd("conf", 0, "none").note = "none" /\ Cmd("conf", 0, "none").op = "conf"
    BY OrderTypes DEF Signals, Cmd
  <2>2. onConf = "live"
    BY <1>12 DEF SendConf, GoesLast
  <2>. QED
    BY <1>12, <2>1, <2>2, WritingKeepsTime DEF SendConf
<1>13. ASSUME Wakes \/ GivesUp, waiting' = FALSE, event' = FALSE, reg' = reg, resp' = resp, dead' = dead,
              fifo' \in {fifo, Orphaned(fifo), Struck(fifo)}
       PROVE  InTime'
  <2>1. Quiet(fifo) /\ ~Pending("read") /\ ~Pending("conf")
    BY <1>13, IdleIsQuiet, LateIsQuiet DEF Wakes
  <2>2. SameOrders(fifo, fifo') /\ \A i \in DOMAIN fifo : fifo[i].note = "none" => fifo'[i].note = "none"
    BY <1>13, NotesOnly DEF TypeOK
  <2>. QED
    BY <1>13, <2>1, <2>2, WakingKeepsTime
<1>14. CASE NextWord \/ AskForRoutine \/ Started
  BY <1>13, <1>14 DEF NextWord, AskForRoutine, Started
<1>15. CASE DataSent \/ GotRoutine \/ Timeout \/ Ready
  BY <1>13, <1>15 DEF DataSent, GotRoutine, Timeout, Ready, Return
<1>16. CASE NotifyArmReady
  <2>1. fifo' = Struck(fifo)
    BY <1>16 DEF NotifyArmReady, Struck
  <2>. QED
    BY <1>13, <1>16, <2>1 DEF NotifyArmReady
<1>17. CASE Interrupt \/ Arm
  BY <1>17, NextCommandKeepsTime, ResponseKeepsTime, ArmKeepsTime DEF Interrupt
<1>. QED
  BY <1>1, <1>3, <1>5, <1>7, <1>8, <1>9, <1>10, <1>11, <1>12, <1>14, <1>15, <1>16, <1>17 DEF Next, Tool, Driver

(* The invariant of the waits holds at the beginning,                         *)
LEMMA SignalStart == Init => SignalInv
<1>1. ASSUME Init PROVE TypeOK
  <2>1. faults \subseteq {"late", "signal", "memory", "dud"}
    BY <1>1, ArmLoadAssumption DEF Init
  <2>2. <<>> \in Seq(Orders) /\ Len(<<>>) = 0
    OBVIOUS
  <2>. QED
    <3>1. pos \in Nat \ {0} /\ seg \in Nat /\ lin \in Nat /\ wr \in Nat /\ ran \in Nat
      BY <1>1 DEF Init
    <3>2. fifo \in Seq(Orders) /\ reg \in Seq(Orders) /\ Len(reg) <= 1
      BY <1>1, <2>2 DEF Init
    <3>. QED
      BY <1>1, <2>1, <3>1, <3>2 DEF Init, TypeOK, Steps, Signals
<1>2. ASSUME Init PROVE CallOK
  <2>1. <<>> \in Seq({"pin"})
    OBVIOUS
  <2>. QED
    BY <1>2, <2>1 DEF Init, CallOK
<1>3. ASSUME Init PROVE GoesLast /\ InTime
  <2>1. DOMAIN fifo = {} /\ DOMAIN reg = {}
    BY <1>3 DEF Init
  <2>. QED
    BY <1>3, <2>1 DEF Init, GoesLast, InTime, Awaited, Pending
<1>. QED
  BY <1>1, <1>2, <1>3 DEF SignalInv

(* and every step keeps it.                                                   *)
LEMMA SignalStep == SignalInv /\ [Next]_vars => SignalInv'
<1> SUFFICES ASSUME SignalInv, [Next]_vars PROVE SignalInv'
  OBVIOUS
<1>1. TypeOK' /\ CallOK'
  BY TypesKept DEF SignalInv
<1>2. GoesLast'
  BY <1>1, GoKept DEF SignalInv
<1>3. cut => cut'
  BY FaultStays DEF SignalInv
<1>4. ~cut' => InTime'
  BY <1>1, <1>3, TimeKept DEF SignalInv
<1>. QED
  BY <1>1, <1>2, <1>4 DEF SignalInv

(* No event is signalled after the function that waits for it has returned,   *)
(* unless a wait was given up while the ARM had not done all it was given, and*)
(* without such a signal the firmware gets its go after its configuration.    *)
THEOREM SignalsInTime == Spec => []SignalsReachWaiters
<1>1. SignalInv => SignalsReachWaiters
  BY DEF SignalInv, GoesLast, InTime, SignalsReachWaiters
<1>. QED
  BY <1>1, SignalStart, SignalStep, PTL DEF Spec
--------------------------------------------------------------------------------
(* What is on its way to the ARM is in order.                                 *)
LEMMA CommandTypes ==
  ASSUME TypeOK
  PROVE  /\ Commands \in Seq(Orders) /\ Len(Commands) = Len(reg) + Len(fifo)
         /\ \A i \in 1 .. Len(reg) : Commands[i] = reg[i]
         /\ \A i \in 1 .. Len(fifo) : Commands[Len(reg) + i] = fifo[i]
<1>1. reg \in Seq(Orders) /\ fifo \in Seq(Orders)
  BY DEF TypeOK
<1>2. Commands \in Seq(Orders)
  BY <1>1, ConcatProperties DEF Commands
<1>3. Len(Commands) = Len(reg) + Len(fifo)
  BY <1>1 DEF Commands
<1>4. \A i \in 1 .. Len(reg) : Commands[i] = reg[i]
  BY <1>1 DEF Commands
<1>5. \A i \in 1 .. Len(fifo) : Commands[Len(reg) + i] = fifo[i]
  BY <1>1 DEF Commands
<1>. QED
  BY <1>2, <1>3, <1>4, <1>5

Added(q, c, p) == Len(p) = Len(q) + 1 /\ p[Len(q) + 1] = c /\ \A i \in DOMAIN q : p[i] = q[i]
Taken(q, c, p) == Len(q) = Len(p) + 1 /\ q[1] = c /\ \A i \in DOMAIN p : p[i] = q[i + 1]

(* A command goes to the end of the queue, or at once to the register if      *)
(* nothing waits.                                                             *)
LEMMA WrittenLast ==
  ASSUME TypeOK, NEW c \in Orders, Accepts(c)
  PROVE  Added(Commands, c, Commands')
<1>1. CASE fifo = <<>> /\ reg = <<>> /\ fifo' = <<>> /\ reg' = <<c>>
  <2>1. Commands = <<>> /\ Commands' = <<c>>
    BY <1>1, ConcatEmptySeq DEF Commands
  <2>. QED
    BY <2>1 DEF Added
<1>2. CASE fifo' = Append(fifo, c) /\ reg' = reg
  <2>1. reg \in Seq(Orders) /\ fifo \in Seq(Orders) /\ <<c>> \in Seq(Orders)
    BY DEF TypeOK
  <2>2. Commands \in Seq(Orders)
    BY CommandTypes
  <2>3. Append(fifo, c) = fifo \o <<c>>
    BY <2>1, AppendIsConcat
  <2>4. reg \o (fifo \o <<c>>) = (reg \o fifo) \o <<c>>
    BY <2>1, ConcatAssociative
  <2>5. Append(Commands, c) = Commands \o <<c>>
    BY <2>2, AppendIsConcat
  <2>6. Commands' = Append(Commands, c)
    BY <1>2, <2>3, <2>4, <2>5 DEF Commands
  <2>. QED
    BY <2>2, <2>6 DEF Added
<1>. QED
  BY <1>1, <1>2, WriteFacts

(* A command that goes from the queue to the register stays in its place.     *)
LEMMA NextIsSame ==
  ASSUME TypeOK, TypeOK', WriteNextCommand
  PROVE  SameOrders(Commands, Commands')
<1>1. /\ fifo \in Seq(Orders) /\ fifo # <<>> /\ reg = <<>> /\ reg' = <<Head(fifo)>> /\ fifo' = Tail(fifo)
      /\ fifo' \in Seq(Orders) /\ reg' \in Seq(Orders)
  BY DEF WriteNextCommand, TypeOK
<1>2. Commands = fifo
  BY <1>1, ConcatEmptySeq DEF Commands
<1>3. Commands' \in Seq(Orders) /\ Len(Commands') = Len(reg') + Len(fifo')
      /\ (\A i \in 1 .. Len(reg') : Commands'[i] = reg'[i])
      /\ (\A i \in 1 .. Len(fifo') : Commands'[Len(reg') + i] = fifo'[i])
  <2>1. Commands' = reg' \o fifo'
    BY DEF Commands
  <2>. QED
    BY <1>1, <2>1, ConcatProperties
<1>4. /\ Len(fifo) \in Nat /\ Len(reg') = 1 /\ reg'[1] = fifo[1] /\ Len(fifo') = Len(fifo) - 1
      /\ \A i \in 1 .. Len(fifo') : fifo'[i] = fifo[i + 1]
  BY <1>1
<1>5. Len(Commands') = Len(fifo) /\ Commands'[1] = fifo[1] /\ 1 \in 1 .. Len(reg')
  BY <1>3, <1>4
<1>6. ASSUME NEW i \in 1 .. Len(fifo), i # 1
      PROVE  Commands'[i] = fifo[i]
  <2>1. i - 1 \in 1 .. Len(fifo') /\ 1 + (i - 1) = i /\ (i - 1) + 1 = i
    BY <1>4, <1>6
  <2>2. Commands'[1 + (i - 1)] = fifo'[i - 1] /\ fifo'[i - 1] = fifo[(i - 1) + 1]
    BY <1>3, <1>4, <2>1
  <2>. QED
    BY <2>1, <2>2
<1>7. DOMAIN fifo = 1 .. Len(fifo)
  BY <1>1
<1>. QED
  BY <1>2, <1>5, <1>6, <1>7 DEF SameOrders

(* The ARM takes the first of them.                                           *)
LEMMA ArmTakesFirst ==
  ASSUME TypeOK, Arm
  PROVE  /\ Taken(Commands, Head(reg), Commands') /\ Head(reg) \in Orders
         /\ Commands' \in Seq(Orders)
<1>1. /\ fifo \in Seq(Orders) /\ reg \in Seq(Orders) /\ reg # <<>> /\ Len(reg) = 1 /\ reg' = <<>> /\ fifo' = fifo
      /\ Head(reg) = reg[1] /\ Len(fifo) \in Nat /\ Head(reg) \in Orders
  <2>1. reg # <<>> /\ reg' = <<>> /\ fifo' = fifo
    BY DEF Arm
  <2>2. fifo \in Seq(Orders) /\ reg \in Seq(Orders) /\ Len(reg) <= 1
    BY DEF TypeOK
  <2>3. Len(reg) \in Nat /\ Len(reg) # 0 /\ Len(fifo) \in Nat
    BY <2>1, <2>2
  <2>4. Head(reg) = reg[1] /\ Head(reg) \in Orders
    BY <2>1, <2>2
  <2>. QED
    BY <2>1, <2>2, <2>3, <2>4
<1>2. Commands' = fifo
  BY <1>1, ConcatEmptySeq DEF Commands
<1>3. Len(Commands) = 1 + Len(fifo) /\ Commands[1] = reg[1]
      /\ \A i \in 1 .. Len(fifo) : Commands[1 + i] = fifo[i]
  BY <1>1, CommandTypes
<1>4. \A i \in DOMAIN fifo : i \in 1 .. Len(fifo) /\ 1 + i = i + 1
  BY <1>1
<1>. QED
  BY <1>1, <1>2, <1>3, <1>4 DEF Taken

(* A change of notes in the queue leaves the commands.                        *)
LEMMA QueueOnly ==
  ASSUME TypeOK, TypeOK', reg' = reg, SameOrders(fifo, fifo')
  PROVE  SameOrders(Commands, Commands')
<1>1. /\ fifo \in Seq(Orders) /\ reg \in Seq(Orders) /\ fifo' \in Seq(Orders)
      /\ Len(reg) \in Nat /\ Len(fifo) \in Nat /\ DOMAIN fifo = 1 .. Len(fifo)
  BY DEF TypeOK
<1>2. /\ Commands \in Seq(Orders) /\ Len(Commands) = Len(reg) + Len(fifo) /\ DOMAIN Commands = 1 .. Len(Commands)
      /\ \A i \in 1 .. Len(reg) : Commands[i] = reg[i]
      /\ \A i \in 1 .. Len(fifo) : Commands[Len(reg) + i] = fifo[i]
  BY CommandTypes
<1>3. /\ Len(Commands') = Len(reg) + Len(fifo')
      /\ \A i \in 1 .. Len(reg) : Commands'[i] = reg[i]
      /\ \A i \in 1 .. Len(fifo') : Commands'[Len(reg) + i] = fifo'[i]
  <2>1. Commands' = reg \o fifo'
    BY DEF Commands
  <2>. QED
    BY <1>1, <2>1, ConcatProperties
<1>4. ASSUME NEW i \in DOMAIN Commands
      PROVE  Commands'[i].op = Commands[i].op /\ Commands'[i].arg = Commands[i].arg
  <2>1. CASE i <= Len(reg)
    BY <1>1, <1>2, <1>3, <2>1
  <2>2. CASE i > Len(reg)
    <3>1. i - Len(reg) \in 1 .. Len(fifo) /\ Len(reg) + (i - Len(reg)) = i
      BY <1>1, <1>2, <2>2
    <3>2. Commands[i] = fifo[i - Len(reg)] /\ Commands'[i] = fifo'[i - Len(reg)]
      BY <1>2, <1>3, <3>1 DEF SameOrders
    <3>. QED
      BY <1>1, <3>1, <3>2 DEF SameOrders
  <2>. QED
    BY <1>1, <1>2, <2>1, <2>2
<1>. QED
  BY <1>2, <1>3, <1>4 DEF SameOrders

(* What the commands in the queue do, seen from before and after a step.      *)
LEMMA SameKeeps ==
  ASSUME NEW q \in Seq(Orders), NEW p \in Seq(Orders), SameOrders(q, p), NEW a, NEW at, NEW f, NEW m
  PROVE  /\ Trail(q, a, at) => Trail(p, a, at)
         /\ RightWords(f, q, at) => RightWords(f, p, at)
         /\ StartsAfter(f, q, at, m) => StartsAfter(f, p, at, m)
         /\ \A n, i, k : Comes(f, q, at, n, m, i, k) => Comes(f, p, at, n, m, i, k)
<1>1. DOMAIN p = DOMAIN q /\ Len(p) = Len(q) /\ \A i \in DOMAIN q : p[i].op = q[i].op /\ p[i].arg = q[i].arg
  BY DEF SameOrders
<1>2. Trail(q, a, at) => Trail(p, a, at)
  BY <1>1 DEF Trail, After
<1>3. RightWords(f, q, at) => RightWords(f, p, at)
  BY <1>1 DEF RightWords
<1>4. \A n, i, k : Comes(f, q, at, n, m, i, k) => Comes(f, p, at, n, m, i, k)
  BY <1>1 DEF Comes
<1>5. StartsAfter(f, q, at, m) => StartsAfter(f, p, at, m)
  BY <1>1, <1>4 DEF StartsAfter
<1>. QED
  BY <1>2, <1>3, <1>4, <1>5

(* The ARM's address stays a number.                                          *)
LEMMA AfterTypes ==
  ASSUME NEW a \in Nat, NEW c \in Orders
  PROVE  After(a, c) \in Nat
<1>1. c.op = "address" => c.arg \in Nat
  BY DEF Orders
<1>. QED
  BY <1>1, Constants DEF After

Longer(q, at, c) ==
  [i \in 1 .. Len(q) + 2 |-> IF i <= Len(q) + 1 THEN at[i] ELSE After(at[Len(q) + 1], c)]

(* A command is added: what came still comes, and its own bytes do.           *)
LEMMA AddKeeps ==
  ASSUME NEW q \in Seq(Orders), NEW p \in Seq(Orders), NEW c \in Orders, Added(q, c, p),
         NEW a, NEW at, Trail(q, a, at), NEW f, NEW m
  PROVE  /\ Trail(p, a, Longer(q, at, c)) /\ Longer(q, at, c)[Len(p) + 1] = After(at[Len(q) + 1], c)
         /\ \A n, l \in Nat : \A i, k : Comes(f, q, at, n, m, i, k) /\ n <= l =>
              Comes(f, p, Longer(q, at, c), l, m, i, k)
         /\ \A i, k : c.op = "word" /\ At(f, i, k) \in WordAt(at[Len(q) + 1]) =>
              Comes(f, p, Longer(q, at, c), Len(p), m, i, k)
         /\ RightWords(f, q, at) /\ (c.op = "word" => RightWord(f, c.arg, at[Len(q) + 1])) =>
              RightWords(f, p, Longer(q, at, c))
         /\ StartsAfter(f, q, at, m)
            /\ (c.op = "goto" => \A i \in DOMAIN f : \A k \in Bytes(f, i) : Comes(f, q, at, Len(q), m, i, k)) =>
              StartsAfter(f, p, Longer(q, at, c), m)
<1> DEFINE n == Len(q)
           lt == Longer(q, at, c)
<1>1. /\ n \in Nat /\ Len(p) = n + 1 /\ DOMAIN q = 1 .. n /\ DOMAIN p = 1 .. n + 1
      /\ p[n + 1] = c /\ \A i \in 1 .. n : p[i] = q[i]
  BY DEF Added
<1>2. /\ at \in [1 .. n + 1 -> Nat] /\ at[1] = a /\ \A i \in 1 .. n : at[i + 1] = After(at[i], q[i])
  BY <1>1 DEF Trail
<1>3. /\ lt \in [1 .. n + 2 -> Nat] /\ (\A i \in 1 .. n + 1 : lt[i] = at[i]) /\ lt[n + 2] = After(at[n + 1], c)
  <2>1. After(at[n + 1], c) \in Nat
    <3>1. n + 1 \in 1 .. n + 1
      BY <1>1
    <3>2. at[n + 1] \in Nat
      BY <1>2, <3>1
    <3>. QED
      BY <3>2, AfterTypes
  <2> HIDE DEF n
  <2>. QED
    BY <1>1, <1>2, <2>1 DEF Longer, n
<1> HIDE DEF n, lt
<1>4. Trail(p, a, lt)
  <2>1. lt[1] = a
    BY <1>1, <1>2, <1>3
  <2>2. ASSUME NEW i \in 1 .. n + 1
        PROVE  lt[i + 1] = After(lt[i], p[i])
    <3>1. CASE i \in 1 .. n
      BY <1>1, <1>2, <1>3, <3>1
    <3>2. CASE i = n + 1
      <4>1. lt[i + 1] = lt[n + 2] /\ lt[i] = at[n + 1] /\ p[i] = c
        BY <1>1, <1>3, <3>2
      <4>. QED
        BY <1>3, <4>1
    <3>. QED
      BY <1>1, <3>1, <3>2
  <2>3. 1 .. Len(p) + 1 = 1 .. n + 2
    BY <1>1
  <2>. QED
    BY <1>1, <1>3, <2>1, <2>2, <2>3 DEF Trail
<1>5. lt[Len(p) + 1] = After(at[n + 1], c)
  BY <1>1, <1>3
<1>6. ASSUME NEW x \in Nat, NEW l \in Nat, NEW i, NEW k, Comes(f, q, at, x, m, i, k), x <= l
      PROVE  Comes(f, p, lt, l, m, i, k)
  <2>1. CASE Held(m, f, i, k)
    BY <2>1 DEF Comes
  <2>2. CASE \E j \in DOMAIN q : j <= x /\ q[j].op = "word" /\ At(f, i, k) \in WordAt(at[j])
    <3>1. PICK j \in DOMAIN q : j <= x /\ q[j].op = "word" /\ At(f, i, k) \in WordAt(at[j])
      BY <2>2
    <3>2. j \in DOMAIN p /\ j <= l /\ p[j] = q[j] /\ lt[j] = at[j]
      BY <1>1, <1>3, <1>6, <3>1
    <3>. QED
      BY <3>1, <3>2 DEF Comes
  <2>. QED
    BY <1>6, <2>1, <2>2 DEF Comes
<1>7. ASSUME NEW i, NEW k, c.op = "word", At(f, i, k) \in WordAt(at[n + 1])
      PROVE  Comes(f, p, lt, Len(p), m, i, k)
  <2>1. n + 1 \in DOMAIN p /\ n + 1 <= Len(p) /\ p[n + 1] = c /\ lt[n + 1] = at[n + 1]
    BY <1>1, <1>3
  <2>. QED
    BY <1>7, <2>1 DEF Comes
<1>8. ASSUME RightWords(f, q, at), c.op = "word" => RightWord(f, c.arg, at[n + 1])
      PROVE  RightWords(f, p, lt)
  <2>. SUFFICES ASSUME NEW i \in DOMAIN p, p[i].op = "word" PROVE RightWord(f, p[i].arg, lt[i])
    BY DEF RightWords
  <2>1. CASE i \in 1 .. n
    <3>1. p[i] = q[i] /\ lt[i] = at[i] /\ i \in DOMAIN q
      BY <1>1, <1>3, <2>1
    <3>. QED
      BY <1>8, <3>1 DEF RightWords
  <2>2. CASE i = n + 1
    BY <1>1, <1>3, <1>8, <2>2
  <2>. QED
    BY <1>1, <2>1, <2>2
<1>9. ASSUME StartsAfter(f, q, at, m),
             c.op = "goto" => \A i \in DOMAIN f : \A k \in Bytes(f, i) : Comes(f, q, at, n, m, i, k)
      PROVE  StartsAfter(f, p, lt, m)
  <2>. SUFFICES ASSUME NEW g \in DOMAIN p, p[g].op = "goto", NEW i \in DOMAIN f, NEW k \in Bytes(f, i)
                PROVE  Comes(f, p, lt, g, m, i, k)
    BY DEF StartsAfter
  <2>1. CASE g \in 1 .. n
    <3>1. p[g] = q[g] /\ g \in DOMAIN q /\ g \in Nat
      BY <1>1, <2>1
    <3>2. Comes(f, q, at, g, m, i, k)
      BY <1>9, <3>1 DEF StartsAfter
    <3>. QED
      BY <1>6, <3>1, <3>2
  <2>2. CASE g = n + 1
    <3>1. Comes(f, q, at, n, m, i, k) /\ n <= g /\ g \in Nat
      BY <1>1, <1>9, <2>2
    <3>. QED
      BY <1>1, <1>6, <3>1
  <2>. QED
    BY <1>1, <2>1, <2>2
<1>. QED
  BY <1>1, <1>4, <1>5, <1>6, <1>7, <1>8, <1>9 DEF lt, n

(* A word leaves what other words wrote, and writes what it says.             *)
LEMMA WordWritten ==
  ASSUME NEW f, NEW w, NEW a, NEW m, RightWord(f, w, a), NEW i \in DOMAIN f, NEW k \in Bytes(f, i)
  PROVE  /\ Held(m, f, i, k) => Held(Stored(m, w, a), f, i, k)
         /\ At(f, i, k) \in WordAt(a) => Held(Stored(m, w, a), f, i, k)
<1> DEFINE x == At(f, i, k)
           s == Stored(m, w, a)
<1>1. x \in WordAt(a) => ByteOf(w, a, x) = Byte(f, i, k)
  BY DEF RightWord
<1>2. s = [b \in WordAt(a) \cup DOMAIN m |-> IF b \in WordAt(a) THEN ByteOf(w, a, b) ELSE m[b]]
  BY DEF Stored
<1> HIDE DEF x, s
<1>3. x \in WordAt(a) => x \in DOMAIN s /\ s[x] = Byte(f, i, k)
  BY <1>1, <1>2
<1>4. x \in DOMAIN m /\ m[x] = Byte(f, i, k) => x \in DOMAIN s /\ s[x] = Byte(f, i, k)
  BY <1>1, <1>2
<1>. QED
  BY <1>3, <1>4 DEF Held, x, s

Shorter(q, at) == [i \in 1 .. Len(q) |-> at[i + 1]]
Memory(m, c, a) == IF c.op = "word" THEN Stored(m, c.arg, a) ELSE m

(* The ARM takes a command: what it wrote is held.                            *)
LEMMA TakeKeeps ==
  ASSUME NEW q \in Seq(Orders), NEW p \in Seq(Orders), NEW c \in Orders, Taken(q, c, p),
         NEW a, NEW at, Trail(q, a, at), NEW f, RightWords(f, q, at), NEW m
  PROVE  /\ Trail(p, After(a, c), Shorter(q, at)) /\ Shorter(q, at)[Len(p) + 1] = at[Len(q) + 1]
         /\ RightWords(f, p, Shorter(q, at))
         /\ \A n \in Nat, i \in DOMAIN f : \A k \in Bytes(f, i) : Comes(f, q, at, n + 1, m, i, k) =>
              Comes(f, p, Shorter(q, at), n, Memory(m, c, a), i, k)
         /\ StartsAfter(f, q, at, m) => StartsAfter(f, p, Shorter(q, at), Memory(m, c, a))
         /\ StartsAfter(f, q, at, m) /\ c.op = "goto" => HoldsFile(m, f)
<1> DEFINE n == Len(p)
           st == Shorter(q, at)
           mm == Memory(m, c, a)
<1>1. /\ n \in Nat /\ Len(q) = n + 1 /\ DOMAIN q = 1 .. n + 1 /\ DOMAIN p = 1 .. n
      /\ q[1] = c /\ \A i \in 1 .. n : p[i] = q[i + 1]
  BY DEF Taken
<1>2. /\ at \in [1 .. n + 2 -> Nat] /\ at[1] = a /\ \A i \in 1 .. n + 1 : at[i + 1] = After(at[i], q[i])
  <2>1. 1 .. Len(q) + 1 = 1 .. n + 2
    BY <1>1
  <2>. QED
    BY <1>1, <2>1 DEF Trail
<1>3. st \in [1 .. n + 1 -> Nat] /\ \A i \in 1 .. n + 1 : st[i] = at[i + 1]
  BY <1>1, <1>2 DEF Shorter
<1> HIDE DEF n, st, mm
<1>4. Trail(p, After(a, c), st)
  <2>1. st[1] = After(a, c)
    <3>1. 1 \in 1 .. n + 1
      BY <1>1
    <3>. QED
      BY <1>1, <1>2, <1>3, <3>1
  <2>2. ASSUME NEW i \in 1 .. n
        PROVE  st[i + 1] = After(st[i], p[i])
    <3>1. i + 1 \in 1 .. n + 1 /\ i \in 1 .. n + 1
      BY <1>1
    <3>2. st[i + 1] = at[(i + 1) + 1] /\ st[i] = at[i + 1] /\ p[i] = q[i + 1]
      BY <1>1, <1>3, <3>1
    <3>. QED
      BY <1>2, <3>1, <3>2
  <2>. QED
    BY <1>1, <1>3, <2>1, <2>2 DEF Trail, n
<1>5. st[n + 1] = at[Len(q) + 1]
  <2>1. n + 1 \in 1 .. n + 1 /\ Len(q) + 1 = (n + 1) + 1
    BY <1>1
  <2>. QED
    BY <1>3, <2>1
<1>6. ASSUME NEW i \in 1 .. n
      PROVE  p[i] = q[i + 1] /\ st[i] = at[i + 1] /\ i + 1 \in DOMAIN q
  BY <1>1, <1>3
<1>7. RightWords(f, p, st)
  BY <1>1, <1>6 DEF RightWords
<1>8. ASSUME NEW l \in Nat, NEW i \in DOMAIN f, NEW k \in Bytes(f, i), Comes(f, q, at, l + 1, m, i, k)
      PROVE  Comes(f, p, st, l, mm, i, k)
  <2>1. c.op = "word" => RightWord(f, c.arg, a)
    <3>1. 1 \in DOMAIN q
      BY <1>1
    <3>. QED
      BY <1>1, <1>2, <3>1 DEF RightWords
  <2>2. CASE Held(m, f, i, k)
    BY <2>1, <2>2, WordWritten DEF Comes, mm, Memory
  <2>3. ASSUME NEW j \in DOMAIN q, j <= l + 1, q[j].op = "word", At(f, i, k) \in WordAt(at[j])
        PROVE  Comes(f, p, st, l, mm, i, k)
    <3>1. CASE j = 1
      <4>1. c.op = "word" /\ At(f, i, k) \in WordAt(a)
        BY <1>1, <1>2, <2>3, <3>1
      <4>. QED
        BY <2>1, <4>1, WordWritten DEF Comes, mm, Memory
    <3>2. CASE j # 1
      <4>1. j - 1 \in 1 .. n /\ (j - 1) + 1 = j /\ j - 1 <= l
        BY <1>1, <2>3, <3>2
      <4>2. p[j - 1] = q[j] /\ st[j - 1] = at[j] /\ j - 1 \in DOMAIN p
        BY <1>1, <1>6, <4>1
      <4>. QED
        BY <2>3, <4>1, <4>2 DEF Comes
    <3>. QED
      BY <3>1, <3>2
  <2>. QED
    BY <1>8, <2>2, <2>3 DEF Comes
<1>9. ASSUME StartsAfter(f, q, at, m)
      PROVE  StartsAfter(f, p, st, mm)
  <2>. SUFFICES ASSUME NEW g \in DOMAIN p, p[g].op = "goto", NEW i \in DOMAIN f, NEW k \in Bytes(f, i)
                PROVE  Comes(f, p, st, g, mm, i, k)
    BY DEF StartsAfter
  <2>1. g \in 1 .. n /\ g \in Nat /\ p[g] = q[g + 1] /\ g + 1 \in DOMAIN q
    BY <1>1, <1>6
  <2>2. Comes(f, q, at, g + 1, m, i, k)
    BY <1>9, <2>1 DEF StartsAfter
  <2>. QED
    BY <1>8, <2>1, <2>2
<1>10. ASSUME StartsAfter(f, q, at, m), c.op = "goto"
       PROVE  HoldsFile(m, f)
  <2>. SUFFICES ASSUME NEW i \in DOMAIN f, NEW k \in Bytes(f, i) PROVE Held(m, f, i, k)
    BY DEF HoldsFile
  <2>1. 1 \in DOMAIN q /\ q[1].op = "goto"
    BY <1>1, <1>10
  <2>2. Comes(f, q, at, 1, m, i, k)
    BY <1>10, <2>1 DEF StartsAfter
  <2>3. \A j \in DOMAIN q : j <= 1 /\ q[j].op = "word" => FALSE
    BY <1>1, <2>1
  <2>. QED
    BY <2>2, <2>3 DEF Comes
<1>. QED
  BY <1>4, <1>5, <1>7, <1>8, <1>9, <1>10 DEF n, st, mm
--------------------------------------------------------------------------------
(* Addresses count from the last address record that was read.                *)
LEMMA LastIs ==
  ASSUME NEW f, NEW i \in Nat, i > 0, NEW t
  PROVE  LastOf(f, i, t) = IF f[i].type = t THEN f[i].value ELSE LastOf(f, i - 1, t)
<1> DEFINE B(n) == {j \in 1 .. n : f[j].type = t}
<1>1. CASE f[i].type # t
  <2>1. B(i) = B(i - 1)
    BY <1>1
  <2> HIDE DEF B
  <2>2. LastOf(f, i, t) = IF B(i) = {} THEN 0 ELSE f[CHOOSE j \in B(i) : \A k \in B(i) : k <= j].value
    BY DEF LastOf, B
  <2>3. LastOf(f, i - 1, t) = IF B(i - 1) = {} THEN 0 ELSE f[CHOOSE j \in B(i - 1) : \A k \in B(i - 1) : k <= j].value
    BY DEF LastOf, B
  <2>. QED
    BY <1>1, <2>1, <2>2, <2>3
<1>2. CASE f[i].type = t
  <2>1. i \in B(i) /\ (\A k \in B(i) : k <= i) /\ B(i) \subseteq 1 .. i
    BY <1>2
  <2>2. LastOf(f, i, t) = IF B(i) = {} THEN 0 ELSE f[CHOOSE j \in B(i) : \A k \in B(i) : k <= j].value
    BY DEF LastOf
  <2> HIDE DEF B
  <2>3. \A j \in B(i) : (\A k \in B(i) : k <= j) => j = i
    BY <2>1
  <2>4. (CHOOSE j \in B(i) : \A k \in B(i) : k <= j) = i
    BY <2>1, <2>3
  <2>. QED
    BY <1>2, <2>1, <2>2, <2>4
<1>. QED
  BY <1>1, <1>2

(* Before the first record there is no address.                               *)
LEMMA FirstOf ==
  ASSUME NEW f, NEW t
  PROVE  LastOf(f, 0, t) = 0
BY DEF LastOf

(* Where a data record is loaded.                                             *)
LEMMA BaseIs ==
  ASSUME TypeOK, Addresses, file[pos].type = "data"
  PROVE  Base(file, pos) = lin + seg
<1>1. /\ LastOf(file, pos, "segment") = LastOf(file, pos - 1, "segment")
      /\ LastOf(file, pos, "linear") = LastOf(file, pos - 1, "linear")
  BY LastIs DEF TypeOK
<1>. QED
  BY <1>1 DEF Base, Addresses

(* The records are read one after the other.                                  *)
LEMMA AddressesKept ==
  ASSUME SignalInv, Addresses, [Next]_vars
  PROVE  Addresses'
<1> USE DEF ToolVars, CallVars, CmdVars, Handlers, ArmVars, fixed, Refusals
<1>0. TypeOK /\ CallOK /\ file' = file /\ pos \in Nat \ {0}
  BY FaultStays DEF SignalInv, TypeOK
<1>1. CASE UNCHANGED <<pos, seg, lin>>
  BY <1>0, <1>1 DEF Addresses
<1>2. CASE LoadStart
  BY <1>0, <1>2, FirstOf DEF LoadStart, Addresses
<1>3. CASE ReadAddress
  <2>1. /\ LastOf(file, pos, "segment") = IF file[pos].type = "segment" THEN file[pos].value ELSE LastOf(file, pos - 1, "segment")
        /\ LastOf(file, pos, "linear") = IF file[pos].type = "linear" THEN file[pos].value ELSE LastOf(file, pos - 1, "linear")
    BY <1>0, LastIs
  <2>2. pos' = pos + 1 /\ pos' - 1 = pos
    BY <1>0, <1>3 DEF ReadAddress
  <2>. QED
    BY <1>0, <1>3, <2>1, <2>2 DEF ReadAddress, Reads, Record, Addresses
<1>4. CASE RecordDone /\ ret
  <2>1. pos' = pos + 1 /\ pos' - 1 = pos /\ seg' = seg /\ lin' = lin /\ file[pos].type \in {"data", "goto"}
    BY <1>0, <1>4 DEF RecordDone, CallOK
  <2>2. /\ LastOf(file, pos, "segment") = LastOf(file, pos - 1, "segment")
        /\ LastOf(file, pos, "linear") = LastOf(file, pos - 1, "linear")
    BY <1>0, <2>1, LastIs
  <2>. QED
    BY <1>0, <2>1, <2>2 DEF Addresses
<1>5. CASE Tool
  BY <1>1, <1>2, <1>3, <1>4, <1>5 DEF Tool, ReadData, ReadGoto, ReadEnd, ReadFails, RecordDone, LoadDone, Killed
<1>6. CASE SendAddress \/ NextWord \/ SendWord \/ DataSent
  BY <1>1, <1>6 DEF SendAddress, WriteRecord, ChipALWrite, NextWord, SendWord, DataSent
<1>7. CASE SendGoto \/ AskForRoutine \/ SendRead \/ GotRoutine \/ SendExtend \/ Started
  BY <1>1, <1>7 DEF SendGoto, AskForRoutine, SendRead, GotRoutine, SendExtend, Started
<1>8. CASE SendPin \/ SendLastPin \/ NotifyArmReady \/ SendConf \/ Ready \/ Timeout
  BY <1>1, <1>8 DEF SendPin, SendLastPin, NotifyArmReady, SendConf, Ready, Timeout
<1>9. CASE Interrupt \/ Arm
  BY <1>1, <1>9 DEF Interrupt, WriteNextCommand, ARMSyncRoutine, Arm
<1>10. CASE UNCHANGED vars
  BY <1>1, <1>10 DEF vars
<1>. QED
  BY <1>5, <1>6, <1>7, <1>8, <1>9, <1>10 DEF Next, Driver

(* A step that leaves the commands and sends nothing keeps the invariant;     *)
LEMMA KeepSame ==
  ASSUME TypeOK, TypeOK', file' = file, wr' = wr, mem' = mem, SameOrders(Commands, Commands'),
         NEW at, LoadOK(at), NEW e, e = at[Len(Commands) + 1],
         \A i \in DOMAIN file : \A k \in Bytes(file, i) : Due(i, k)' => Due(i, k),
         NextAddress(e)'
  PROVE  LoadOK(at)'
<1> DEFINE q == Commands
<1>1. q \in Seq(Orders)
  BY CommandTypes
<1>2. Commands' \in Seq(Orders)
  BY ConcatProperties DEF Commands, TypeOK
<1>3. Len(Commands') = Len(q)
  BY DEF SameOrders
<1>4. Trail(q, wr, at) /\ RightWords(file, q, at) /\ StartsAfter(file, q, at, mem) /\ SentWords(q, at)
  BY DEF LoadOK
<1>5. /\ Trail(Commands', wr, at) /\ RightWords(file, Commands', at) /\ StartsAfter(file, Commands', at, mem)
      /\ \A n, i, k : Comes(file, q, at, n, mem, i, k) => Comes(file, Commands', at, n, mem, i, k)
  BY <1>1, <1>2, <1>4, SameKeeps
<1>6. SentWords(Commands, at)'
  BY <1>3, <1>4, <1>5 DEF SentWords
<1>7. NextAddress(at[Len(Commands) + 1])'
  BY <1>3
<1>. QED
  BY <1>5, <1>6, <1>7 DEF LoadOK

(* so does one that writes a command the invariant allows,                    *)
LEMMA KeepAdd ==
  ASSUME TypeOK, TypeOK', file' = file, wr' = wr, mem' = mem, NEW c \in Orders, Accepts(c),
         NEW at, LoadOK(at), NEW e, e = at[Len(Commands) + 1],
         c.op = "word" => RightWord(file, c.arg, e),
         c.op = "goto" => \A i \in DOMAIN file : \A k \in Bytes(file, i) : Due(i, k),
         \A i \in DOMAIN file : \A k \in Bytes(file, i) :
           Due(i, k)' => Due(i, k) \/ (c.op = "word" /\ At(file, i, k) \in WordAt(e)),
         NEW b, b = After(e, c), NextAddress(b)'
  PROVE  \E nt : LoadOK(nt)'
<1> DEFINE q == Commands
           nt == Longer(q, at, c)
<1>1. q \in Seq(Orders) /\ Len(q) \in Nat
  BY CommandTypes
<1>2. Commands' \in Seq(Orders)
  BY ConcatProperties DEF Commands, TypeOK
<1>3. Added(q, c, Commands')
  BY WrittenLast
<1>4. Trail(q, wr, at) /\ RightWords(file, q, at) /\ StartsAfter(file, q, at, mem) /\ SentWords(q, at)
  BY DEF LoadOK
<1>5. c.op = "goto" => \A i \in DOMAIN file : \A k \in Bytes(file, i) : Comes(file, q, at, Len(q), mem, i, k)
  BY <1>4 DEF SentWords
<1>6. /\ Trail(Commands', wr, nt) /\ nt[Len(Commands') + 1] = b
      /\ RightWords(file, Commands', nt) /\ StartsAfter(file, Commands', nt, mem)
  BY <1>1, <1>2, <1>3, <1>4, <1>5, AddKeeps
<1>7. \A n, l \in Nat : \A i, k : Comes(file, q, at, n, mem, i, k) /\ n <= l =>
        Comes(file, Commands', nt, l, mem, i, k)
  BY <1>1, <1>2, <1>3, <1>4, AddKeeps
<1>8. \A i, k : c.op = "word" /\ At(file, i, k) \in WordAt(e) =>
        Comes(file, Commands', nt, Len(Commands'), mem, i, k)
  BY <1>1, <1>2, <1>3, <1>4, AddKeeps
<1>9. Len(Commands') \in Nat /\ Len(q) <= Len(Commands')
  BY <1>1, <1>3 DEF Added
<1> HIDE DEF q, nt
<1>10. ASSUME NEW i \in DOMAIN file, NEW k \in Bytes(file, i), Due(i, k)'
       PROVE  Comes(file, Commands', nt, Len(Commands'), mem, i, k)
  <2>1. CASE Due(i, k)
    <3>1. Comes(file, q, at, Len(q), mem, i, k)
      BY <1>4, <2>1 DEF SentWords
    <3>. QED
      BY <1>1, <1>7, <1>9, <3>1
  <2>2. CASE c.op = "word" /\ At(file, i, k) \in WordAt(e)
    BY <1>8, <2>2
  <2>. QED
    BY <1>10, <2>1, <2>2
<1>11. ASSUME NEW x, x = nt
       PROVE  LoadOK(x)'
  <2>1. SentWords(Commands, x)'
    BY <1>10, <1>11 DEF SentWords
  <2>2. NextAddress(x[Len(Commands) + 1])'
    BY <1>6, <1>11
  <2>3. Trail(Commands, wr, x)' /\ RightWords(file, Commands, x)' /\ StartsAfter(file, Commands, x, mem)'
    BY <1>6, <1>11
  <2>. QED
    BY <2>1, <2>2, <2>3 DEF LoadOK
<1>. QED
  BY <1>11

(* and so does the ARM, which starts a program only when the memory holds all.*)
LEMMA KeepArm ==
  ASSUME TypeOK, TypeOK', file' = file, Arm, NEW at, LoadOK(at), NEW e, e = at[Len(Commands) + 1],
         \A i \in DOMAIN file : \A k \in Bytes(file, i) : Due(i, k)' => Due(i, k), NextAddress(e)'
  PROVE  (\E nt : LoadOK(nt)') /\ (ran' # ran => HoldsFile(mem, file))
<1> DEFINE q == Commands
           c == Head(reg)
           nt == Shorter(q, at)
<1>1. q \in Seq(Orders)
  BY CommandTypes
<1>2. Commands' \in Seq(Orders) /\ Taken(q, c, Commands') /\ c \in Orders
  BY ArmTakesFirst
<1>3. Trail(q, wr, at) /\ RightWords(file, q, at) /\ StartsAfter(file, q, at, mem) /\ SentWords(q, at)
  BY DEF LoadOK
<1>4. /\ wr' = After(wr, c) /\ mem' = Memory(mem, c, wr) /\ (ran' # ran => c.op = "goto")
  BY DEF Arm, After, Memory, WordBytes
<1>5. /\ Trail(Commands', wr', nt) /\ nt[Len(Commands') + 1] = e /\ RightWords(file, Commands', nt)
      /\ StartsAfter(file, Commands', nt, mem') /\ (c.op = "goto" => HoldsFile(mem, file))
      /\ \A n \in Nat, i \in DOMAIN file : \A k \in Bytes(file, i) : Comes(file, q, at, n + 1, mem, i, k) =>
           Comes(file, Commands', nt, n, mem', i, k)
  <2> HIDE DEF q, c
  <2>. QED
    BY <1>1, <1>2, <1>3, <1>4, TakeKeeps DEF q
<1>6. Len(Commands') \in Nat /\ Len(q) = Len(Commands') + 1
  BY <1>2 DEF Taken
<1> HIDE DEF q, nt
<1>7. ASSUME NEW i \in DOMAIN file, NEW k \in Bytes(file, i), Due(i, k)'
      PROVE  Comes(file, Commands', nt, Len(Commands'), mem', i, k)
  <2>1. Comes(file, q, at, Len(q), mem, i, k)
    BY <1>3, <1>7 DEF SentWords
  <2>. QED
    BY <1>5, <1>6, <2>1
<1>8. ASSUME NEW x, x = nt
      PROVE  LoadOK(x)'
  <2>1. SentWords(Commands, x)'
    BY <1>7, <1>8 DEF SentWords
  <2>2. NextAddress(x[Len(Commands) + 1])'
    BY <1>5, <1>8
  <2>3. Trail(Commands, wr, x)' /\ RightWords(file, Commands, x)' /\ StartsAfter(file, Commands, x, mem)'
    BY <1>5, <1>8
  <2>. QED
    BY <2>1, <2>2, <2>3 DEF LoadOK
<1>. QED
  BY <1>4, <1>5, <1>8
--------------------------------------------------------------------------------
(* What is loaded, and what is started.                                       *)

(* No step leaves a wait behind, or goes on after a refused command unnoticed.*)
LEMMA RestKept ==
  ASSUME TypeOK, CallOK, Rests, [Next]_vars
  PROVE  Rests'
<1> USE DEF ToolVars, CallVars, CmdVars, Handlers, ArmVars, fixed, Refusals, Rests
<1>1. CASE UNCHANGED vars
  BY <1>1 DEF vars
<1>2. CASE Tool
  BY <1>2 DEF Tool, LoadStart, ReadAddress, ReadData, ReadGoto, ReadEnd, ReadFails, RecordDone, LoadDone, Killed
<1>3. CASE SendAddress \/ SendWord \/ DataSent
  BY <1>3 DEF SendAddress, SendWord, DataSent, Return
<1>8. CASE NextWord
  <2>1. step' = "word" /\ vain' = vain /\ misled' = (misled \/ vain)
    BY <1>8 DEF NextWord
  <2>. QED
    BY <2>1, Zenon
<1>4. CASE SendGoto \/ AskForRoutine \/ SendRead \/ GotRoutine \/ SendExtend \/ Started
  BY <1>4 DEF SendGoto, AskForRoutine, SendRead, GotRoutine, SendExtend, Started, Return
<1>5. CASE SendPin \/ SendLastPin \/ NotifyArmReady \/ SendConf \/ Ready \/ Timeout
  BY <1>5 DEF SendPin, SendLastPin, NotifyArmReady, SendConf, Ready, Timeout, Return
<1>6. CASE Interrupt \/ Arm
  <2>1. UNCHANGED <<step, waiting, vain, misled>>
    BY <1>6 DEF Interrupt, WriteNextCommand, ARMSyncRoutine, Arm
  <2>. QED
    BY <2>1
<1>. QED
  BY <1>1, <1>2, <1>3, <1>4, <1>5, <1>6, <1>8 DEF Next, Driver

(* A step that neither sends a word nor finishes a record.                    *)
LEMMA KeepQuiet ==
  ASSUME TypeOK, TypeOK', file' = file, wr' = wr, mem' = mem, SameOrders(Commands, Commands'),
         NEW at, LoadOK(at), pos' = pos, step' \notin {"address", "word"},
         tool' = "sent" => step' # "out" \/ ret' = FALSE \/ Bytes(file, pos) = {}
  PROVE  LoadOK(at)'
<1>1. \A e : NextAddress(e)'
  BY DEF NextAddress
<1>2. \A i \in DOMAIN file : \A k \in Bytes(file, i) : Due(i, k)' => Due(i, k)
  BY DEF Due, Sent
<1>. QED
  BY <1>1, <1>2, KeepSame

(* A command of no data is written.                                           *)
LEMMA KeepOther ==
  ASSUME TypeOK, TypeOK', file' = file, wr' = wr, mem' = mem, NEW c \in Orders, Accepts(c),
         c.op \notin {"address", "word"}, NEW at, LoadOK(at), pos' = pos, step' \notin {"address", "word"},
         tool' = "sent" => step' # "out" \/ ret' = FALSE \/ Bytes(file, pos) = {},
         c.op = "goto" => \A i \in DOMAIN file : \A k \in Bytes(file, i) : Due(i, k)
  PROVE  \E nt : LoadOK(nt)'
<1>1. \A e : NextAddress(e)'
  BY DEF NextAddress
<1>2. \A i \in DOMAIN file : \A k \in Bytes(file, i) : Due(i, k)' => Due(i, k)
  BY DEF Due, Sent
<1>. QED
  BY <1>1, <1>2, KeepAdd

(* A file is started after its last byte.                                     *)
LEMMA AllDue ==
  ASSUME TypeOK, WellFormed(file), pos \in DOMAIN file, file[pos].type \in {"goto", "end"}
  PROVE  \A i \in DOMAIN file : \A k \in Bytes(file, i) : Due(i, k)
BY DEF WellFormed, Due

(* A command that was refused changes nothing.                                *)
LEMMA RefusedSame ==
  ASSUME TypeOK, TypeOK', WriteRefused
  PROVE  SameOrders(Commands, Commands')
<1>1. fifo' = fifo /\ reg' = reg /\ fifo \in Seq(Orders)
  BY DEF WriteRefused, TypeOK
<1>2. SameOrders(fifo, fifo')
  BY <1>1, NotesOnly
<1>. QED
  BY <1>1, <1>2, QueueOnly

(* The address of a data record goes out.                                     *)
LEMMA AddressSent ==
  ASSUME SignalInv, SignalInv', Addresses, SendAddress, NEW at, LoadOK(at)
  PROVE  \E nt : LoadOK(nt)'
<1> DEFINE c == Cmd("address", lin + seg + file[pos].offset, "live")
           e == at[Len(Commands) + 1]
<1>1. /\ step = "address" /\ step' = step /\ ~waiting /\ waiting' = TRUE /\ WriteRecord(c)
      /\ file' = file /\ pos' = pos /\ tool' = tool /\ ret' = ret /\ left' = left /\ wr' = wr /\ mem' = mem
  BY DEF SendAddress, Record, fixed, ToolVars, ArmVars
<1>2. TypeOK /\ TypeOK' /\ CallOK
  BY DEF SignalInv
<1>3. /\ pos \in DOMAIN file /\ file[pos].type = "data" /\ left = file[pos].digits /\ Len(left) \in Nat
      /\ lin + seg + file[pos].offset \in Nat
  <2>1. pos \in DOMAIN file /\ file[pos].type = "data" /\ left = file[pos].digits
    BY <1>1, <1>2 DEF CallOK
  <2>2. file[pos].digits \in Digits /\ file[pos].offset \in Nat
    BY <1>2, <2>1, RecordTypes
  <2>3. left \in Seq(Nat)
    BY <2>1, <2>2 DEF Digits
  <2>4. lin \in Nat /\ seg \in Nat
    BY <1>2 DEF TypeOK
  <2>5. lin + seg + file[pos].offset \in Nat
    BY <2>2, <2>4
  <2>. QED
    BY <2>1, <2>3, <2>5
<1>4. c \in Orders /\ c.op = "address" /\ c.arg = lin + seg + file[pos].offset
  BY <1>3, OrderTypes DEF Cmd, Signals
<1>5. \A k \in Bytes(file, pos) : ~Sent(k)'
  <2>1. \A k \in Bytes(file, pos) : k \in Nat
    <3>1. Len(left) \div 2 - 1 \in Int
      BY <1>3
    <3>. QED
      BY <1>3, <3>1 DEF Bytes
  <2>2. \A k \in Nat : ~(2 * (k + 1) + Len(left) <= Len(left))
    <3>1. Len(left) \in Nat
      BY <1>3
    <3>. QED
      BY <3>1
  <2>3. step' = "address" /\ Len(left)' = Len(left) /\ Len(file[pos].digits)' = Len(left)
    BY <1>1, <1>3
  <2>4. \A k : Sent(k)' => 2 * (k + 1) + Len(left) <= Len(left)
    BY <2>3 DEF Sent
  <2>. QED
    BY <2>1, <2>2, <2>4
<1>6. \A i \in DOMAIN file : \A k \in Bytes(file, i) : Due(i, k)' => Due(i, k)
  BY <1>1, <1>5 DEF Due
<1>7. CASE Accepts(c) /\ vain' = FALSE
  <2>1. After(e, c) = lin + seg + file[pos].offset
    BY <1>4 DEF After
  <2>2. At(file, pos, 0) = After(e, c) /\ At(file, pos, 0) \in Nat
    <3>1. At(file, pos, 0) = lin + seg + file[pos].offset + 0
      BY <1>2, <1>3, BaseIs DEF At
    <3>. QED
      BY <1>3, <2>1, <3>1
  <2>3. ASSUME NEW b, b = After(e, c)
        PROVE  NextAddress(b)'
    BY <1>1, <1>3, <2>1, <2>2, <2>3 DEF NextAddress
  <2> HIDE DEF c, e
  <2>. QED
    BY <1>1, <1>2, <1>4, <1>6, <1>7, <2>3, KeepAdd DEF e
<1>8. CASE WriteRefused /\ vain' = TRUE
  <2>1. vain'
    BY <1>8
  <2>2. \A b : NextAddress(b)'
    BY <2>1 DEF NextAddress
  <2>. QED
    BY <1>1, <1>2, <1>6, <1>8, <2>2, RefusedSame, KeepSame
<1>. QED
  BY <1>1, <1>7, <1>8 DEF WriteRecord

(* Where a byte of the next word is in the record's digits.                   *)
LEMMA WordOffsets ==
  ASSUME NEW d \in Nat, NEW l \in Nat, NEW e \in Nat, NEW o \in Nat, NEW a \in Int, NEW n \in Nat,
         l <= d, 2 * (e - o) + l = d, l >= 2 * n, e <= a, a <= e + n - 1
  PROVE  /\ a - o \in Nat /\ a - e \in 0 .. n - 1
         /\ 2 * (a - o) + 2 <= d
         /\ d - l + (2 * (a - e) + 1) = 2 * (a - o) + 1 /\ d - l + (2 * (a - e) + 2) = 2 * (a - o) + 2
         /\ 2 * (a - e) + 1 \in 1 .. l /\ 2 * (a - e) + 2 \in 1 .. l
OBVIOUS

(* A byte that counts as sent only since the last word was taken from the     *)
(* record is in that word.                                                    *)
LEMMA InThisWord ==
  ASSUME NEW e \in Nat, NEW a \in Nat, NEW k \in Nat, NEW n \in Nat, NEW l \in Nat, NEW w \in Nat,
         2 * (e - a) + l = n, 2 * (k + 1) + (l - 2 * w) <= n, ~(2 * (k + 1) + l <= n)
  PROVE  a + k \in e .. e + w - 1
OBVIOUS

(* Two digits that are there are a whole byte.                                *)
LEMMA Halved ==
  ASSUME NEW n \in Nat, NEW k \in Nat, 2 * k + 2 <= n
  PROVE  k <= n \div 2 - 1
OBVIOUS

(* The next word: where the ARM will write it, and what the file says of its  *)
(* bytes.                                                                     *)
LEMMA WordIsRight ==
  ASSUME TypeOK, CallOK, Addresses, WellFormed(file), step = "word", ~waiting, ~vain, NEW e \in Nat, NextAddress(e)
  PROVE  /\ RightWord(file, parseData(SubSeq(left, 1, WordLen)), e)
         /\ 2 * (e - At(file, pos, 0)) + Len(left) = Len(file[pos].digits)
         /\ At(file, pos, 0) \in Nat
<1> DEFINE d == file[pos].digits
           w == parseData(SubSeq(left, 1, WordLen))
           a0 == At(file, pos, 0)
<1>1. /\ pos \in DOMAIN file /\ file[pos].type = "data" /\ d \in Seq(Nat) /\ Len(d) \in Nat
      /\ file[pos].offset \in Nat
  <2>1. pos \in DOMAIN file /\ file[pos].type = "data"
    BY DEF CallOK
  <2>. QED
    BY <2>1, RecordTypes DEF Digits
<1>2. /\ left \in Digits /\ left # <<>> /\ Len(left) <= Len(d) /\ Len(left) \in Nat
      /\ \A k \in 1 .. Len(left) : left[k] = d[Len(d) - Len(left) + k]
  BY DEF CallOK, Digits
<1>3. /\ Len(left) >= WordLen
      /\ SubSeq(left, 1, WordLen) \in Seq(Nat) /\ Len(SubSeq(left, 1, WordLen)) = WordLen
      /\ \A k \in 1 .. WordLen : SubSeq(left, 1, WordLen)[k] = left[k]
  BY <1>2, FirstWord
<1>4. \A k \in 0 .. WordBytes - 1 : w[2 * k + 1] = left[2 * k + 1] /\ w[2 * k] = left[2 * k + 2]
  <2>1. \A k \in 0 .. WordBytes - 1 : /\ w[2 * k + 1] = SubSeq(left, 1, WordLen)[2 * k + 1]
                                      /\ w[2 * k] = SubSeq(left, 1, WordLen)[2 * k + 2]
    BY <1>3, ParsedDigits
  <2>2. \A k \in 0 .. WordBytes - 1 : 2 * k + 1 \in 1 .. WordLen /\ 2 * k + 2 \in 1 .. WordLen
    BY Constants
  <2>. QED
    BY <1>3, <2>1, <2>2
<1>5. Base(file, pos) \in Nat
  BY <1>1, BaseIs DEF TypeOK
<1>6. a0 \in Nat /\ \A k \in Int : At(file, pos, k) = a0 + k
  BY <1>1, <1>5 DEF At
<1>7. 2 * (e - a0) + Len(left) = Len(d)
  BY DEF NextAddress
<1> HIDE DEF d, w, a0
<1>8. ASSUME NEW i \in DOMAIN file, NEW k \in Bytes(file, i), At(file, i, k) \in WordAt(e)
      PROVE  ByteOf(w, e, At(file, i, k)) = Byte(file, i, k)
  <2> DEFINE a == At(file, i, k)
             j == a - e
             l == a - a0
  <2>1. a \in Int /\ e <= a /\ a <= e + WordBytes - 1 /\ WordBytes \in Nat /\ WordLen = 2 * WordBytes
    BY <1>8, Constants DEF WordAt, WordBytes
  <2> HIDE DEF a
  <2>9. /\ Len(d) \in Nat /\ Len(left) \in Nat /\ e \in Nat /\ a0 \in Nat /\ a \in Int /\ WordBytes \in Nat
        /\ Len(left) <= Len(d) /\ 2 * (e - a0) + Len(left) = Len(d) /\ Len(left) >= 2 * WordBytes
        /\ e <= a /\ a <= e + WordBytes - 1
    BY <1>1, <1>2, <1>3, <1>6, <1>7, <2>1
  <2>2. l \in Nat /\ j \in 0 .. WordBytes - 1
    BY <2>9, WordOffsets
  <2>8. /\ 2 * l + 2 <= Len(d)
        /\ Len(d) - Len(left) + (2 * j + 1) = 2 * l + 1 /\ Len(d) - Len(left) + (2 * j + 2) = 2 * l + 2
        /\ 2 * j + 1 \in 1 .. Len(left) /\ 2 * j + 2 \in 1 .. Len(left)
    BY <2>9, WordOffsets
  <2>3. w[2 * j + 1] = d[2 * l + 1] /\ w[2 * j] = d[2 * l + 2]
    <3>1. w[2 * j + 1] = left[2 * j + 1] /\ w[2 * j] = left[2 * j + 2]
      BY <1>4, <2>2
    <3>2. /\ left[2 * j + 1] = d[Len(d) - Len(left) + (2 * j + 1)]
          /\ left[2 * j + 2] = d[Len(d) - Len(left) + (2 * j + 2)]
      BY <1>2, <2>8
    <3>. QED
      BY <2>8, <3>1, <3>2
  <2>4. l \in Bytes(file, pos) /\ At(file, pos, l) = a
    <3>1. l <= Len(d) \div 2 - 1
      BY <1>1, <2>2, <2>8, Halved
    <3>2. At(file, pos, l) = a0 + l /\ a0 + l = a
      BY <1>6, <2>1, <2>2
    <3>3. Len(d) \div 2 - 1 \in Int
      BY <1>1
    <3>4. l \in 0 .. Len(d) \div 2 - 1
      BY <2>2, <3>1, <3>3
    <3>5. Bytes(file, pos) = 0 .. Len(d) \div 2 - 1
      BY <1>1 DEF Bytes, d
    <3>. QED
      BY <3>2, <3>4, <3>5
  <2>5. Byte(file, i, k) = Byte(file, pos, l)
    BY <1>1, <1>8, <2>4 DEF WellFormed, a
  <2>6. Byte(file, pos, l) = <<d[2 * l + 1], d[2 * l + 2]>>
    BY DEF Byte, d
  <2>7. ByteOf(w, e, a) = <<w[2 * j + 1], w[2 * j]>>
    BY DEF ByteOf
  <2>. QED
    BY <2>3, <2>5, <2>6, <2>7 DEF a
<1>. QED
  BY <1>6, <1>7, <1>8 DEF RightWord, w, d, a0

(* The next word goes out.                                                    *)
LEMMA WordSent ==
  ASSUME SignalInv, SignalInv', Addresses, WellFormed(file), SendWord, ~vain, NEW at, LoadOK(at)
  PROVE  \E nt : LoadOK(nt)'
<1> DEFINE c == Cmd("word", parseData(SubSeq(left, 1, WordLen)), "live")
           e == at[Len(Commands) + 1]
           d == file[pos].digits
           a0 == At(file, pos, 0)
<1>1. /\ step = "word" /\ step' = step /\ ~waiting /\ waiting' = TRUE /\ WriteRecord(c)
      /\ left' = SubSeq(left, WordLen + 1, Len(left))
      /\ file' = file /\ pos' = pos /\ tool' = tool /\ ret' = ret /\ wr' = wr /\ mem' = mem
  BY DEF SendWord, fixed, ToolVars, ArmVars
<1>2. TypeOK /\ TypeOK' /\ CallOK
  BY DEF SignalInv
<1>3. /\ pos \in DOMAIN file /\ file[pos].type = "data" /\ tool = "sent" /\ left \in Digits /\ left # <<>>
      /\ Len(d) \in Nat /\ Len(left) \in Nat
  <2>1. pos \in DOMAIN file /\ file[pos].type = "data" /\ tool = "sent" /\ left \in Digits /\ left # <<>>
    BY <1>1, <1>2 DEF CallOK
  <2>2. d \in Digits
    BY <1>2, <2>1, RecordTypes
  <2>. QED
    BY <2>1, <2>2 DEF Digits
<1>4. Len(left') = Len(left) - WordLen /\ Len(left) >= WordLen
  BY <1>1, <1>3, FirstWord
<1>5. c \in Orders /\ c.op = "word" /\ c.arg = parseData(SubSeq(left, 1, WordLen))
  <2>1. parseData(SubSeq(left, 1, WordLen)) \in Words
    BY <1>3, FirstWord, ParsedDigits
  <2>. QED
    BY <2>1, OrderTypes DEF Cmd, Signals
<1>6. e \in Nat /\ NextAddress(e)
  <2>1. at \in [1 .. Len(Commands) + 1 -> Nat] /\ Len(Commands) \in Nat
    BY <1>2, CommandTypes DEF LoadOK, Trail
  <2>. QED
    BY <2>1 DEF LoadOK
<1>7. RightWord(file, c.arg, e) /\ 2 * (e - a0) + Len(left) = Len(d) /\ a0 \in Nat
  BY <1>1, <1>2, <1>5, <1>6, WordIsRight
<1>8. /\ Base(file, pos) \in Nat /\ file[pos].offset \in Nat
      /\ \A k \in Int : At(file, pos, k) = a0 + k
  <2>1. Base(file, pos) \in Nat
    <3>1. Base(file, pos) = lin + seg
      BY <1>2, <1>3, BaseIs
    <3>2. lin \in Nat /\ seg \in Nat
      BY <1>2 DEF TypeOK
    <3>. QED
      BY <3>1, <3>2
  <2>2. file[pos].offset \in Nat
    BY <1>2, <1>3, RecordTypes
  <2>. QED
    BY <2>1, <2>2 DEF At
<1>9. \A k \in Bytes(file, pos) : k \in Nat
  <2>1. Len(d) \div 2 - 1 \in Int
    BY <1>3
  <2>. QED
    BY <1>3, <2>1 DEF Bytes
<1> HIDE DEF c, e, d, a0
<1>10. CASE Accepts(c) /\ vain' = FALSE
  <2>1. After(e, c) = e + WordBytes
    BY <1>5 DEF After
  <2>2. a0' = a0 /\ d' = d /\ At(file, pos, 0)' = a0
    BY <1>1 DEF a0, d, At, Base, LastOf
  <2>3. ASSUME NEW b, b = After(e, c)
        PROVE  NextAddress(b)'
    <3>1. 2 * (b - a0) + Len(left') = Len(d)
      BY <1>3, <1>4, <1>6, <1>7, <2>1, <2>3, Constants
    <3>. QED
      BY <2>2, <3>1 DEF NextAddress, d
  <2>4. ASSUME NEW k \in Bytes(file, pos), Sent(k)', ~Sent(k)
        PROVE  At(file, pos, k) \in WordAt(e)
    <3>1. 2 * (k + 1) + Len(left') <= Len(d)
      BY <1>1, <2>2, <2>4 DEF Sent, d, TypeOK
    <3>3. ~(2 * (k + 1) + Len(left) <= Len(d))
      BY <1>1, <1>3, <2>4 DEF Sent, d
    <3>4. a0 + k \in e .. e + WordBytes - 1
      <4>1. /\ e \in Nat /\ a0 \in Nat /\ k \in Nat /\ Len(d) \in Nat /\ Len(left) \in Nat /\ WordBytes \in Nat
            /\ Len(left') = Len(left) - 2 * WordBytes
        BY <1>3, <1>4, <1>6, <1>7, <1>9, <2>4, Constants
      <4>. QED
        BY <1>7, <3>1, <3>3, <4>1, InThisWord
    <3>. QED
      BY <1>8, <1>9, <3>4 DEF WordAt, WordBytes
  <2>5. \A i \in DOMAIN file : \A k \in Bytes(file, i) :
          Due(i, k)' => Due(i, k) \/ (c.op = "word" /\ At(file, i, k) \in WordAt(e))
    BY <1>1, <1>5, <2>4 DEF Due
  <2>6. c.op = "goto" => \A i \in DOMAIN file : \A k \in Bytes(file, i) : Due(i, k)
    BY <1>5
  <2>. QED
    BY <1>1, <1>2, <1>5, <1>7, <1>10, <2>3, <2>5, <2>6, KeepAdd DEF e
<1>11. CASE WriteRefused /\ vain' = TRUE
  <2>1. vain'
    BY <1>11
  <2>2. \A b : NextAddress(b)'
    BY <2>1 DEF NextAddress
  <2>3. \A i \in DOMAIN file : \A k \in Bytes(file, i) : Due(i, k)' => Due(i, k)
    BY <1>1, <2>1 DEF Due, Sent
  <2>. QED
    BY <1>1, <1>2, <1>11, <2>2, <2>3, RefusedSame, KeepSame
<1>. QED
  BY <1>1, <1>10, <1>11 DEF WriteRecord

(* The driver goes on after a wait, or gives it up.                           *)
LEMMA WakingIsSame ==
  ASSUME TypeOK, TypeOK', reg' = reg, fifo' \in {fifo, Orphaned(fifo), Struck(fifo)}
  PROVE  SameOrders(Commands, Commands')
<1>1. SameOrders(fifo, fifo')
  BY NotesOnly DEF TypeOK
<1>. QED
  BY <1>1, QueueOnly

(* The completion of the address or of a word has come.                       *)
LEMMA WordAwaited ==
  ASSUME SignalInv, SignalInv', NextWord \/ DataSent, ~misled', NEW at, LoadOK(at)
  PROVE  LoadOK(at)'
<1> USE DEF ToolVars, ArmVars, fixed, Refusals
<1> DEFINE e == at[Len(Commands) + 1]
<1>1. /\ TypeOK /\ TypeOK' /\ step \in {"address", "word"} /\ waiting /\ event
      /\ pos \in DOMAIN file /\ file[pos].type = "data" /\ tool = "sent"
      /\ NextAddress(e) /\ ~vain
  BY DEF SignalInv, CallOK, NextWord, DataSent, Wakes, LoadOK
<1>2. CASE NextWord
  <2>1. /\ step' = "word" /\ waiting' = FALSE /\ event' = FALSE /\ fifo' = fifo /\ reg' = reg /\ left' = left
        /\ file' = file /\ pos' = pos /\ tool' = tool /\ wr' = wr /\ mem' = mem
    BY <1>2 DEF NextWord
  <2>2. SameOrders(Commands, Commands')
    BY <1>1, <2>1, WakingIsSame
  <2>3. \A k : Sent(k)' => Sent(k)
    BY <1>1, <2>1 DEF Sent
  <2>4. \A i \in DOMAIN file : \A k \in Bytes(file, i) : Due(i, k)' => Due(i, k)
    BY <2>1, <2>3 DEF Due
  <2>5. ASSUME NEW b, b = e
        PROVE  NextAddress(b)'
    <3>1. 2 * (b - At(file, pos, 0)) + Len(left) = Len(file[pos].digits)
      BY <1>1, <2>5 DEF NextAddress
    <3>2. At(file, pos, 0)' = At(file, pos, 0)
      BY <2>1 DEF At, Base, LastOf
    <3>. QED
      BY <2>1, <3>1, <3>2 DEF NextAddress
  <2>. QED
    BY <1>1, <2>1, <2>2, <2>4, <2>5, KeepSame
<1>3. CASE DataSent
  <2>1. /\ left = <<>> /\ step' = "out" /\ fifo' = Orphaned(fifo) /\ reg' = reg
        /\ file' = file /\ pos' = pos /\ tool' = tool /\ wr' = wr /\ mem' = mem
    BY <1>3 DEF DataSent, Return
  <2>2. SameOrders(Commands, Commands')
    BY <1>1, <2>1, WakingIsSame
  <2>3. \A k \in Bytes(file, pos) : Sent(k)
    <3>1. Len(file[pos].digits) \in Nat
      BY <1>1, RecordTypes DEF Digits
    <3>2. Len(left) = 0
      BY <2>1
    <3>3. \A k \in Bytes(file, pos) : 2 * (k + 1) + Len(left) <= Len(file[pos].digits)
      <4> DEFINE n == Len(file[pos].digits)
      <4>1. Bytes(file, pos) = 0 .. n \div 2 - 1
        BY <1>1 DEF Bytes
      <4> HIDE DEF n
      <4>2. n \in Nat
        BY <3>1 DEF n
      <4>3. \A k \in 0 .. n \div 2 - 1 : 2 * (k + 1) + 0 <= n
        BY <4>2
      <4>. QED
        BY <3>2, <4>1, <4>3 DEF n
    <3>. QED
      BY <1>1, <3>3 DEF Sent
  <2>4. \A i \in DOMAIN file : \A k \in Bytes(file, i) : Due(i, k)' => Due(i, k)
    BY <2>1, <2>3 DEF Due
  <2>5. \A b : NextAddress(b)'
    BY <2>1 DEF NextAddress
  <2>. QED
    BY <1>1, <2>1, <2>2, <2>4, <2>5, KeepSame
<1>. QED
  BY <1>2, <1>3

(* cnxadslload goes from record to record.                                    *)
LEMMA ToolKeeps ==
  ASSUME SignalInv, SignalInv', Rests, WellFormed(file), Tool, NEW at, LoadOK(at)
  PROVE  \E nt : LoadOK(nt)'
<1> USE DEF ToolVars, CallVars, CmdVars, Handlers, ArmVars, fixed, Refusals
<1>1. TypeOK /\ TypeOK' /\ CallOK
  BY DEF SignalInv
<1>2. ASSUME UNCHANGED <<file, wr, mem, fifo, reg>>,
             \A i \in DOMAIN file : \A k \in Bytes(file, i) : Due(i, k)' => Due(i, k),
             \A e : NextAddress(e)'
      PROVE  LoadOK(at)'
  <2>1. SameOrders(Commands, Commands')
    BY <1>1, <1>2, WakingIsSame
  <2>. QED
    BY <1>1, <1>2, <2>1, KeepSame
<1>3. CASE LoadStart
  <2>1. /\ pos' = 1 /\ tool' = "read" /\ step' = "out" /\ UNCHANGED <<file, wr, mem, fifo, reg>>
    BY <1>1, <1>3 DEF LoadStart, CallOK, TypeOK, Steps
  <2>2. DOMAIN file = 1 .. Len(file)
    BY <1>1, RecordTypes
  <2>3. \A i \in DOMAIN file : \A k \in Bytes(file, i) : Due(i, k)' => Due(i, k)
    BY <2>1, <2>2 DEF Due, Sent
  <2>4. \A e : NextAddress(e)'
    BY <2>1 DEF NextAddress
  <2>. QED
    BY <1>2, <2>1, <2>3, <2>4
<1>4. CASE ReadAddress
  <2>1. /\ pos' = pos + 1 /\ tool' = "read" /\ step' = "out" /\ UNCHANGED <<file, wr, mem, fifo, reg>>
        /\ file[pos].type # "data"
    BY <1>1, <1>4 DEF ReadAddress, Reads, Record, CallOK, TypeOK, Steps
  <2>2. Bytes(file, pos) = {}
    BY <2>1 DEF Bytes
  <2>3. \A i \in DOMAIN file : i < pos' => i < pos \/ i = pos
    BY <1>1, <2>1, RecordTypes DEF TypeOK
  <2>4. \A i \in DOMAIN file : \A k \in Bytes(file, i) : Due(i, k)' => Due(i, k)
    BY <2>1, <2>2, <2>3 DEF Due, Sent
  <2>5. \A e : NextAddress(e)'
    BY <2>1 DEF NextAddress
  <2>. QED
    BY <1>2, <2>1, <2>4, <2>5
<1>5. CASE ReadData
  <2>1. /\ pos' = pos /\ step' = "address" /\ left' = file[pos].digits /\ UNCHANGED <<file, wr, mem, fifo, reg, waiting>>
        /\ file[pos].type = "data" /\ step = "out" /\ ~waiting /\ pos \in DOMAIN file
    <3>1. step = "out"
      BY <1>1, <1>5 DEF ReadData, Reads, Record, CallOK, TypeOK, Steps
    <3>2. pos \in DOMAIN file
      BY <1>1, <1>5, RecordTypes DEF ReadData, Reads, TypeOK
    <3>. QED
      BY <1>5, <3>1, <3>2 DEF ReadData, Reads, Record, Rests
  <2>2. \A k \in Bytes(file, pos) : k \in Nat
    <3>1. Len(file[pos].digits) \div 2 - 1 \in Int
      BY <1>1, <2>1, RecordTypes DEF Digits
    <3>. QED
      BY <2>1, <3>1 DEF Bytes
  <2>3. \A k \in Bytes(file, pos) : ~Sent(k)'
    <3>1. Len(file[pos].digits) \in Nat
      BY <1>1, <2>1, RecordTypes DEF Digits
    <3>. QED
      BY <2>1, <2>2, <3>1 DEF Sent
  <2>4. \A i \in DOMAIN file : \A k \in Bytes(file, i) : Due(i, k)' => Due(i, k)
    BY <2>1, <2>3 DEF Due
  <2>5. \A e : NextAddress(e)'
    BY <2>1 DEF NextAddress
  <2>. QED
    BY <1>2, <2>1, <2>4, <2>5
<1>6. CASE ReadGoto
  <2> DEFINE c == Cmd("goto", file[pos].value, "none")
  <2>1. /\ pos' = pos /\ step' = "out" /\ UNCHANGED <<file, wr, mem>> /\ step = "out"
        /\ file[pos].type = "goto" /\ pos \in DOMAIN file
    <3>1. step = "out"
      BY <1>1, <1>6 DEF ReadGoto, Reads, Record, CallOK, TypeOK, Steps
    <3>2. pos \in DOMAIN file
      BY <1>1, <1>6, RecordTypes DEF ReadGoto, Reads, TypeOK
    <3>. QED
      BY <1>6, <3>1, <3>2 DEF ReadGoto, Reads, Record
  <2>2. Bytes(file, pos) = {}
    BY <2>1 DEF Bytes
  <2>3. CASE Accepts(c)
    <3>1. c \in Orders /\ c.op = "goto"
      BY <1>1, <2>1, RecordTypes, OrderTypes DEF Cmd, Signals
    <3>2. \A i \in DOMAIN file : \A k \in Bytes(file, i) : Due(i, k)
      BY <1>1, <2>1, AllDue
    <3> HIDE DEF c
    <3>. QED
      BY <1>1, <2>1, <2>2, <2>3, <3>1, <3>2, KeepOther
  <2>4. CASE WriteRefused
    BY <1>1, <2>1, <2>2, <2>4, RefusedSame, KeepQuiet
  <2>. QED
    BY <1>6, <2>3, <2>4 DEF ReadGoto, Record
<1>7. ASSUME pos' = pos, tool' # "sent", step' \notin {"address", "word"}, UNCHANGED <<file, wr, mem, fifo, reg>>
      PROVE  LoadOK(at)'
  <2>1. SameOrders(Commands, Commands')
    BY <1>1, <1>7, WakingIsSame
  <2>. QED
    BY <1>1, <1>7, <2>1, KeepQuiet
<1>8. CASE ReadEnd \/ ReadFails \/ LoadDone \/ Killed
  <2>1. step' \notin {"address", "word"}
    BY <1>1, <1>8 DEF ReadEnd, ReadFails, LoadDone, Killed, CallOK, Reads
  <2>. QED
    BY <1>7, <1>8, <2>1 DEF ReadEnd, ReadFails, LoadDone, Killed
<1>9. CASE RecordDone
  <2>1. CASE ret
    <3>1. /\ pos' = pos + 1 /\ tool' = "read" /\ step' = "out" /\ UNCHANGED <<file, wr, mem, fifo, reg>>
          /\ step = "out" /\ tool = "sent"
      BY <1>9, <2>1 DEF RecordDone
    <3>2. \A i \in DOMAIN file : i < pos' => i < pos \/ i = pos
      BY <1>1, <3>1, RecordTypes DEF TypeOK
    <3>3. \A i \in DOMAIN file : \A k \in Bytes(file, i) : Due(i, k)' => Due(i, k)
      BY <2>1, <3>1, <3>2 DEF Due, Sent
    <3>4. \A e : NextAddress(e)'
      BY <3>1 DEF NextAddress
    <3>. QED
      BY <1>2, <3>1, <3>3, <3>4
  <2>2. CASE ~ret
    BY <1>7, <1>9, <2>2 DEF RecordDone
  <2>. QED
    BY <2>1, <2>2
<1>. QED
  BY <1>3, <1>4, <1>5, <1>6, <1>8, <1>9 DEF Tool

(* ARMALStartArm and ARMALInitIo send no data.                                *)
LEMMA StartKeeps ==
  ASSUME SignalInv, SignalInv', WellFormed(file),
         \/ SendGoto \/ AskForRoutine \/ SendRead \/ GotRoutine \/ SendExtend \/ Started
         \/ SendPin \/ SendLastPin \/ NotifyArmReady \/ SendConf \/ Ready \/ Timeout,
         NEW at, LoadOK(at)
  PROVE  \E nt : LoadOK(nt)'
<1> USE DEF ToolVars, CallVars, CmdVars, Handlers, ArmVars, fixed, Refusals
<1>1. TypeOK /\ TypeOK' /\ CallOK
  BY DEF SignalInv
<1>2. UNCHANGED <<file, wr, mem, pos, tool>>
  BY DEF SendGoto, AskForRoutine, SendRead, GotRoutine, SendExtend, Started,
         SendPin, SendLastPin, NotifyArmReady, SendConf, Ready, Timeout
<1>3. ASSUME NEW op \in {"goto", "read", "extend", "pin", "conf"}, NEW n \in {"none", "live"},
             ChipALWrite(Cmd(op, 0, n)), step \in {"goto", "read", "extend", "pins", "conf"}, step' = step
      PROVE  \E nt : LoadOK(nt)'
  <2> DEFINE c == Cmd(op, 0, n)
  <2>1. c \in Orders /\ c.op = op
    BY OrderTypes DEF Cmd, Signals
  <2>2. tool = "starting" /\ pos \in DOMAIN file /\ file[pos].type = "end"
    BY <1>1, <1>3 DEF CallOK
  <2>3. \A i \in DOMAIN file : \A k \in Bytes(file, i) : Due(i, k)
    BY <1>1, <2>2, AllDue
  <2>4. CASE Accepts(c)
    <3> HIDE DEF c
    <3>. QED
      BY <1>1, <1>2, <1>3, <2>1, <2>2, <2>3, <2>4, KeepOther
  <2>5. CASE WriteRefused
    BY <1>1, <1>2, <1>3, <2>2, <2>5, RefusedSame, KeepQuiet
  <2>. QED
    BY <1>3, <2>4, <2>5 DEF ChipALWrite
<1>4. CASE SendGoto \/ SendRead \/ SendExtend \/ SendPin \/ SendLastPin \/ SendConf
  BY <1>3, <1>4 DEF SendGoto, SendRead, SendExtend, SendPin, SendLastPin, SendConf, ChipALWrite
<1>5. CASE AskForRoutine \/ Started \/ NotifyArmReady
  <2>1. /\ reg' = reg /\ fifo' \in {fifo, Orphaned(fifo), Struck(fifo)} /\ step' \notin {"address", "word"}
        /\ step \in {"goto", "extend", "pins"}
    BY <1>5 DEF AskForRoutine, Started, NotifyArmReady, Struck
  <2>2. tool' # "sent"
    BY <1>1, <1>2, <2>1 DEF CallOK
  <2>. QED
    BY <1>1, <1>2, <2>1, <2>2, WakingIsSame, KeepQuiet
<1>6. CASE GotRoutine \/ Ready
  <2>1. /\ reg' = reg /\ fifo' \in {fifo, Orphaned(fifo)} /\ step' \notin {"address", "word"}
        /\ step \in {"read", "conf"}
    BY <1>6 DEF GotRoutine, Ready, Return
  <2>2. tool' # "sent"
    BY <1>1, <1>2, <2>1 DEF CallOK
  <2>. QED
    BY <1>1, <1>2, <2>1, <2>2, WakingIsSame, KeepQuiet
<1>7. CASE Timeout
  <2>1. reg' = reg /\ fifo' = Orphaned(fifo) /\ step' = "out" /\ ret' = FALSE
    BY <1>7 DEF Timeout, Return
  <2>. QED
    BY <1>1, <1>2, <2>1, WakingIsSame, KeepQuiet
<1>. QED
  BY <1>4, <1>5, <1>6, <1>7

(* Interrupts move commands; the ARM executes them.                           *)
LEMMA ServedKeeps ==
  ASSUME SignalInv, SignalInv', Interrupt \/ Arm, NEW at, LoadOK(at)
  PROVE  (\E nt : LoadOK(nt)') /\ (ran' # ran => HoldsFile(mem, file))
<1> USE DEF ToolVars, CallVars, fixed, Refusals
<1> DEFINE e == at[Len(Commands) + 1]
<1>1. TypeOK /\ TypeOK' /\ NextAddress(e)
  BY DEF SignalInv, LoadOK
<1>2. UNCHANGED <<file, pos, tool, ret, step, waiting, left>>
  BY DEF Interrupt, WriteNextCommand, ARMSyncRoutine, Arm
<1>3. vain' = vain
  BY DEF Interrupt, WriteNextCommand, ARMSyncRoutine, Arm
<1>4. \A i \in DOMAIN file : \A k \in Bytes(file, i) : Due(i, k)' => Due(i, k)
  BY <1>2, <1>3 DEF Due, Sent
<1>5. ASSUME NEW b, b = e
      PROVE  NextAddress(b)'
  <2>1. At(file, pos, 0)' = At(file, pos, 0)
    BY <1>2 DEF At, Base, LastOf
  <2>. QED
    BY <1>1, <1>2, <1>3, <1>5, <2>1 DEF NextAddress
<1>6. CASE Interrupt
  <2>1. UNCHANGED <<wr, mem, ran>>
    BY <1>6 DEF Interrupt, WriteNextCommand, ARMSyncRoutine, ArmVars
  <2>2. SameOrders(Commands, Commands')
    BY <1>1, <1>6, NextIsSame, WakingIsSame DEF Interrupt, ARMSyncRoutine
  <2> HIDE DEF e
  <2>. QED
    BY <1>1, <1>2, <1>4, <1>5, <2>1, <2>2, KeepSame DEF e
<1>7. CASE Arm
  <2> HIDE DEF e
  <2>. QED
    BY <1>1, <1>2, <1>4, <1>5, <1>7, KeepArm DEF e
<1>. QED
  BY <1>6, <1>7

(* The invariant of the memory holds at the beginning,                        *)
LEMMA LoadBegins ==
  ASSUME Init
  PROVE  LoadInv
<1> DEFINE at == [i \in 1 .. 1 |-> 0]
<1>1. /\ reg = <<>> /\ fifo = <<>> /\ tool = "idle" /\ step = "out" /\ ~waiting /\ pos = 1 /\ wr = 0 /\ seg = 0 /\ lin = 0
  BY DEF Init
<1>2. SignalInv /\ Rests
  BY <1>1, SignalStart DEF Rests
<1>3. Addresses
  BY <1>1, FirstOf DEF Addresses
<1>4. Commands = <<>> /\ Len(Commands) = 0 /\ DOMAIN Commands = {}
  BY <1>1, ConcatEmptySeq DEF Commands
<1>5. at \in [1 .. Len(Commands) + 1 -> Nat] /\ at[1] = wr
  BY <1>1, <1>4
<1> HIDE DEF at
<1>6. Trail(Commands, wr, at) /\ RightWords(file, Commands, at) /\ StartsAfter(file, Commands, at, mem)
  BY <1>4, <1>5 DEF Trail, RightWords, StartsAfter
<1>7. SentWords(Commands, at)
  <2>1. DOMAIN file = 1 .. Len(file)
    BY <1>2, RecordTypes DEF SignalInv
  <2>. QED
    BY <1>1, <2>1 DEF SentWords, Due, Sent
<1>8. NextAddress(at[Len(Commands) + 1])
  BY <1>1 DEF NextAddress
<1>. QED
  BY <1>2, <1>3, <1>6, <1>7, <1>8 DEF LoadInv, LoadOK

(* and every step keeps it.                                                   *)
LEMMA LoadStep ==
  ASSUME LoadInv, WellFormed(file), [Next]_vars
  PROVE  LoadInv' /\ (ran' # ran => HoldsFile(mem, file) \/ misled)
<1>1. /\ SignalInv /\ SignalInv' /\ Rests /\ Rests' /\ Addresses /\ Addresses'
      /\ misled => misled'
  BY SignalStep, RestKept, AddressesKept, FaultStays DEF LoadInv, SignalInv
<1>2. CASE misled
  BY <1>1, <1>2 DEF LoadInv
<1>3. ASSUME ~misled, NEW at, LoadOK(at)
      PROVE  (misled' \/ \E nt : LoadOK(nt)') /\ (ran' # ran => HoldsFile(mem, file))
  <2>1. CASE UNCHANGED vars
    <3>1. LoadOK(at)'
      BY <1>3, <2>1 DEF vars, fixed, ToolVars, CallVars, CmdVars, ArmVars, Refusals, LoadOK, Commands, SentWords,
                        Due, Sent, NextAddress
    <3>2. ran' = ran
      BY <2>1 DEF vars, ArmVars
    <3>. QED
      BY <3>1, <3>2
  <2>2. CASE Interrupt \/ Arm
    BY <1>1, <1>3, <2>2, ServedKeeps
  <2>3. CASE Tool \/ Driver
    <3>1. misled' \/ \E nt : LoadOK(nt)'
      <4>1. CASE SendWord
        <5>1. ~vain
          BY <1>1, <1>3, <4>1 DEF Rests, SendWord
        <5>. QED
          BY <1>1, <1>3, <4>1, <5>1, WordSent
      <4>2. CASE NextWord \/ DataSent
        BY <1>1, <1>3, <4>2, WordAwaited
      <4>3. CASE Tool \/ SendAddress
        BY <1>1, <1>3, <4>3, ToolKeeps, AddressSent
      <4>4. CASE \/ SendGoto \/ AskForRoutine \/ SendRead \/ GotRoutine \/ SendExtend \/ Started
                 \/ SendPin \/ SendLastPin \/ NotifyArmReady \/ SendConf \/ Ready \/ Timeout
        BY <1>1, <1>3, <4>4, StartKeeps
      <4>. QED
        BY <2>3, <4>1, <4>2, <4>3, <4>4 DEF Driver
    <3>2. ran' = ran
      <4>1. CASE Tool
        BY <4>1 DEF ArmVars, Tool, LoadStart, ReadAddress, ReadData, ReadGoto, ReadEnd, ReadFails, RecordDone, LoadDone, Killed
      <4>2. CASE SendAddress \/ NextWord \/ SendWord \/ DataSent
        BY <4>2 DEF ArmVars, SendAddress, NextWord, SendWord, DataSent
      <4>3. CASE SendGoto \/ AskForRoutine \/ SendRead \/ GotRoutine \/ SendExtend \/ Started
        BY <4>3 DEF ArmVars, SendGoto, AskForRoutine, SendRead, GotRoutine, SendExtend, Started
      <4>4. CASE SendPin \/ SendLastPin \/ NotifyArmReady \/ SendConf \/ Ready \/ Timeout
        BY <4>4 DEF ArmVars, SendPin, SendLastPin, NotifyArmReady, SendConf, Ready, Timeout
      <4>. QED
        BY <2>3, <4>1, <4>2, <4>3, <4>4 DEF Driver
    <3>. QED
      BY <3>1, <3>2
  <2>. QED
    BY <2>1, <2>2, <2>3 DEF Next
<1>. QED
  BY <1>1, <1>2, <1>3 DEF LoadInv

(* The memory holds the whole file whenever a program is started, if each     *)
(* file says one thing of every byte and says it before it says where to      *)
(* start, and no stale completion has passed for that of a refused command of *)
(* a record.                                                                  *)
THEOREM LoadedBeforeStart ==
  ASSUME \A f \in Files : WellFormed(f)
  PROVE  Spec => StartsWhatWasLoaded
<1>1. LoadInv => WellFormed(file)
  BY DEF LoadInv, SignalInv, TypeOK
<1>2. LoadInv /\ [Next]_vars => LoadInv' /\ (ran' # ran => HoldsFile(mem, file) \/ misled)
  BY <1>1, LoadStep
<1>3. LoadInv /\ [Next]_vars => LoadInv' /\ [ran' # ran => HoldsFile(mem, file) \/ misled]_vars
  BY <1>2
<1>. QED
  BY <1>3, LoadBegins, PTL DEF Spec, StartsWhatWasLoaded
================================================================================
