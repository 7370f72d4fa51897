-------------------------------- MODULE ArmLoad --------------------------------
(* Loading the firmware (DownLoadApp/cnxadslload.c, ARMAbstract.c and the     *)
(* events of LnxTools.c).  The program cnxadslload reads a file of Intel hex  *)
(* records and passes its data records to the driver, one ioctl each; the     *)
(* driver sends the ARM an address and then word after word, and waits for    *)
(* the completion of each command before the next.  At the end it starts what *)
(* was loaded, asks it for its command routine, sets up the I/O pins, reports *)
(* the configuration complete and gives the firmware its go.                  *)
(* Every wait is on an event in the stack frame of the function that waits.   *)
(* It is signalled by the completion of a command (when the command is        *)
(* written to the register) or by the handler of a response, both of which    *)
(* keep a pointer to it.  A wait ends after a second at the latest, and as    *)
(* soon as cnxadslload gets a signal; both leave the pointers behind.         *)
(* The command path is the channel that ArmIo implements: the register and    *)
(* the queue before it.  The ARM is external.                                 *)
EXTENDS Integers, Sequences

CONSTANTS Files,      \* the firmware files, sequences of records
          Pins,       \* the commands that set up the pins, before the last of them
          Faults,     \* what may go wrong: "late", "signal", "memory", "dud"
          MaxTries,   \* bound: runs of cnxadslload
          MaxRefused, \* bound: commands refused for want of memory
          WordLen     \* digits of a word (8): a word is half as many bytes

(* A data record is made of whole words: the driver counts its bytes by words.*)
Digits  == {d \in Seq(Nat) : Len(d) % WordLen = 0}
Records == [type : {"data"}, offset : Nat, digits : Digits]
             \cup [type : {"segment", "linear", "goto"}, value : Nat]
             \cup [type : {"end", "other"}]

ASSUME ArmLoadAssumption ==
  /\ Faults \subseteq {"late", "signal", "memory", "dud"}
  /\ {Pins, MaxTries, MaxRefused} \subseteq Nat
  /\ WordLen \in {n \in Nat : n > 0 /\ n % 2 = 0}
  /\ Files \subseteq Seq(Records)

VARIABLES faults,   \* what may go wrong this time, in any combination
          file,     \* the file
          tool,     \* what cnxadslload does
          pos,      \* the record it reads next
          seg, lin, \* dwSegAddr, dwLinAddr
          ret,      \* whether the last ioctl succeeded
          step,     \* what the driver does; "out": no ioctl is being executed
          waiting,  \* it waits for the completion
          left,     \* digits of the data record it has not sent, or pins
          event,    \* SetFlag of the event waited for
          fifo,     \* commands that wait for the register
          reg,      \* the command register, a sequence of at most one
          onRead,   \* what the handler of the read response signals
          onConf,   \* what that of the configuration response signals
          routine,  \* whether Resp2 of the read is an address, not 0
          resp,     \* responses of the ARM on their way to the handlers
          wr,       \* ARM: where the next word is written
          mem,      \* ARM: its memory, by bytes
          ran,      \* ARM: how often a program was started
          conf,     \* ARM: it has seen that the configuration is complete
          go,       \* the firmware has its go
          dead,     \* an event was signalled whose function had returned
          vain,     \* the last command of a data record was refused
          cut,      \* history: a wait was given up before the ARM had done all
          misled,   \* history: a refused command of a record passed for written
          tries, refused

ToolVars == <<tool, pos, seg, lin, ret, tries>>
CallVars == <<step, waiting, left>>
CmdVars  == <<fifo, reg, event, refused>>
Handlers == <<onRead, onConf, routine>>
ArmVars  == <<wr, mem, ran, conf>>
Refusals == <<vain, misled>>
fixed    == <<faults, file>>
vars     == <<fixed, ToolVars, CallVars, CmdVars, Handlers, resp, ArmVars, go, dead,
              Refusals, cut>>

(* Whom a completion or a handler signals: nobody, the function that waits,   *)
(* or a function that has returned.                                           *)
Signals == {"none", "live", "dead"}

Init ==
  /\ faults \in SUBSET Faults /\ file \in Files
  /\ tool = "idle" /\ pos = 1 /\ seg = 0 /\ lin = 0 /\ ret = TRUE /\ tries = 0
  /\ step = "out" /\ waiting = FALSE /\ left = <<>>
  /\ fifo = <<>> /\ reg = <<>> /\ event = FALSE /\ refused = 0
  /\ onRead = "none" /\ onConf = "none" /\ routine = FALSE /\ resp = {}
  /\ wr = 0 /\ mem = <<>> /\ ran = 0 /\ conf = FALSE
  /\ go = FALSE /\ dead = FALSE /\ vain = FALSE /\ cut = FALSE /\ misled = FALSE
-------------------------------------------------------------------------------
(* Commands and events.                                                       *)

Cmd(op, arg, note) == [op |-> op, arg |-> arg, note |-> note]

(* What SET_EVENT through a pointer does: one to the frame of a function that *)
(* has returned may point to the event that is waited for now.                *)
Signal(note) ==
  /\ event' \in CASE note = "none" -> {event}
                  [] note = "live" -> {TRUE}
                  [] note = "dead" -> {event, step # "out"}
  /\ dead' = (dead \/ note = "dead")

(* ChipALWrite of a command: written at once, and its completion called, if   *)
(* nothing waits and the register is empty; queued otherwise; refused if      *)
(* there is no memory for the queue.                                          *)
WriteNow(c) ==
  /\ fifo = <<>> /\ reg = <<>>
  /\ reg' = <<c>> /\ Signal(c.note) /\ UNCHANGED <<fifo, refused>>
WriteQueue(c) ==
  /\ fifo # <<>> \/ reg # <<>>
  /\ fifo' = Append(fifo, c) /\ UNCHANGED <<reg, event, refused, dead>>
WriteRefused ==
  /\ fifo # <<>> \/ reg # <<>>
  /\ "memory" \in faults /\ refused < MaxRefused
  /\ refused' = refused + 1 /\ UNCHANGED <<fifo, reg, event, dead>>
Accepts(c)     == WriteNow(c) \/ WriteQueue(c)
ChipALWrite(c) == Accepts(c) \/ WriteRefused

(* Once the function that waits has returned, nobody is there to be signalled.*)
Gone(note)    == IF note = "live" THEN "dead" ELSE note
Orphaned(cmds) == [i \in DOMAIN cmds |-> [cmds[i] EXCEPT !.note = Gone(@)]]

(* A wait ends without the event when its second is over (not before the ARM  *)
(* has done all it was given, unless the ARM is late) and, whatever the ARM   *)
(* does, when the program that waits gets a signal.                           *)
UnderWay    == fifo # <<>> \/ reg # <<>> \/ resp # {}
TimesOut    == waiting /\ ~event /\ ("late" \in faults \/ ~UnderWay)
Interrupted == waiting /\ ~event /\ "signal" \in faults
GivesUp     == (TimesOut \/ Interrupted) /\ cut' = (cut \/ UnderWay)
Wakes       == waiting /\ event

(* An ioctl returns to cnxadslload.                                           *)
Return(status) ==
  /\ step' = "out" /\ waiting' = FALSE /\ left' = <<>> /\ ret' = status
  /\ fifo' = Orphaned(fifo) /\ onConf' = Gone(onConf) /\ event' = FALSE
  /\ UNCHANGED <<reg, refused>>
-------------------------------------------------------------------------------
(* cnxadslload.                                                               *)

(* TIG_LOAD_START: the driver finds out nothing about the ARM, since the      *)
(* command that would ask it is not written (the handler it adds for a        *)
(* millisecond has nothing to wait for), and always wants a download, also    *)
(* after one that was completed: the driver takes loads until DSL has started.*)
LoadStart ==
  /\ tool \in {"idle", "failed", "loaded"} /\ tries < MaxTries
  /\ tries' = tries + 1
  /\ tool' = "read" /\ pos' = 1 /\ seg' = 0 /\ lin' = 0
  /\ UNCHANGED <<fixed, ret, CallVars, CmdVars, Handlers, resp, ArmVars, go,
                 dead, Refusals, cut>>

Record == file[pos]
Reads(type) == tool = "read" /\ pos <= Len(file) /\ Record.type = type

ReadAddress ==
  /\ \/ Reads("segment") /\ seg' = 16 * Record.value /\ UNCHANGED lin
     \/ Reads("linear")  /\ lin' = 65536 * Record.value /\ UNCHANGED seg
  /\ pos' = pos + 1
  /\ UNCHANGED <<fixed, tool, ret, tries, CallVars, CmdVars, Handlers, resp, ArmVars, go,
                 dead, Refusals, cut>>

ReadData ==
  /\ Reads("data")
  /\ tool' = "sent" /\ step' = "address" /\ left' = Record.digits
  /\ UNCHANGED <<fixed, pos, seg, lin, ret, tries, waiting, CmdVars, Handlers, resp,
                 ArmVars, go, dead, Refusals, cut>>

(* TIG_LOAD_RECORD of a start address: one command, and no wait.              *)
ReadGoto ==
  /\ Reads("goto")
  /\ \/ Accepts(Cmd("goto", Record.value, "none")) /\ ret' = TRUE
     \/ WriteRefused /\ ret' = FALSE
  /\ tool' = "sent"
  /\ UNCHANGED <<fixed, pos, seg, lin, tries, CallVars, Handlers, resp, ArmVars, go, Refusals, cut>>

ReadEnd ==
  /\ Reads("end")
  /\ tool' = "starting" /\ step' = "goto"
  /\ UNCHANGED <<fixed, pos, seg, lin, ret, tries, waiting, left, CmdVars, Handlers, resp,
                 ArmVars, go, dead, Refusals, cut>>

(* The file ends without an end record, or has one of another type.           *)
ReadFails ==
  /\ tool = "read"
  /\ pos <= Len(file) => Record.type \notin {"data", "segment", "linear", "goto", "end"}
  /\ tool' = "failed"
  /\ UNCHANGED <<fixed, pos, seg, lin, ret, tries, CallVars, CmdVars, Handlers, resp,
                 ArmVars, go, dead, Refusals, cut>>

(* Mutant: the next record is sent although this one failed.                  *)
RecordDone_GoesOn ==
  /\ tool = "sent" /\ step = "out"
  /\ tool' = "read" /\ pos' = pos + 1
  /\ UNCHANGED <<fixed, seg, lin, ret, tries, CallVars, CmdVars, Handlers, resp,
                 ArmVars, go, dead, Refusals, cut>>

RecordDone ==
  /\ tool = "sent" /\ step = "out"
  /\ IF ret THEN tool' = "read" /\ pos' = pos + 1
            ELSE tool' = "failed" /\ UNCHANGED pos
  /\ UNCHANGED <<fixed, seg, lin, ret, tries, CallVars, CmdVars, Handlers, resp,
                 ArmVars, go, dead, Refusals, cut>>

(* TIG_LOAD_DONE has returned; TIG_START_DSL is the driver module's.          *)
LoadDone ==
  /\ tool = "starting" /\ step = "out"
  /\ tool' = IF ret THEN "loaded" ELSE "failed"
  /\ UNCHANGED <<fixed, pos, seg, lin, ret, tries, CallVars, CmdVars, Handlers, resp,
                 ArmVars, go, dead, Refusals, cut>>

(* A signal ends the program; an ioctl that is executed returns first.        *)
Killed ==
  /\ "signal" \in faults /\ tool \in {"read", "sent", "starting"} /\ step = "out"
  /\ tool' = "failed"
  /\ UNCHANGED <<fixed, pos, seg, lin, ret, tries, CallVars, CmdVars, Handlers, resp,
                 ArmVars, go, dead, Refusals, cut>>

Tool == \/ LoadStart \/ ReadAddress \/ ReadData \/ ReadGoto \/ ReadEnd \/ ReadFails
        \/ RecordDone \/ LoadDone \/ Killed
-------------------------------------------------------------------------------
(* processDataRec.                                                            *)

(* Its status is overwritten by that of the wait: a command that is refused is*)
(* waited for as well.                                                        *)
WriteRecord(c) ==
  \/ Accepts(c)   /\ vain' = FALSE
  \/ WriteRefused /\ vain' = TRUE

(* The number a word's digits stand for, as its digits by weight: the table   *)
(* uShift gives the first digit the weight 1, the second the weight 0, ...    *)
parseData(d) ==
  LET uShift(i) == IF i % 2 = 0 THEN i + 1 ELSE i - 1
  IN  [k \in 0 .. WordLen - 1 |-> d[1 + CHOOSE i \in 0 .. WordLen - 1 : uShift(i) = k]]

SendAddress ==
  /\ step = "address" /\ ~waiting
  /\ WriteRecord(Cmd("address", lin + seg + Record.offset, "live"))
  /\ waiting' = TRUE
  /\ UNCHANGED <<fixed, ToolVars, step, left, Handlers, resp, ArmVars, go, misled, cut>>

(* The event is reset before each word.                                       *)
NextWord ==
  /\ step \in {"address", "word"} /\ Wakes /\ left # <<>>
  /\ step' = "word" /\ waiting' = FALSE /\ event' = FALSE
  /\ misled' = (misled \/ vain)
  /\ UNCHANGED <<fixed, ToolVars, left, fifo, reg, refused, Handlers, resp, ArmVars, go,
                 dead, vain, cut>>

SendWord ==
  /\ step = "word" /\ ~waiting
  /\ WriteRecord(Cmd("word", parseData(SubSeq(left, 1, WordLen)), "live"))
  /\ left' = SubSeq(left, WordLen + 1, Len(left))
  /\ waiting' = TRUE
  /\ UNCHANGED <<fixed, ToolVars, step, Handlers, resp, ArmVars, go, misled, cut>>

(* Mutant: the record is done when its last word was sent.                    *)
DataSent_DoesNotWait ==
  /\ step \in {"address", "word"} /\ left = <<>> /\ waiting
  /\ Return(TRUE)
  /\ misled' = (misled \/ vain)
  /\ UNCHANGED <<fixed, tool, pos, seg, lin, tries, onRead, routine, resp, ArmVars, go, dead,
                 vain, cut>>

DataSent ==
  /\ step \in {"address", "word"} /\ Wakes /\ left = <<>>
  /\ Return(TRUE)
  /\ misled' = (misled \/ vain)
  /\ UNCHANGED <<fixed, tool, pos, seg, lin, tries, onRead, routine, resp, ArmVars, go, dead,
                 vain, cut>>
-------------------------------------------------------------------------------
(* ARMALStartArm.                                                             *)

(* The commands it sends and waits for: the function goes from the first to   *)
(* the last of them.                                                          *)
SendGoto ==
  /\ step = "goto" /\ ~waiting
  /\ ChipALWrite(Cmd("goto", 0, "live"))
  /\ waiting' = TRUE
  /\ UNCHANGED <<fixed, ToolVars, step, left, Handlers, resp, ArmVars, go, Refusals, cut>>

(* RESET_EVENT; the handler of the response is added and Resp2 set to 0.      *)
AskForRoutine ==
  /\ step = "goto" /\ Wakes
  /\ step' = "read" /\ waiting' = FALSE /\ event' = FALSE
  /\ onRead' = "live" /\ routine' = FALSE
  /\ UNCHANGED <<fixed, ToolVars, left, fifo, reg, refused, onConf, resp, ArmVars, go, dead,
                 Refusals, cut>>

SendRead ==
  /\ step = "read" /\ ~waiting
  /\ ChipALWrite(Cmd("read", 0, "none"))
  /\ waiting' = TRUE
  /\ UNCHANGED <<fixed, ToolVars, step, left, Handlers, resp, ArmVars, go, Refusals, cut>>

(* The handler is removed; the address must not be 0, as it is if the firmware*)
(* is a dud and says so, or if something else than the response woke it.      *)
GotRoutine ==
  /\ step = "read" /\ Wakes /\ onRead' = "none"
  /\ \/ /\ routine /\ step' = "extend" /\ waiting' = FALSE /\ event' = FALSE
        /\ UNCHANGED <<left, fifo, reg, refused, ret, onConf>>
     \/ ~routine /\ Return(FALSE)
  /\ UNCHANGED <<fixed, tool, pos, seg, lin, tries, routine, resp, ArmVars, go, dead,
                 Refusals, cut>>

SendExtend ==
  /\ step = "extend" /\ ~waiting
  /\ ChipALWrite(Cmd("extend", 0, "live"))
  /\ waiting' = TRUE
  /\ UNCHANGED <<fixed, ToolVars, step, left, Handlers, resp, ArmVars, go, Refusals, cut>>

(* It returns and ARMALInitIo begins.                                         *)
Started ==
  /\ step = "extend" /\ Wakes
  /\ step' = "pins" /\ waiting' = FALSE /\ event' = FALSE
  /\ left' = [i \in 1 .. Pins |-> "pin"]
  /\ fifo' = Orphaned(fifo)
  /\ UNCHANGED <<fixed, ToolVars, reg, refused, Handlers, resp, ArmVars, go, dead,
                 Refusals, cut>>
-------------------------------------------------------------------------------
(* ARMALInitIo and ARMALNotifyArmReady.                                       *)

(* InitIo: command after command; it gives up at the first that is refused,   *)
(* and the wait that follows is in vain.                                      *)
SendPin ==
  /\ step = "pins" /\ ~waiting /\ left # <<>>
  /\ \/ Accepts(Cmd("pin", 0, "none")) /\ left' = Tail(left) /\ UNCHANGED waiting
     \/ WriteRefused /\ left' = <<>> /\ waiting' = TRUE
  /\ UNCHANGED <<fixed, ToolVars, step, Handlers, resp, ArmVars, go, Refusals, cut>>

SendLastPin ==
  /\ step = "pins" /\ ~waiting /\ left = <<>>
  /\ ChipALWrite(Cmd("pin", 0, "live"))
  /\ waiting' = TRUE
  /\ UNCHANGED <<fixed, ToolVars, step, left, Handlers, resp, ArmVars, go, Refusals, cut>>

(* The handler of the response is added, and stays.  The event is another one,*)
(* but that of ARMALInitIo is still alive.                                    *)
NotifyArmReady ==
  /\ step = "pins" /\ Wakes
  /\ step' = "conf" /\ waiting' = FALSE /\ event' = FALSE /\ onConf' = "live"
  /\ fifo' = [i \in DOMAIN fifo |-> IF fifo[i].note = "live"
                                    THEN [fifo[i] EXCEPT !.note = "none"] ELSE fifo[i]]
  /\ UNCHANGED <<fixed, ToolVars, left, reg, refused, onRead, routine, resp, ArmVars,
                 go, dead, Refusals, cut>>

SendConf ==
  /\ step = "conf" /\ ~waiting
  /\ ChipALWrite(Cmd("conf", 0, "none"))
  /\ waiting' = TRUE
  /\ UNCHANGED <<fixed, ToolVars, step, left, Handlers, resp, ArmVars, go, Refusals, cut>>

(* ChipALSetFirmGo, when the response has come.  Whether it has is not told   *)
(* to the caller: the load is a success either way.                           *)
Ready ==
  /\ step = "conf"
  /\ \/ Wakes /\ UNCHANGED cut
     \/ GivesUp
  /\ go' = (go \/ event)
  /\ Return(TRUE)
  /\ UNCHANGED <<fixed, tool, pos, seg, lin, tries, onRead, routine, resp, ArmVars, dead, Refusals>>

(* Mutant: a wait has no timeout.                                             *)
Timeout_Never == FALSE /\ UNCHANGED vars

(* Any other wait that ends without its event ends the ioctl.                 *)
Timeout ==
  /\ step # "conf" /\ GivesUp
  /\ onRead' = "none"
  /\ Return(FALSE)
  /\ UNCHANGED <<fixed, tool, pos, seg, lin, tries, routine, resp, ArmVars, go, dead, Refusals>>

Driver == \/ SendAddress \/ NextWord \/ SendWord \/ DataSent
          \/ SendGoto \/ AskForRoutine \/ SendRead \/ GotRoutine \/ SendExtend \/ Started
          \/ SendPin \/ SendLastPin \/ NotifyArmReady \/ SendConf \/ Ready \/ Timeout
-------------------------------------------------------------------------------
(* The interrupt: the next command is written, its completion called.         *)
WriteNextCommand ==
  /\ fifo # <<>> /\ reg = <<>>
  /\ reg' = <<Head(fifo)>> /\ fifo' = Tail(fifo)
  /\ Signal(Head(fifo).note)
  /\ UNCHANGED <<fixed, ToolVars, CallVars, refused, Handlers, resp, ArmVars, go, Refusals, cut>>

(* ARMSyncRoutine, the handler of both responses.  A response no handler waits*)
(* for is dropped.                                                            *)
ARMSyncRoutine ==
  /\ \/ /\ "read" \in resp /\ resp' = resp \ {"read"} /\ Signal(onRead)
        /\ IF onRead = "none" THEN UNCHANGED routine
           ELSE routine' \in {TRUE} \cup {a \in {FALSE} : "dud" \in faults}
     \/ /\ "conf" \in resp /\ resp' = resp \ {"conf"} /\ Signal(onConf)
        /\ UNCHANGED routine
  /\ UNCHANGED <<fixed, ToolVars, CallVars, fifo, reg, refused, onRead, onConf, ArmVars, go,
                 Refusals, cut>>

Interrupt == WriteNextCommand \/ ARMSyncRoutine

(* The ARM.  A word's bytes are stored low byte first, its digits being high  *)
(* and low digit of each byte.                                                *)
WordAt(at)         == at .. at + WordLen \div 2 - 1
ByteOf(w, at, a)   == <<w[2 * (a - at) + 1], w[2 * (a - at)]>>
Stored(m, w, at) == [a \in WordAt(at) \cup DOMAIN m |->
                       IF a \in WordAt(at) THEN ByteOf(w, at, a) ELSE m[a]]

Arm ==
  /\ reg # <<>> /\ reg' = <<>>
  /\ LET c == Head(reg) IN
       /\ wr' = CASE c.op = "address" -> c.arg
                  [] c.op = "word"    -> wr + WordLen \div 2
                  [] OTHER            -> wr
       /\ mem' = IF c.op = "word" THEN Stored(mem, c.arg, wr) ELSE mem
       /\ ran' = IF c.op = "goto" THEN ran + 1 ELSE ran
       /\ conf' = (conf \/ c.op = "conf")
       /\ resp' = IF c.op \in {"read", "conf"} THEN resp \cup {c.op} ELSE resp
  /\ UNCHANGED <<fixed, ToolVars, CallVars, fifo, event, refused, Handlers, go, dead,
                 Refusals, cut>>

Next == Tool \/ Driver \/ Interrupt \/ Arm

Spec == Init /\ [][Next]_vars

(* cnxadslload and the driver go on, interrupts are served, and the ARM       *)
(* executes what it is given.                                                 *)
LiveSpec == Spec /\ WF_vars(Tool) /\ WF_vars(Driver) /\ WF_vars(Interrupt) /\ WF_vars(Arm)
-------------------------------------------------------------------------------
(* Properties.                                                                *)

(* What a file says the memory has to hold: byte k of a data record, two of   *)
(* its digits, at an address that counts from the last address records.       *)
LastOf(f, i, type) ==
  LET before == {j \in 1 .. i : f[j].type = type}
  IN  IF before = {} THEN 0 ELSE f[CHOOSE j \in before : \A k \in before : k <= j].value
Base(f, i)     == 65536 * LastOf(f, i, "linear") + 16 * LastOf(f, i, "segment")
Bytes(f, i)    == IF f[i].type = "data" THEN 0 .. Len(f[i].digits) \div 2 - 1 ELSE {}
At(f, i, k)    == Base(f, i) + f[i].offset + k
Byte(f, i, k)  == <<f[i].digits[2 * k + 1], f[i].digits[2 * k + 2]>>
Held(m, f, i, k) == At(f, i, k) \in DOMAIN m /\ m[At(f, i, k)] = Byte(f, i, k)

HoldsFile(m, f) == \A i \in DOMAIN f : \A k \in Bytes(f, i) : Held(m, f, i, k)

(* A file that says one thing of every byte, and all of it before it says     *)
(* where to start.                                                            *)
WellFormed(f) ==
  /\ \A i, j \in DOMAIN f : \A b \in Bytes(f, i), c \in Bytes(f, j) :
       At(f, i, b) = At(f, j, c) => Byte(f, i, b) = Byte(f, j, c)
  /\ \A i, g \in DOMAIN f : Bytes(f, i) # {} /\ f[g].type \in {"goto", "end"} => i < g

Complete(f) == \E i \in DOMAIN f : f[i].type = "end"

(* The ARM starts a program only when its memory holds the whole file, every  *)
(* byte at its address, also after loads that were given up half way and      *)
(* whose commands were still queued, and even if a completion of an earlier   *)
(* load is mistaken for one of this load.  There is one way around it, which  *)
(* takes two faults: the memory for a command of a data record is refused,    *)
(* and what wakes the function that waits for that command in vain is such a  *)
(* stale completion.                                                          *)
StartsWhatWasLoaded == [][ran' # ran => HoldsFile(mem, file) \/ misled]_vars

(* The firmware gets its go only after it has seen that the configuration is  *)
(* complete; and no event is signalled after the function that waits for it   *)
(* has returned, whatever command was refused or however the load ended,      *)
(* unless a wait was given up, by its time or by a signal, while the ARM had  *)
(* not done all it was given.                                                 *)
SignalsReachWaiters ==
  /\ dead => cut
  /\ go /\ ~dead => conf

(* Every run of cnxadslload ends, and ends with a firmware that has its go if *)
(* the file is complete and nothing goes wrong.                               *)
LoadEnds ==
  /\ tool = "read" ~> tool \in {"loaded", "failed"}
  /\ faults = {} /\ Complete(file) => <>(tool = "loaded" /\ go)

===============================================================================
