--------------------------------- MODULE ArmIo ---------------------------------
(* The command and response registers between driver and ARM, and the         *)
(* interrupt that serves them (ChipALIoP46.c, ChipALBusCtlP46.c, and the ISR  *)
(* and the tasklet of ChipALCdsl.c), for the ARM function of the chip; the    *)
(* DSL function runs the same code on registers of its own.                   *)
(* A command is written at once if the command register is empty, else it     *)
(* waits in WriteFifo for the interrupt CMDE.  That interrupt is masked while *)
(* the boot loader executes a command.  The interrupt DATAF announces a       *)
(* response, which the ISR decodes into an event; a tasklet runs the event's  *)
(* handlers.  The bits of InterruptStatus pass from one to the other: the     *)
(* tasklet clears them under IsrLock, the ISR sets them without it.           *)
(* The ARM is external: it takes a command from the register, answers each    *)
(* boot loader command, and reports events.                                   *)
EXTENDS Integers, Sequences

CONSTANTS Cmds,       \* the commands
          BootCmds,   \* those of the boot loader
          Events,     \* events of the ARM that have a handler in the tasklet
          NoCmd,      \* no command
          Machines,   \* FALSE: one processor; TRUE: several
          MaxCalls,   \* bound: calls of CalP46ArmWrite
          MaxReports  \* bound: events the ARM reports

Boot  == "boot"       \* response: the answer to a boot loader command
Ready == "ready"      \* response: HW_INTERFACE_READY, which has no handler in the tasklet
None  == "none"

ASSUME ArmIoAssumption ==
  /\ BootCmds \subseteq Cmds /\ NoCmd \notin Cmds
  /\ Events \cap {Boot, Ready, None} = {}
  /\ Machines \subseteq BOOLEAN
  /\ {MaxCalls, MaxReports} \subseteq Nat

VARIABLES smp,           \* whether there are several processors
          pCommand,      \* the command CalP46ArmWrite is writing; NoCmd: WriteLock is free
          CommandEmpty,  \* the STAT bit it read after it took the lock
          fifo,          \* WriteFifo, next one to be written first
          reg,           \* the command register; STAT has the bit CMDE when it is NoCmd
          busy,          \* the boot loader executes a command
          resp,          \* responses not yet read; the register shows the first
          ier,           \* CSR_ARM_IER: the interrupts that are not masked
          latched,       \* CSR_ARM_ISR: the interrupts that have occurred
          irq,           \* where the ISR is
          event,         \* IsrEvent of the hardware register
          post,          \* IsrEvent of the decoded events: at most one
          old,           \* InterruptStatus as the ISR read it to set a bit
          need,          \* DPCRequired
          status,        \* InterruptStatus
          copy,          \* InterruptReg: the copy the tasklet works on
          loaded,        \* what the tasklet is about to store in InterruptStatus
          dpc,           \* where the tasklet is
          sched,         \* the tasklet is scheduled
          unserved,      \* events decoded whose handlers have not run since
          accepted,      \* the commands accepted, oldest first
          taken,         \* the commands the ARM has taken, oldest first
          reports,
          fails          \* the calls refused for want of memory

writer == <<pCommand, CommandEmpty>>
queue  == <<fifo, accepted, fails>>
arm    == <<busy, resp, taken, reports>>
isr    == <<irq, event, post, old, need>>
soft   == <<status, copy, loaded, dpc, sched>>
vars   == <<smp, writer, queue, reg, arm, ier, latched, isr, soft, unserved>>

Owned == {"CMDE", "DATAF"}                    \* InterruptReg, set by calP46AttachInterrupt

Init ==
  /\ smp \in Machines
  /\ pCommand = NoCmd /\ CommandEmpty = FALSE /\ fifo = <<>> /\ accepted = <<>> /\ fails = 0
  /\ reg = NoCmd /\ busy = FALSE /\ resp = <<>> /\ taken = <<>> /\ reports = 0
  /\ ier = Owned /\ latched \in SUBSET {"CMDE"}
  /\ irq = "idle" /\ event = {} /\ post = None /\ old = {} /\ need = FALSE
  /\ status = {} /\ copy = {} /\ loaded = {} /\ dpc = "idle" /\ sched = FALSE /\ unserved = {}

(* WriteLock and IsrLock are taken with the interrupts of the processor off.  *)
(* Mutant: IsrLock is taken with interrupts on.                               *)
CanInterrupt_InTasklet == smp \/ pCommand = NoCmd

CanInterrupt == smp \/ (pCommand = NoCmd /\ dpc \notin {"mask", "store"})
CanRun       == smp \/ irq = "idle"
-------------------------------------------------------------------------------
(* CalP46ArmWrite of a command, in a thread or in a tasklet.                  *)

Lock ==
  /\ CanRun /\ pCommand = NoCmd /\ Len(accepted) + fails < MaxCalls
  /\ pCommand' \in Cmds
  /\ CommandEmpty' = (reg = NoCmd)
  /\ UNCHANGED <<smp, queue, reg, arm, ier, latched, isr, soft, unserved>>

(* Mutant: commands that wait are overtaken.                                  *)
MustQueue_Overtakes == ~CommandEmpty

MustQueue == ~CommandEmpty \/ fifo # <<>>

Queue ==
  /\ pCommand # NoCmd /\ MustQueue
  /\ fifo' = Append(fifo, pCommand)
  /\ accepted' = Append(accepted, pCommand)
  /\ pCommand' = NoCmd /\ CommandEmpty' = FALSE
  /\ UNCHANGED <<smp, fails, reg, arm, ier, latched, isr, soft, unserved>>

NoMemory ==
  /\ pCommand # NoCmd /\ MustQueue
  /\ fails' = fails + 1
  /\ pCommand' = NoCmd /\ CommandEmpty' = FALSE
  /\ UNCHANGED <<smp, fifo, accepted, reg, arm, ier, latched, isr, soft, unserved>>

(* Mutant: the boot loader masks its own answer as well.                      *)
Masked_All(c, enabled) == IF c \in BootCmds THEN {} ELSE enabled

(* calP46WriteCsrCritical: a command of the boot loader masks CMDE.           *)
Masked(c, enabled) == IF c \in BootCmds THEN enabled \ {"CMDE"} ELSE enabled

Write ==
  /\ pCommand # NoCmd /\ ~MustQueue
  /\ reg' = pCommand /\ ier' = Masked(pCommand, ier)
  /\ accepted' = Append(accepted, pCommand)
  /\ pCommand' = NoCmd /\ CommandEmpty' = FALSE
  /\ UNCHANGED <<smp, fifo, fails, arm, latched, isr, soft, unserved>>

(* Mutant: the last command stays in WriteFifo.                               *)
WriteNextCommand_NotTheLast(enabled) ==
  /\ pCommand = NoCmd
  /\ IF Len(fifo) > 1 /\ reg = NoCmd
     THEN reg' = Head(fifo) /\ fifo' = Tail(fifo) /\ ier' = Masked(Head(fifo), enabled)
     ELSE UNCHANGED <<reg, fifo>> /\ ier' = enabled

(* One command from WriteFifo; when the register turns out to be full it goes *)
(* back to where it came from.                                                *)
WriteNextCommand(enabled) ==
  /\ pCommand = NoCmd
  /\ \/ /\ fifo # <<>> /\ reg = NoCmd
        /\ reg' = Head(fifo) /\ fifo' = Tail(fifo)
        /\ ier' = Masked(Head(fifo), enabled)
     \/ /\ fifo # <<>> /\ reg # NoCmd
        /\ fifo' = <<Head(fifo)>> \o Tail(fifo)
        /\ ier' = enabled /\ UNCHANGED reg
     \/ /\ fifo = <<>>
        /\ ier' = enabled /\ UNCHANGED <<reg, fifo>>
-------------------------------------------------------------------------------
(* The ISR.                                                                   *)

(* HandleBus, GetStatus, and Disable of all interrupts.                       *)
IsrEnter ==
  /\ irq = "idle" /\ CanInterrupt
  /\ ier \cap latched # {}
  /\ event' = ier \cap latched /\ need' = FALSE
  /\ irq' = "clear"
  /\ UNCHANGED <<smp, writer, queue, reg, arm, ier, latched, post, old, soft, unserved>>

(* Mutant: whatever has occurred by now is cleared.                           *)
IsrClear_All ==
  /\ irq = "clear"
  /\ latched' = {}
  /\ irq' = "run"
  /\ UNCHANGED <<smp, writer, queue, reg, arm, ier, event, post, old, need, soft, unserved>>

(* ClearStatus: writing a one clears it.                                      *)
IsrClear ==
  /\ irq = "clear"
  /\ latched' = latched \ event
  /\ irq' = "run"
  /\ UNCHANGED <<smp, writer, queue, reg, arm, ier, event, post, old, need, soft, unserved>>

IsrCommandEmpty ==
  /\ irq = "run" /\ "CMDE" \in event
  /\ WriteNextCommand(ier)
  /\ event' = event \ {"CMDE"}
  /\ UNCHANGED <<smp, writer, accepted, fails, arm, latched, irq, post, old, need, soft, unserved>>

(* CalP46ArmRead: the next response; DATAF occurs again if there is another.  *)
ReadResponse ==
  /\ irq = "run" /\ event = {"DATAF"}
  /\ event' = {}
  /\ resp # <<>> /\ resp' = Tail(resp)
  /\ latched' = IF Tail(resp) # <<>> THEN latched \cup {"DATAF"} ELSE latched
  /\ UNCHANGED <<smp, writer, accepted, fails, busy, taken, reports, irq, need, soft>>

IsrNoResponse ==
  /\ irq = "run" /\ event = {"DATAF"} /\ resp = <<>>
  /\ event' = {}
  /\ UNCHANGED <<smp, writer, queue, reg, arm, ier, latched, irq, post, old, need, soft, unserved>>

(* The boot loader has answered: CMDE is enabled, the next command written.   *)
IsrBootAnswer ==
  /\ ReadResponse /\ Head(resp) = Boot
  /\ WriteNextCommand(Owned)
  /\ UNCHANGED <<post, old, unserved>>

(* calP46ISRProcessCSRResp: the parameters of the response are stored over    *)
(* those of an earlier one of the same event.                                 *)
IsrDecode ==
  /\ ReadResponse /\ Head(resp) # Boot
  /\ post' = Head(resp) /\ old' = status
  /\ unserved' = unserved \cup ({Head(resp)} \cap Events)
  /\ UNCHANGED <<fifo, reg, ier>>

(* lChipALSetEvent: the bit is ORed into what was read.                       *)
IsrSetEvent ==
  /\ irq = "run" /\ event = {} /\ post \in Events
  /\ status' = old \cup {post}
  /\ need' = TRUE /\ post' = None /\ old' = {}
  /\ UNCHANGED <<smp, writer, queue, reg, arm, ier, latched, irq, event,
                 copy, loaded, dpc, sched, unserved>>

(* calP46DPCArmReady, which the ISR calls.                                    *)
IsrArmReady ==
  /\ irq = "run" /\ event = {} /\ post = Ready
  /\ WriteNextCommand(ier)
  /\ post' = None /\ old' = {}
  /\ UNCHANGED <<smp, writer, accepted, fails, arm, latched, irq, event, need, soft, unserved>>

(* Enable(0) writes all of InterruptReg; then tasklet_schedule.               *)
IsrEnd ==
  /\ irq = "run" /\ event = {} /\ post = None
  /\ ier' = Owned
  /\ sched' = (sched \/ need) /\ need' = FALSE
  /\ irq' = "idle"
  /\ UNCHANGED <<smp, writer, queue, reg, arm, latched, event, post, old,
                 status, copy, loaded, dpc, unserved>>

Isr == \/ IsrEnter \/ IsrClear \/ IsrCommandEmpty \/ IsrNoResponse \/ IsrBootAnswer
       \/ IsrDecode \/ IsrSetEvent \/ IsrArmReady \/ IsrEnd
-------------------------------------------------------------------------------
(* ChipALARMIsrDPCHandler.                                                    *)

DpcStart ==
  /\ CanRun /\ dpc = "idle" /\ sched
  /\ sched' = FALSE /\ dpc' = "copy"
  /\ UNCHANGED <<smp, writer, queue, reg, arm, ier, latched, isr, status, copy, loaded, unserved>>

(* IsrLock is taken and InterruptStatus copied; nothing found ends the loop.  *)
DpcCopy ==
  /\ CanRun /\ dpc = "copy"
  /\ copy' = status
  /\ dpc' = IF status = {} THEN "idle" ELSE "mask"
  /\ UNCHANGED <<smp, writer, queue, reg, arm, ier, latched, isr, status, loaded, sched, unserved>>

(* The bits copied are removed from InterruptStatus: it is read ...           *)
DpcMask ==
  /\ CanRun /\ dpc = "mask"
  /\ loaded' = status \ copy
  /\ dpc' = "store"
  /\ UNCHANGED <<smp, writer, queue, reg, arm, ier, latched, isr, status, copy, sched, unserved>>

(* ... and written, and IsrLock is released.                                  *)
DpcStore ==
  /\ CanRun /\ dpc = "store"
  /\ status' = loaded /\ loaded' = {}
  /\ dpc' = "run"
  /\ UNCHANGED <<smp, writer, queue, reg, arm, ier, latched, isr, copy, sched, unserved>>

(* chipALProcessInterrupt: the handlers of one event.                         *)
DpcRun(e) ==
  /\ CanRun /\ dpc = "run" /\ e \in copy
  /\ copy' = copy \ {e} /\ unserved' = unserved \ {e}
  /\ dpc' = IF copy = {e} THEN "copy" ELSE "run"
  /\ UNCHANGED <<smp, writer, queue, reg, arm, ier, latched, isr, status, loaded, sched>>

Dpc == DpcStart \/ DpcCopy \/ DpcMask \/ DpcStore \/ \E e \in Events : DpcRun(e)
-------------------------------------------------------------------------------
(* The ARM.                                                                   *)

ArmTake ==
  /\ reg # NoCmd /\ ~busy
  /\ taken' = Append(taken, reg) /\ reg' = NoCmd
  /\ busy' = (reg \in BootCmds)
  /\ latched' = latched \cup {"CMDE"}
  /\ UNCHANGED <<smp, writer, queue, resp, reports, ier, isr, soft, unserved>>

(* The boot loader does not queue its answers: a new one replaces the last.   *)
ArmAnswer ==
  /\ busy /\ busy' = FALSE
  /\ resp' = IF resp # <<>> /\ resp[Len(resp)] = Boot THEN resp ELSE Append(resp, Boot)
  /\ latched' = latched \cup {"DATAF"}
  /\ UNCHANGED <<smp, writer, queue, reg, taken, reports, ier, isr, soft, unserved>>

ArmReport(r) ==
  /\ reports < MaxReports /\ reports' = reports + 1
  /\ resp' = Append(resp, r)
  /\ latched' = latched \cup {"DATAF"}
  /\ UNCHANGED <<smp, writer, queue, reg, busy, taken, ier, isr, soft, unserved>>

Next == \/ Lock \/ Queue \/ NoMemory \/ Write
        \/ Isr \/ Dpc
        \/ ArmTake \/ ArmAnswer \/ \E r \in Events \cup {Ready} : ArmReport(r)

Spec == Init /\ [][Next]_vars

(* A caller leaves its critical section, the ISR runs when it may, so does a  *)
(* scheduled tasklet, and the ARM takes and answers commands.                 *)
LiveSpec == Spec /\ WF_vars(Queue \/ NoMemory \/ Write) /\ WF_vars(Isr) /\ WF_vars(Dpc)
                 /\ WF_vars(ArmTake) /\ WF_vars(ArmAnswer)
-------------------------------------------------------------------------------
(* Properties.                                                                *)

CommandsOK ==
  /\ pCommand \in Cmds \cup {NoCmd} /\ CommandEmpty \in BOOLEAN
  /\ reg \in Cmds \cup {NoCmd}
  /\ fifo \in Seq(Cmds) /\ accepted \in Seq(Cmds) /\ taken \in Seq(Cmds)
  /\ fails \in Nat /\ Len(accepted) + fails <= MaxCalls
  /\ pCommand # NoCmd => Len(accepted) + fails < MaxCalls

ChipOK ==
  /\ busy \in BOOLEAN
  /\ resp \in Seq(Events \cup {Boot, Ready}) /\ reports \in 0 .. MaxReports
  /\ ier \in SUBSET Owned /\ "DATAF" \in ier
  /\ latched \in SUBSET Owned

IsrOK ==
  /\ irq \in {"idle", "clear", "run"} /\ need \in BOOLEAN
  /\ event \in SUBSET Owned /\ post \in Events \cup {Ready, None}
  /\ old \in SUBSET Events /\ unserved \in SUBSET Events

SoftOK ==
  /\ status \in SUBSET Events /\ copy \in SUBSET Events /\ loaded \in SUBSET Events
  /\ dpc \in {"idle", "copy", "mask", "store", "run"} /\ sched \in BOOLEAN

TypeOK == smp \in BOOLEAN /\ CommandsOK /\ ChipOK /\ IsrOK /\ SoftOK

(* Commands reach the ARM in the order in which they were accepted, and each  *)
(* of them once: none is overtaken by one that found the register empty, none *)
(* is overwritten in the register, and one that goes back into WriteFifo goes *)
(* back to its place.                                                         *)
Chan == INSTANCE CmdChannel WITH sent <- accepted, got <- taken
CommandsInOrder == Chan!Spec

(* A command that waits in WriteFifo is never forgotten by the interrupts:    *)
(* when the register is empty, CMDE has occurred and its handler has not run; *)
(* a masked CMDE is unmasked, because the ISR is at work or an answer of the  *)
(* boot loader is still to come; and an unread response is announced.         *)
EmptyIsNoticed == fifo # <<>> /\ reg = NoCmd => "CMDE" \in latched \cup event
MaskIsLifted ==
  "CMDE" \notin ier => \/ irq # "idle" \/ reg \in BootCmds \/ busy
                      \/ \E i \in 1 .. Len(resp) : resp[i] = Boot
ResponseIsNoticed == resp # <<>> => "DATAF" \in latched \cup event
EventIsHandled    == event # {} \/ post # None => irq # "idle"
NextCommandDue    == EmptyIsNoticed /\ MaskIsLifted /\ ResponseIsNoticed /\ EventIsHandled

(* An event that was decoded keeps its bit until its handlers have run since, *)
(* in InterruptStatus or in the tasklet's copy, and the tasklet is going to   *)
(* look there.  On one processor: on several the ISR sets bits while the      *)
(* tasklet clears others.                                                     *)
BitKept   == unserved \subseteq status \cup copy \cup {post}
LooksNext == status \cup copy # {} => need \/ sched \/ dpc # "idle"
EventsKept == (~smp => BitKept) /\ LooksNext

===============================================================================
