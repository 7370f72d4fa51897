-------------------------------- MODULE Driver --------------------------------
(* The life of the driver: module load, the ioctls of the loader, module      *)
(* unload (CardMgmt.c, CardMgmtLink.c, CardAL.c, ChipALCdsl.c, FrameAl.c,     *)
(* ChipALBusCtlP46.c, CardALTigris*.c, KThread.c).                            *)
(* One task at a time runs the loader's ioctls or the unload.  Beside it run  *)
(* the interrupt handler, three timers that start themselves again, and three *)
(* kernel threads.  What is tracked is memory: which objects are allocated,   *)
(* which pointers are not NULL, and whether anything goes through a pointer   *)
(* that is NULL or whose object is gone.  Any allocation can fail.            *)
(* On one processor a timer handler finishes before the task goes on.         *)
EXTENDS Naturals, FiniteSets

CONSTANTS Machines,  \* FALSE: one processor; TRUE: several
          FailAt,    \* the objects whose allocation can fail
          MaxFails,  \* bound: failures
          MaxRuns    \* bound: runs of the loader

(* The contexts of the register controllers, and the two DMA channels.        *)
RegIo == {"dslio", "armio", "eeprom"}
Chans == {"txchan", "rxchan"}

(* adapter: CDSL_ADAPTER_T; fops: its file operations; frame, flink: what     *)
(* FrameAL keeps per adapter and per link; remote: the table of functions     *)
(* through which ChipAL is called; chip: CHIPAL_T, with the pointers to bus,  *)
(* hal, the controllers and the channels; sm: the message system; cal:        *)
(* CARDAL_CONTEXT_T, with the pointers to card and tigris; cm: the link's     *)
(* context.                                                                   *)
Objects == {"adapter", "fops", "frame", "flink", "remote", "chip", "bus", "hal",
            "sm", "cal", "card", "tigris", "cm"} \cup RegIo \cup Chans
Timers  == {"main", "cal", "frame"}
Threads == {"bg", "si", "tm"}

ASSUME DriverAssumption ==
  /\ Machines \subseteq BOOLEAN /\ FailAt \subseteq Objects
  /\ {MaxFails, MaxRuns} \subseteq Nat

VARIABLES smp,     \* whether there are several processors
          pc,      \* the step the task is about to take
          ret,     \* where it goes on after a routine called from several places
          live,    \* the objects that are allocated
          ptr,     \* the objects whose pointer is not NULL
          lost,    \* the objects whose last pointer was overwritten
          fault,   \* <<who, what>>: who used an object that was not there
          flags,   \* of shutdown, DownloadInitComplete ("download"), AdapterInitComplete
                   \* ("init") and AdapterFullyInitialized ("full"), those that are TRUE
          timer,   \* per timer: its state, pending, its handler running, the event of its end
          connect, \* the connect timer is armed in the adapter's timer block
          th,      \* the threads that run
          irq,     \* the interrupt handler is registered
          hooks,   \* the objects whose handlers are in the interrupt's lists
          fails, runs

mem  == <<live, ptr, lost, fault>>
soft == <<timer, connect>>
rest == <<th, irq, flags, hooks>>
cnt  == <<fails, runs>>
vars == <<smp, pc, ret, mem, soft, rest, cnt>>

(* CnxtDsl_init: the pointer to the file operations is cleared with the rest. *)
Init ==
  /\ smp \in Machines
  /\ pc = "idle" /\ ret = "idle"
  /\ live = {"adapter", "fops"} /\ ptr = {"adapter"} /\ lost = {"fops"} /\ fault = {}
  /\ flags = {} /\ connect = FALSE /\ th = {} /\ irq = FALSE /\ hooks = {}
  /\ timer = [t \in Timers |-> [state |-> "uninit", pend |-> FALSE, run |-> FALSE, ev |-> FALSE]]
  /\ fails = 0 /\ runs = 0

Running == {t \in Timers : timer[t].run}

(* The task takes the step l.                                                 *)
At(l)     == pc = l /\ (smp \/ Running = {}) /\ UNCHANGED smp
Go(l)     == pc' = l /\ UNCHANGED ret
Call(l, r) == pc' = l /\ ret' = r

(* Someone follows the pointers to the objects of os.                         *)
Missing(os)  == os \ (live \cap ptr)
Use(who, os) == fault' = fault \cup ({who} \X Missing(os))

Gained(o) == /\ live' = live \cup {o} /\ ptr' = ptr \cup {o}
             /\ lost' = lost \cup (live \cap {o})

(* ALLOCATE_MEMORY, kmalloc, request_irq and the like.                        *)
Refuse(o) == o \in FailAt /\ fails < MaxFails /\ fails' = fails + 1 /\ UNCHANGED runs
Get(o, next)  == Gained(o) /\ Go(next) /\ UNCHANGED cnt
NoGet(o, next) == Refuse(o) /\ UNCHANGED <<live, ptr, lost>> /\ Go(next)

Set(t, s)       == timer' = [timer EXCEPT ![t].state = s]
StartTimer(t)   == timer' = [timer EXCEPT ![t].pend = TRUE]
-------------------------------------------------------------------------------
(* TIG_SET_PARAMS.                                                            *)

LoaderRun ==
  /\ At("idle") /\ "shutdown" \notin flags /\ runs < MaxRuns
  /\ runs' = runs + 1
  /\ Go(IF "download" \in flags THEN "load" ELSE "frame")
  /\ UNCHANGED <<mem, soft, rest, fails>>

(* FrameALCfgInit, one of the CfgInit functions.                              *)
FrameALCfgInit ==
  /\ At("frame")
  /\ \/ Get("frame", "remote")
     \/ NoGet("frame", "remote")
  /\ UNCHANGED <<fault, soft, rest>>

(* ChipALAdapterInit: the table of functions, ...                             *)
ChipALRemoteInf ==
  /\ At("remote")
  /\ \/ Get("remote", "chip")
     \/ NoGet("remote", "idle")
  /\ UNCHANGED <<fault, soft, rest>>

(* ... the interface, ...                                                     *)
ChipALAllocateInterface ==
  /\ At("chip")
  /\ \/ Get("chip", "bus")
     \/ NoGet("chip", "idle")
  /\ UNCHANGED <<fault, soft, rest>>

(* ... the bus, without which the interface is released again, ...            *)
NoBus ==
  /\ At("bus") /\ Refuse("bus")
  /\ live' = live \ {"chip"} /\ ptr' = ptr \ {"chip"} /\ Go("idle")
  /\ UNCHANGED <<lost, fault, soft, rest>>

(* ... the interrupt, registered before BusResources is stored, ...           *)
RegisterInterrupt ==
  /\ At("bus")
  /\ irq' = TRUE /\ Go("resources")
  /\ UNCHANGED <<mem, soft, th, flags, hooks, cnt>>

BusResources ==
  /\ At("resources")
  /\ Get("bus", "dslio")
  /\ UNCHANGED <<fault, soft, rest>>

(* ... and the register controllers, of which all but the EEPROM's attach     *)
(* handlers to the interrupt.  Without one of them ChipAL is halted.          *)
Controller(o, next) ==
  /\ At(o) /\ Use("task", {"chip", "bus"})
  /\ \/ Get(o, next) /\ hooks' = hooks \cup ({o} \ {"eeprom"})
     \/ /\ Refuse(o) /\ UNCHANGED <<live, ptr, lost, hooks>>
        /\ Call("halt", "idle")
  /\ UNCHANGED <<soft, th, irq, flags>>

RegIoContInit ==
  Controller("dslio", "armio") \/ Controller("armio", "eeprom") \/ Controller("eeprom", "soft")

(* The soft timer is started, and DownloadInitComplete set.                   *)
StartCalTimer ==
  /\ At("soft")
  /\ timer' = [timer EXCEPT !["cal"] = [state |-> "timing", pend |-> TRUE, run |-> FALSE, ev |-> FALSE]]
  /\ flags' = flags \cup {"download"}
  /\ Go("load")
  /\ UNCHANGED <<mem, connect, th, irq, hooks, cnt>>

(* The loader goes on when the firmware is loaded.                            *)
Load ==
  /\ At("load")
  /\ \/ Go("idle")
     \/ "full" \notin flags /\ Go("sm")
  /\ UNCHANGED <<mem, soft, rest, cnt>>
-------------------------------------------------------------------------------
(* TIG_START_DSL.                                                             *)

(* SmSysIfInit, whose result nobody looks at.                                 *)
SmSysIfInit ==
  /\ At("sm")
  /\ \/ Get("sm", "hal")
     \/ NoGet("sm", "hal")
  /\ UNCHANGED <<fault, soft, rest>>

(* ChipALInitServices: without its service ChipAL is halted, and the ioctl    *)
(* goes on all the same.                                                      *)
ChipALInitServices ==
  /\ At("hal") /\ Use("task", {"chip", "remote", "dslio"})
  /\ \/ Get("hal", "cardal") /\ hooks' = hooks \cup {"hal"}
     \/ /\ Refuse("hal") /\ UNCHANGED <<live, ptr, lost, hooks>>
        /\ Call("halt", "cardal")
  /\ UNCHANGED <<soft, th, irq, flags>>

(* CardALAdapterInit: its context, ...                                        *)
CardALContext ==
  /\ At("cardal")
  /\ \/ Get("cal", "card")
     \/ NoGet("cal", "idle")
  /\ UNCHANGED <<fault, soft, rest>>

(* ... the line card, and the modem; without them CardAL is halted.           *)
CDALTigrisInit ==
  /\ At("card")
  /\ \/ Get("card", "tigris")
     \/ /\ Refuse("card") /\ UNCHANGED <<live, ptr, lost>>
        /\ Call("haltTigris", "idle")
  /\ UNCHANGED <<fault, soft, rest>>

CardALDeviceAdapterInit ==
  /\ At("tigris") /\ Use("task", {"remote", "chip"})
  /\ \/ Get("tigris", "enable") /\ hooks' = hooks \cup {"tigris"}
     \/ /\ Refuse("tigris") /\ UNCHANGED <<live, ptr, lost, hooks>>
        /\ Call("haltTigris", "idle")
  /\ UNCHANGED <<soft, th, irq, flags>>

(* CardALDeviceEnable; AdapterInitComplete is set.                            *)
CardALDeviceEnable ==
  /\ At("enable") /\ Use("task", {"cal", "tigris", "remote", "chip", "dslio", "hal"})
  /\ Set("main", "initialized")
  /\ flags' = flags \cup {"init"}
  /\ Go("cm")
  /\ UNCHANGED <<live, ptr, lost, connect, th, irq, hooks, cnt>>

(* CmgmtAdapterReset.  CMLInitAllLinks: the old pointer is cleared first.     *)
CMLInitAllLinks ==
  /\ At("cm")
  /\ \/ Get("cm", "flink")
     \/ /\ Refuse("cm") /\ Go("idle")
        /\ ptr' = ptr \ {"cm"} /\ lost' = lost \cup (live \cap {"cm"}) /\ UNCHANGED live
  /\ UNCHANGED <<fault, soft, rest>>

(* FrameALLinkInit, shut down again if it fails.                              *)
FrameALLinkInit ==
  /\ At("flink") /\ Use("task", {"frame"})
  /\ \/ Get("flink", "ftimer")
     \/ /\ Refuse("flink") /\ UNCHANGED <<live, ptr, lost>>
        /\ Call("flcancel", "idle")
  /\ UNCHANGED <<soft, rest>>

FrameALStartTimer ==
  /\ At("ftimer")
  /\ timer' = [timer EXCEPT !["frame"] = [state |-> "timing", pend |-> TRUE, run |-> FALSE, ev |-> FALSE]]
  /\ Go("txchan")
  /\ UNCHANGED <<mem, connect, rest, cnt>>

(* ChipALLinkInit: one channel and then the other, each with handlers of its  *)
(* own; a failure shuts down what the link has so far.                        *)
ChanOpen(o, next) ==
  /\ At(o) /\ Use("task", {"cm", "chip", "remote", "dslio"})
  /\ \/ Get(o, next) /\ hooks' = hooks \cup {o}
     \/ /\ Refuse(o) /\ UNCHANGED <<live, ptr, lost, hooks>>
        /\ Call("chanclose", "idle")
  /\ UNCHANGED <<soft, th, irq, flags>>

ChipALLinkInit == ChanOpen("txchan", "rxchan") \/ ChanOpen("rxchan", "mtimer")

(* UtilTmrResetTmr; START_TIMER, and only then the state of the timer.        *)
StartMainTimer ==
  /\ At("mtimer")
  /\ connect' = FALSE
  /\ timer' = [timer EXCEPT !["main"] = [state |-> "initialized", pend |-> TRUE, run |-> FALSE, ev |-> FALSE]]
  /\ Go("timing")
  /\ UNCHANGED <<mem, rest, cnt>>

MainTimerTiming ==
  /\ At("timing")
  /\ Set("main", "timing")
  /\ Go("line")
  /\ UNCHANGED <<mem, connect, rest, cnt>>

CDALSetLineState ==
  /\ At("line") /\ Use("task", {"cal", "card", "tigris"})
  /\ Go("threads")
  /\ UNCHANGED <<live, ptr, lost, soft, rest, cnt>>

ThreadOrder == <<"bg", "si", "tm">>

(* start_kthread, three times.                                                *)
StartThread ==
  /\ At("threads") /\ th # Threads
  /\ th' = th \cup {ThreadOrder[Cardinality(th) + 1]}
  /\ UNCHANGED <<pc, ret, mem, soft, irq, flags, hooks, cnt>>

FullyInitialized ==
  /\ At("threads") /\ th = Threads
  /\ flags' = flags \cup {"full"}
  /\ Go("idle")
  /\ UNCHANGED <<mem, soft, th, irq, hooks, cnt>>
-------------------------------------------------------------------------------
(* CnxtDsl_exit.                                                              *)

Unload ==
  /\ At("idle") /\ "shutdown" \notin flags
  /\ flags' = (flags \cup {"shutdown"}) \ {"full"}
  /\ IF "full" \in flags THEN Go("stop") ELSE Call("modem", "modem")
  /\ UNCHANGED <<mem, soft, th, irq, hooks, cnt>>

(* Mutant: the threads are not stopped.                                       *)
StopThreads_Not ==
  /\ At("stop")
  /\ Go("disable")
  /\ UNCHANGED <<mem, soft, rest, cnt>>

(* kthread_stop returns when the thread has ended.                            *)
StopThreads ==
  /\ At("stop")
  /\ \/ th # {} /\ (\E t \in th : th' = th \ {t}) /\ UNCHANGED <<pc, ret>>
     \/ th = {} /\ Go("disable") /\ UNCHANGED th
  /\ UNCHANGED <<mem, soft, irq, flags, hooks, cnt>>

DisableInterrupts ==
  /\ At("disable") /\ Use("task", {"chip", "bus"})
  /\ Go("smfree")
  /\ UNCHANGED <<live, ptr, lost, soft, rest, cnt>>

(* SmSysIfShutdown leaves its pointer as it is.                               *)
SmSysIfShutdown ==
  /\ At("smfree") /\ Use("task", {"sm"})
  /\ live' = live \ {"sm"}
  /\ Go("clear")
  /\ UNCHANGED <<ptr, lost, soft, rest, cnt>>

(* UtilTmrClearAllTmrs for the link: the connect timer was started for the    *)
(* line card, and stays.                                                      *)
ClearAllTmrs ==
  /\ At("clear")
  /\ Call("chanclose", "cmfree")
  /\ UNCHANGED <<mem, soft, rest, cnt>>

(* lChipALLinkShutdown: of each channel whose pointer is not NULL the         *)
(* handlers are removed and the memory freed; then the pointer is cleared.    *)
ChanClose ==
  /\ At("chanclose")
  /\ LET c == IF "txchan" \in ptr THEN "txchan" ELSE "rxchan"
     IN \/ /\ c \in ptr /\ Use("task", {"cm", "remote", "chip", "dslio", c})
           /\ live' = live \ {c} /\ hooks' = hooks \ {c}
           /\ Go("channull")
        \/ /\ c \notin ptr /\ Use("task", {"cm", "remote", "chip"})
           /\ Go("flcancel") /\ UNCHANGED <<live, hooks>>
  /\ UNCHANGED <<ptr, lost, soft, th, irq, flags, cnt>>

ChanNull ==
  /\ At("channull")
  /\ ptr' = ptr \ (Chans \ live)
  /\ Go("chanclose")
  /\ UNCHANGED <<live, lost, fault, soft, rest, cnt>>

(* FrameALLinkShutdown: nothing without a context; else the timer is deleted, *)
(* or its handler is waited for.                                              *)
FrameALCancel ==
  /\ At("flcancel")
  /\ \/ "flink" \notin ptr /\ Go(ret) /\ UNCHANGED timer
     \/ /\ "flink" \in ptr
        /\ timer' = [timer EXCEPT !["frame"].state = "cancelled", !["frame"].pend = FALSE]
        /\ Go(IF timer["frame"].pend THEN "flfree" ELSE "flwait")
  /\ UNCHANGED <<mem, connect, rest, cnt>>

(* WAIT_EVENT for no longer than the timer's period.                          *)
FrameALWait ==
  /\ At("flwait")
  /\ Go("flfree")
  /\ UNCHANGED <<mem, soft, rest, cnt>>

FrameALFree ==
  /\ At("flfree")
  /\ live' = live \ {"flink"}
  /\ Go("flnull")
  /\ UNCHANGED <<ptr, lost, fault, soft, rest, cnt>>

FrameALNull ==
  /\ At("flnull")
  /\ ptr' = ptr \ {"flink"}
  /\ Go(ret)
  /\ UNCHANGED <<live, lost, fault, soft, rest, cnt>>

CardMgmtFree ==
  /\ At("cmfree")
  /\ live' = live \ {"cm"} /\ ptr' = ptr \ {"cm"}
  /\ Go("mtcancel")
  /\ UNCHANGED <<lost, fault, soft, rest, cnt>>

(* The main timer is deleted; a handler that runs is told and waited for.     *)
MainCancel ==
  /\ At("mtcancel")
  /\ LET m == timer["main"]
         s == IF m.pend THEN "cancelled"
              ELSE IF m.state \in {"timing", "executing"} THEN "unloading" ELSE m.state
     IN /\ timer' = [timer EXCEPT !["main"].state = s, !["main"].pend = FALSE]
        /\ IF s = "unloading" THEN Go("mtwait") ELSE Call("modem", "modem")
  /\ UNCHANGED <<mem, connect, rest, cnt>>

(* Five seconds are many periods: they end only if the timer goes on or has   *)
(* already ended.                                                             *)
MainWait ==
  /\ At("mtwait")
  /\ LET m == timer["main"]
     IN m.ev \/ m.state = "timing" \/ ~(m.pend \/ m.run)
  /\ Call("modem", "modem")
  /\ UNCHANGED <<mem, soft, rest, cnt>>

(* The adapter shutdowns of the modem modules, and of the download modules.   *)
ModemShutdown ==
  /\ At("modem")
  /\ IF "init" \in flags THEN Call("haltTigris", "framefree") ELSE Go("download")
  /\ UNCHANGED <<mem, soft, rest, cnt>>

(* CardALAdapterHalt: nothing without a context; else the optional modules    *)
(* are shut down before the line card, whose context the modem uses.          *)
CardALDeviceAdapterHalt ==
  /\ At("haltTigris")
  /\ \/ "cal" \notin ptr /\ Go(ret) /\ UNCHANGED <<live, fault, hooks>>
     \/ /\ "cal" \in ptr /\ Use("task", {"tigris", "card", "remote", "chip"})
        /\ live' = live \ {"tigris"} /\ hooks' = hooks \ {"tigris"}
        /\ Go("haltCard")
  /\ UNCHANGED <<ptr, lost, soft, th, irq, flags, cnt>>

(* Mutant: the line is shut down whether or not the driver is.                *)
ShutdownAdslLine_Always == Use("task", {"card", "cal", "tigris"})

(* cardALChipShutdownAdslLine.                                                *)
ShutdownAdslLine ==
  Use("task", {"card", "cal"} \cup IF "shutdown" \in flags THEN {} ELSE {"tigris"})

CDALTigrisShutdown ==
  /\ At("haltCard") /\ ShutdownAdslLine
  /\ live' = live \ {"card"}
  /\ Go("haltCal")
  /\ UNCHANGED <<ptr, lost, soft, rest, cnt>>

CardALFree ==
  /\ At("haltCal")
  /\ live' = live \ {"cal"} /\ ptr' = ptr \ {"cal", "card", "tigris"}
  /\ Go(ret)
  /\ UNCHANGED <<lost, fault, soft, rest, cnt>>

FrameALAdapterShutdown ==
  /\ At("framefree")
  /\ live' = live \ {"frame"} /\ ptr' = ptr \ {"frame"}
  /\ Go("download")
  /\ UNCHANGED <<lost, fault, soft, rest, cnt>>

DownloadShutdown ==
  /\ At("download")
  /\ IF "download" \in flags THEN Call("halt", "free") ELSE Go("free")
  /\ UNCHANGED <<mem, soft, rest, cnt>>

(* ChipALAdapterHalt: nothing without an interface; else the soft timer is    *)
(* told to end, ...                                                           *)
ChipALStopTimer ==
  /\ At("halt")
  /\ \/ "chip" \notin ptr /\ Go(ret) /\ UNCHANGED timer
     \/ /\ "chip" \in ptr /\ timer["cal"].state = "timing"
        /\ Set("cal", "cancelled") /\ Go("haltwait")
     \/ /\ "chip" \in ptr /\ timer["cal"].state # "timing"
        /\ Go("unhook") /\ UNCHANGED timer
  /\ UNCHANGED <<mem, connect, rest, cnt>>

(* ... and waited for; a second is many periods.                              *)
ChipALWaitTimer ==
  /\ At("haltwait")
  /\ timer["cal"].ev
  /\ Go("unhook")
  /\ UNCHANGED <<mem, soft, rest, cnt>>

(* The lists of handlers are emptied before what the handlers use goes.       *)
ReleaseHandlers ==
  /\ At("unhook")
  /\ hooks' = {}
  /\ Go("halfree")
  /\ UNCHANGED <<mem, soft, th, irq, flags, cnt>>

(* ChipAlTigrisHalShutdown, which checks for NULL.                            *)
HalShutdown ==
  /\ At("halfree")
  /\ Use("task", IF "hal" \in ptr THEN {"hal", "remote", "chip"} ELSE {})
  /\ live' = live \ {"hal"}
  /\ Go("regiofree")
  /\ UNCHANGED <<ptr, lost, soft, rest, cnt>>

(* The controllers whose pointer is not NULL.                                 *)
RegIoShutdown ==
  /\ At("regiofree") /\ Use("task", {"chip", "bus"} \cup (RegIo \cap ptr))
  /\ live' = live \ (RegIo \cap ptr)
  /\ Go("busfree")
  /\ UNCHANGED <<ptr, lost, soft, rest, cnt>>

(* Mutant: the interrupt stays registered.                                    *)
BusRelease_KeepsIrq ==
  /\ At("busfree")
  /\ live' = live \ {"bus"}
  /\ Go("chipfree")
  /\ UNCHANGED <<ptr, lost, fault, soft, rest, cnt>>

(* CalBusCtlP46Release.                                                       *)
BusRelease ==
  /\ At("busfree")
  /\ irq' = FALSE
  /\ live' = live \ {"bus"}
  /\ Go("chipfree")
  /\ UNCHANGED <<ptr, lost, fault, soft, th, flags, hooks, cnt>>

(* chipALReleaseInterface, and the table of functions, whose pointer stays.   *)
ChipALRelease ==
  /\ At("chipfree")
  /\ live' = live \ {"chip", "remote"}
  /\ ptr' = ptr \ ({"chip", "bus", "hal"} \cup RegIo \cup Chans)
  /\ Go(ret)
  /\ UNCHANGED <<lost, fault, soft, rest, cnt>>

FreeAdapter ==
  /\ At("free")
  /\ live' = live \ {"adapter"}
  /\ Go("gone")
  /\ UNCHANGED <<ptr, lost, fault, soft, rest, cnt>>
-------------------------------------------------------------------------------
(* What runs beside the task.                                                 *)

Owner == [main |-> "adapter", cal |-> "chip", frame |-> "flink"]

(* A timer expires.  Its handler runs if the state is right; FrameAL's looks  *)
(* at the pointer to its context first.                                       *)
Expire(t) ==
  /\ timer[t].pend /\ (smp \/ Running = {})
  /\ LET there == t # "frame" \/ "flink" \in ptr
         go    == there /\ timer[t].state = "timing"
     IN /\ Use(t, IF there THEN {Owner[t]} ELSE {"adapter"})
        /\ timer' = [timer EXCEPT ![t].pend = FALSE, ![t].run = go,
                       ![t].ev = @ \/ (there /\ ~go),
                       ![t].state = IF go /\ t = "main" THEN "executing" ELSE @]
  /\ UNCHANGED <<smp, pc, ret, live, ptr, lost, connect, rest, cnt>>

(* DPLinkUp from the main timer: the link comes up, or the timer is started   *)
(* again.  CmgmtIndicateLinkUp reaches the channels and FrameAL's context     *)
(* unless their pointers are NULL.                                            *)
ConnectExpires ==
  /\ timer["main"].run /\ connect
  /\ connect' \in BOOLEAN
  /\ Use("connect", {"card", "tigris", "remote", "chip", "dslio"} \cup ((Chans \cup {"flink"}) \cap ptr))
  /\ UNCHANGED <<smp, pc, ret, live, ptr, lost, timer, rest, cnt>>

(* The handler has done its work and starts the timer again.                  *)
Restart(t) ==
  /\ timer[t].run
  /\ Use(t, {Owner[t]})
  /\ timer' = [timer EXCEPT ![t].run = FALSE, ![t].pend = TRUE,
                            ![t].state = IF t = "main" THEN "timing" ELSE @]
  /\ UNCHANGED <<smp, pc, ret, live, ptr, lost, connect, rest, cnt>>

(* ChipALIsrHandler, and by way of chipALClearInterrupt the handlers in its   *)
(* lists, to whom it gives their contexts; the line may be shared with other  *)
(* devices.                                                                   *)
Interrupt ==
  /\ irq
  /\ LET gone == Missing({"adapter", "chip"} \cup ({"bus"} \cap ptr)) \cup (hooks \ live)
     IN fault' = fault \cup ({"isr"} \X gone)
  /\ UNCHANGED <<smp, pc, ret, live, ptr, lost, soft, rest, cnt>>

(* A thread works; IndicateLinkUp starts the connect timer.                   *)
ThreadWork(t) ==
  /\ t \in th /\ (smp \/ Running = {})
  /\ Use(t, {"adapter", "cal", "tigris", "chip", "dslio", "hal"})
  /\ connect' \in BOOLEAN /\ (connect' => connect \/ "shutdown" \notin flags)
  /\ UNCHANGED <<smp, pc, ret, live, ptr, lost, timer, rest, cnt>>

Task == \/ LoaderRun \/ FrameALCfgInit \/ ChipALRemoteInf \/ ChipALAllocateInterface
        \/ NoBus \/ RegisterInterrupt \/ BusResources \/ RegIoContInit \/ StartCalTimer \/ Load
        \/ SmSysIfInit \/ ChipALInitServices \/ CardALContext \/ CDALTigrisInit
        \/ CardALDeviceAdapterInit \/ CardALDeviceEnable \/ CMLInitAllLinks
        \/ FrameALLinkInit \/ FrameALStartTimer \/ ChipALLinkInit
        \/ StartMainTimer \/ MainTimerTiming \/ CDALSetLineState
        \/ StartThread \/ FullyInitialized
        \/ Unload \/ StopThreads \/ DisableInterrupts \/ SmSysIfShutdown \/ ClearAllTmrs
        \/ ChanClose \/ ChanNull \/ FrameALCancel \/ FrameALWait \/ FrameALFree \/ FrameALNull
        \/ CardMgmtFree \/ MainCancel \/ MainWait \/ ModemShutdown
        \/ CardALDeviceAdapterHalt \/ CDALTigrisShutdown \/ CardALFree
        \/ FrameALAdapterShutdown \/ DownloadShutdown
        \/ ChipALStopTimer \/ ChipALWaitTimer \/ ReleaseHandlers \/ HalShutdown \/ RegIoShutdown
        \/ BusRelease \/ ChipALRelease \/ FreeAdapter

Next == \/ Task \/ Interrupt \/ ConnectExpires
        \/ \E t \in Timers : Expire(t) \/ Restart(t)
        \/ \E t \in Threads : ThreadWork(t)

Spec == Init /\ [][Next]_vars
-------------------------------------------------------------------------------
(* Properties.                                                                *)

(* Nobody goes through a pointer to something that is not there, whichever    *)
(* allocation fails, however often the loader is run, and whenever the driver *)
(* is unloaded.  The exception is a link that comes up while it is shut down. *)
(* On one processor: on several the handlers of the timers go on in parallel. *)
Late == {"connect"} \X (Chans \cup {"flink"})
NoFault == ~smp => fault \subseteq Late

(* Once the driver is gone nothing of it runs or is going to: no timer, no    *)
(* thread, no interrupt, and no handler is left in its lists; on several      *)
(* processors the main timer can survive.                                     *)
(* If nothing failed, all its memory has been freed.                          *)
Quiet   == /\ th = {} /\ ~irq /\ hooks = {} /\ ~timer["cal"].pend
           /\ ~smp => \A t \in Timers : ~timer[t].pend /\ ~timer[t].run
Freed   == fails = 0 /\ "init" \in flags => live \subseteq lost
UnloadsCleanly == pc = "gone" => Quiet /\ Freed
===============================================================================
