------------------------------ MODULE DriverProofs -----------------------------
(* Start and unload of the driver, proved for any number of failures and of   *)
(* runs of the loader.                                                        *)
EXTENDS Driver, TLAPS

(* The steps of the task, in their order.                                     *)
LoadSteps  == {"frame", "remote", "chip", "bus", "resources", "dslio", "armio", "eeprom", "soft"}
StartSteps == {"sm", "hal", "cardal", "card", "tigris", "enable"}
LinkSteps  == {"cm", "flink", "ftimer", "txchan", "rxchan", "mtimer", "timing", "line", "threads"}
StopSteps  == {"stop", "disable", "smfree", "clear"}
ChanSteps  == {"chanclose", "channull"}
FlSteps    == {"flcancel", "flwait", "flfree", "flnull"}
EndSteps   == {"cmfree", "mtcancel", "mtwait", "modem"}
ModemSteps == {"haltTigris", "haltCard", "haltCal", "framefree", "download"}
HaltSteps  == {"halt", "haltwait", "unhook", "halfree", "regiofree", "busfree", "chipfree"}
LastSteps  == {"free", "gone"}
Labels     == {"idle", "load"} \cup LoadSteps \cup StartSteps \cup LinkSteps \cup StopSteps
              \cup ChanSteps \cup FlSteps \cup EndSteps \cup ModemSteps \cup HaltSteps
              \cup LastSteps

Has(f)    == f \in flags
There(os) == os \subseteq live \cap ptr

TimerStates ==
  [Timers -> [state : {"uninit", "initialized", "timing", "executing", "cancelled", "unloading"},
              pend : BOOLEAN, run : BOOLEAN, ev : BOOLEAN]]
TypeOK ==
  /\ pc \in Labels /\ smp \in BOOLEAN /\ connect \in BOOLEAN /\ irq \in BOOLEAN /\ fails \in Nat
  /\ live \subseteq Objects
  /\ timer \in TimerStates

(* Which flags are set at which step, and where a routine returns to.         *)
Where ==
  /\ Has("full") => Has("init") /\ ~Has("shutdown") /\ pc \in {"idle", "load"}
  /\ Has("init") => Has("download")
  /\ pc \in LoadSteps => ~Has("download") /\ ~Has("shutdown")
  /\ pc \in {"load"} \cup StartSteps \cup LinkSteps => Has("download") /\ ~Has("shutdown")
  /\ pc \in LinkSteps \cup StopSteps => Has("init")
  /\ pc \in StopSteps \cup EndSteps \cup ModemSteps \cup LastSteps => Has("shutdown")
  /\ pc \in ChanSteps \cup FlSteps =>
       Has("init") /\ ret = (IF Has("shutdown") THEN "cmfree" ELSE "idle")
  /\ pc \in {"cmfree", "mtcancel", "mtwait"} => Has("init")
  /\ pc \in {"haltTigris", "haltCard", "haltCal", "framefree"} => Has("init")
  /\ pc \in {"haltTigris", "haltCard", "haltCal"} => ret = "framefree"
  /\ pc \in HaltSteps => \/ ret = "free" /\ Has("shutdown") /\ Has("download")
                         \/ ret = "idle" /\ ~Has("shutdown") /\ ~Has("download")
  /\ pc = "idle" => ~Has("shutdown")

(* What is there while the chip is set up and once it is, ...                 *)
ChipThere ==
  /\ pc # "gone" => There({"adapter"})
  /\ pc \in LoadSteps \ {"frame"} => There({"frame"})
  /\ pc \in LoadSteps \ {"frame", "remote"} => There({"remote"})
  /\ pc \in LoadSteps \ {"frame", "remote", "chip"} => There({"chip"})
  /\ pc \in {"dslio", "armio", "eeprom", "soft"} => There({"bus"})
  /\ pc \in {"armio", "eeprom", "soft"} => There({"dslio"})
  /\ pc \in {"eeprom", "soft"} => There({"armio"})
  /\ pc = "soft" => There({"eeprom"})
  /\ pc \in HaltSteps \ {"busfree", "chipfree"} => There({"chip", "bus"})
  /\ Has("download") /\ pc \notin {"busfree", "chipfree", "free", "gone"}
       => There({"remote", "chip", "bus"} \cup RegIo)
  /\ pc \notin {"busfree", "chipfree"} => RegIo \cap ptr \subseteq live
  /\ Has("download") /\ ~Has("shutdown") => There({"frame"})
  /\ ~Has("download") => "hal" \notin ptr
  /\ pc # "chipfree" /\ "bus" \in ptr => "bus" \in live

(* ... of the modem, ...                                                      *)
ModemThere ==
  /\ pc \in StartSteps \ {"sm"} => There({"sm"})
  /\ pc \in {"cardal", "card", "tigris", "enable"} => There({"hal"})
  /\ pc \in {"card", "tigris", "enable"} => There({"cal"})
  /\ pc \in {"tigris", "enable"} => There({"card"})
  /\ pc = "enable" => There({"tigris"})
  /\ Has("init") /\ ~Has("shutdown") => There({"sm"})
  /\ pc \in {"stop", "disable", "smfree"} => There({"sm"})
  /\ Has("init") /\ pc \notin (ModemSteps \ {"haltTigris"}) \cup HaltSteps \cup LastSteps
       => There({"hal", "cal", "card", "tigris"})
  /\ pc = "haltCard" => There({"card", "cal"})
  /\ pc \notin {"regiofree", "busfree", "chipfree"} /\ "hal" \in ptr => "hal" \in live

(* ... and of the link.                                                       *)
LinkThere ==
  /\ pc \in LinkSteps \ {"cm"} => There({"cm"})
  /\ pc \in LinkSteps \ {"cm", "flink"} => There({"flink"})
  /\ pc \in {"rxchan", "mtimer", "timing", "line", "threads"} => There({"txchan"})
  /\ pc \in {"mtimer", "timing", "line", "threads"} => There({"rxchan"})
  /\ Has("full") \/ pc \in StopSteps => There({"cm", "flink"} \cup Chans)
  /\ pc \in ChanSteps => There({"cm", "flink"})
  /\ pc = "flcancel" /\ Has("shutdown") => There({"flink"})
  /\ Chans \cap live \subseteq ptr
  /\ Chans \cap ptr # {} => \/ Has("full")
                            \/ pc \in {"rxchan", "mtimer", "timing", "line", "threads"}
                            \/ pc \in StopSteps \cup ChanSteps
  /\ pc # "channull" => Chans \cap ptr \subseteq live

(* The interrupt, the threads and the soft timer run only while all that they *)
(* use is there.                                                              *)
Active(t) == timer[t].pend \/ timer[t].run
OthersOK ==
  /\ irq => /\ There({"chip"}) /\ pc \notin {"chipfree", "free", "gone"}
            /\ \/ Has("download")
               \/ pc \in {"resources", "dslio", "armio", "eeprom", "soft"} \cup HaltSteps
  /\ th # {} => Has("full") \/ pc \in {"threads", "stop"}
HooksOK ==
  /\ hooks \subseteq live \cap ({"dslio", "armio", "hal", "tigris"} \cup Chans)
  /\ hooks # {} => /\ There({"chip"})
                   /\ pc \notin {"halfree", "regiofree", "busfree", "chipfree", "free", "gone"}
                   /\ \/ Has("download")
                      \/ pc \in {"armio", "eeprom", "soft", "halt", "haltwait", "unhook"}
CalTimerOK ==
  LET c == timer["cal"] IN
  /\ ~(c.pend /\ c.run)
  /\ Active("cal") => /\ Has("download")
                      /\ pc \notin {"unhook", "halfree", "regiofree", "busfree", "chipfree",
                                    "free", "gone"}
  /\ ~Has("download") => c.state = "uninit"
  /\ Has("download") /\ pc \notin (HaltSteps \ {"halt"}) \cup LastSteps => c.state = "timing"
  /\ pc = "haltwait" => c.state = "cancelled"
  /\ c.ev => c.state = "cancelled" /\ ~Active("cal")

(* On one processor the same goes for the main timer and FrameAL's.           *)
TimersOK ==
  ~smp =>
    /\ Active("frame") =>
         /\ There({"flink"})
         /\ \/ Has("full") \/ pc \in {"txchan", "rxchan", "mtimer", "timing", "line", "threads"}
            \/ pc \in StopSteps \cup ChanSteps \cup {"flcancel"}
    /\ Active("main") =>
         \/ Has("full") \/ pc \in {"timing", "line", "threads"}
         \/ /\ pc \in StopSteps \cup ChanSteps \cup FlSteps \cup {"cmfree", "mtcancel"}
            /\ Has("shutdown")

(* If nothing failed the unload comes past everything that was allocated.     *)
AfterHalt  == LastSteps
AfterModem == HaltSteps \cup AfterHalt
AfterEnd   == ModemSteps \cup AfterModem
AfterFl    == EndSteps \cup AfterEnd
AfterStop  == FlSteps \cup AfterFl
Released ==
  /\ pc \in {"clear"} \cup ChanSteps \cup AfterStop => "sm" \notin live
  /\ pc \in AfterStop => Chans \cap live = {}
  /\ pc \in {"flnull"} \cup AfterFl => "flink" \notin live
  /\ pc \in AfterFl \ {"cmfree"} => "cm" \notin live
  /\ pc \in AfterEnd \ {"haltTigris"} => "tigris" \notin live
  /\ pc \in AfterEnd \ {"haltTigris", "haltCard"} => "card" \notin live
  /\ pc \in {"framefree", "download"} \cup AfterModem => "cal" \notin live
  /\ pc \in {"download"} \cup AfterModem => "frame" \notin live
  /\ pc \in {"regiofree", "busfree", "chipfree"} \cup AfterHalt => "hal" \notin live
  /\ pc \in {"busfree", "chipfree"} \cup AfterHalt => RegIo \cap live = {}
  /\ pc \in {"chipfree"} \cup AfterHalt => "bus" \notin live
  /\ pc \in AfterHalt => "chip" \notin live /\ "remote" \notin live
  /\ pc = "gone" => "adapter" \notin live
NothingForgotten ==
  /\ "fops" \in lost
  /\ fails = 0 /\ Has("init") =>
       /\ Has("full") \/ Has("shutdown") \/ pc \in LinkSteps
       /\ Has("shutdown") => Released

DInv == /\ TypeOK /\ Where /\ ChipThere /\ ModemThere /\ LinkThere
        /\ OthersOK /\ HooksOK /\ CalTimerOK /\ TimersOK /\ NothingForgotten /\ NoFault

(* The steps of the task, part by part.                                       *)
ChipUp ==
  \/ LoaderRun \/ FrameALCfgInit \/ ChipALRemoteInf
  \/ ChipALAllocateInterface \/ NoBus \/ RegisterInterrupt \/ BusResources
  \/ RegIoContInit \/ StartCalTimer \/ Load
ModemUp ==
  \/ SmSysIfInit \/ ChipALInitServices \/ CardALContext \/ CDALTigrisInit
  \/ CardALDeviceAdapterInit \/ CardALDeviceEnable
LinkUp ==
  \/ CMLInitAllLinks \/ FrameALLinkInit \/ FrameALStartTimer
  \/ ChipALLinkInit \/ StartMainTimer \/ MainTimerTiming \/ CDALSetLineState
  \/ StartThread \/ FullyInitialized
Stopping ==
  \/ Unload \/ StopThreads \/ DisableInterrupts \/ SmSysIfShutdown
  \/ ClearAllTmrs \/ ChanClose \/ ChanNull
LinkDown ==
  \/ FrameALCancel \/ FrameALWait \/ FrameALFree \/ FrameALNull
  \/ CardMgmtFree \/ MainCancel \/ MainWait \/ ModemShutdown
ModemDown ==
  \/ CardALDeviceAdapterHalt \/ CDALTigrisShutdown \/ CardALFree
  \/ FrameALAdapterShutdown \/ DownloadShutdown
ChipDown ==
  \/ ChipALStopTimer \/ ChipALWaitTimer \/ ReleaseHandlers \/ HalShutdown \/ RegIoShutdown
  \/ BusRelease \/ ChipALRelease \/ FreeAdapter

(* The objects whose failed allocation the start survives; README, section 6, *)
(* says what the others lead to.                                              *)
Survived == {"remote", "chip", "bus", "cal", "cm", "flink"} \cup RegIo \cup Chans

(* Vocabulary that every proof below may expand.                              *)
USE DEF Has, There, Active, At, Go, Call, Use, Refuse, Get, NoGet, Gained, Set, Running
USE DEF mem, soft, rest, cnt, Objects, RegIo, Chans, Timers, Missing, Controller, ChanOpen
USE DEF LoadSteps, StartSteps, LinkSteps, StopSteps, ChanSteps, FlSteps, EndSteps
USE DEF ModemSteps, HaltSteps, LastSteps

(* The chip is set up.                                                        *)
LEMMA ChipUpKeeps ==
  ASSUME FailAt \subseteq Survived, DInv, ChipUp
  PROVE  DInv'
<1>1. TypeOK'
  <2>1. pc' \in Labels
    BY DEF DInv, TypeOK, Where, Labels, ChipUp, LoaderRun, FrameALCfgInit, ChipALRemoteInf,
           ChipALAllocateInterface, NoBus, RegisterInterrupt, BusResources, RegIoContInit,
           StartCalTimer, Load
  <2>2. live' \subseteq Objects
    BY DEF DInv, TypeOK, ChipUp, LoaderRun, FrameALCfgInit, ChipALRemoteInf,
           ChipALAllocateInterface, NoBus, RegisterInterrupt, BusResources, RegIoContInit,
           StartCalTimer, Load
  <2>3. timer' \in TimerStates
    <3>1. CASE StartCalTimer
      BY <3>1 DEF DInv, TypeOK, TimerStates, StartCalTimer
    <3>2. CASE UNCHANGED timer
      BY <3>2 DEF DInv, TypeOK
    <3>. QED
      BY <3>1, <3>2 DEF ChipUp, LoaderRun, FrameALCfgInit, ChipALRemoteInf,
             ChipALAllocateInterface, NoBus, RegisterInterrupt, BusResources, RegIoContInit,
             StartCalTimer, Load
  <2>4. smp' \in BOOLEAN /\ connect' \in BOOLEAN /\ irq' \in BOOLEAN
    BY DEF DInv, TypeOK, ChipUp, LoaderRun, FrameALCfgInit, ChipALRemoteInf,
           ChipALAllocateInterface, NoBus, RegisterInterrupt, BusResources, RegIoContInit,
           StartCalTimer, Load
  <2>5. fails' \in Nat
    BY DEF DInv, TypeOK, ChipUp, LoaderRun, FrameALCfgInit, ChipALRemoteInf,
           ChipALAllocateInterface, NoBus, RegisterInterrupt, BusResources, RegIoContInit,
           StartCalTimer, Load
  <2>. QED
    BY <2>1, <2>2, <2>3, <2>4, <2>5 DEF TypeOK
<1>2. Where'
  BY DEF DInv, Where, ChipUp, LoaderRun, FrameALCfgInit, ChipALRemoteInf,
         ChipALAllocateInterface, NoBus, RegisterInterrupt, BusResources, RegIoContInit,
         StartCalTimer, Load
<1>3. ChipThere'
  <2>1. CASE RegIoContInit
    <3>1. CASE Controller("dslio", "armio")
      BY <3>1 DEF DInv, Where, ChipThere
    <3>2. CASE Controller("armio", "eeprom")
      BY <3>2 DEF DInv, Where, ChipThere
    <3>3. CASE Controller("eeprom", "soft")
      BY <3>3 DEF DInv, Where, ChipThere
    <3>. QED
      BY <2>1, <3>1, <3>2, <3>3 DEF RegIoContInit
  <2>2. CASE StartCalTimer \/ Load
    BY <2>2 DEF DInv, Where, ChipThere, StartCalTimer, Load
  <2>3. CASE LoaderRun \/ FrameALCfgInit \/ ChipALRemoteInf \/ ChipALAllocateInterface
    BY <2>3 DEF DInv, Where, ChipThere, Survived, LoaderRun, FrameALCfgInit, ChipALRemoteInf,
           ChipALAllocateInterface
  <2>4. CASE NoBus \/ RegisterInterrupt \/ BusResources
    BY <2>4 DEF DInv, Where, ChipThere, NoBus, RegisterInterrupt, BusResources
  <2>. QED
    BY <2>1, <2>2, <2>3, <2>4 DEF ChipUp
<1>4. ModemThere'
  BY DEF DInv, ModemThere, ChipUp, LoaderRun, FrameALCfgInit, ChipALRemoteInf,
         ChipALAllocateInterface, NoBus, RegisterInterrupt, BusResources, RegIoContInit,
         StartCalTimer, Load
<1>5. LinkThere'
  BY DEF DInv, LinkThere, ChipUp, LoaderRun, FrameALCfgInit, ChipALRemoteInf,
         ChipALAllocateInterface, NoBus, RegisterInterrupt, BusResources, RegIoContInit,
         StartCalTimer, Load
<1>6. OthersOK'
  BY DEF DInv, Where, ChipThere, OthersOK, ChipUp, LoaderRun, FrameALCfgInit, ChipALRemoteInf,
         ChipALAllocateInterface, NoBus, RegisterInterrupt, BusResources, RegIoContInit,
         StartCalTimer, Load
<1>7. CalTimerOK'
  BY DEF DInv, TypeOK, CalTimerOK, TimerStates, ChipUp, LoaderRun, FrameALCfgInit,
         ChipALRemoteInf, ChipALAllocateInterface, NoBus, RegisterInterrupt, BusResources,
         RegIoContInit, StartCalTimer, Load
<1>8. TimersOK'
  BY DEF DInv, TypeOK, TimersOK, TimerStates, ChipUp, LoaderRun, FrameALCfgInit,
         ChipALRemoteInf, ChipALAllocateInterface, NoBus, RegisterInterrupt, BusResources,
         RegIoContInit, StartCalTimer, Load
<1>9. NothingForgotten'
  BY DEF DInv, TypeOK, NothingForgotten, Released, AfterHalt, AfterModem, AfterEnd, AfterFl,
         AfterStop, ChipUp, LoaderRun, FrameALCfgInit, ChipALRemoteInf, ChipALAllocateInterface,
         NoBus, RegisterInterrupt, BusResources, RegIoContInit, StartCalTimer, Load
<1>10. NoFault'
  BY DEF DInv, ChipThere, NoFault, ChipUp, LoaderRun, FrameALCfgInit, ChipALRemoteInf,
         ChipALAllocateInterface, NoBus, RegisterInterrupt, BusResources, RegIoContInit,
         StartCalTimer, Load
<1>11. HooksOK'
  <2>1. CASE LoaderRun
    BY <2>1 DEF DInv, Where, HooksOK, LoaderRun
  <2>2. CASE FrameALCfgInit
    BY <2>2 DEF DInv, Where, HooksOK, FrameALCfgInit
  <2>3. CASE ChipALRemoteInf
    BY <2>3 DEF DInv, Where, HooksOK, ChipALRemoteInf
  <2>4. CASE ChipALAllocateInterface
    BY <2>4 DEF DInv, Where, HooksOK, ChipALAllocateInterface
  <2>5. CASE NoBus
    BY <2>5 DEF DInv, Where, HooksOK, NoBus
  <2>6. CASE RegisterInterrupt
    BY <2>6 DEF DInv, Where, HooksOK, RegisterInterrupt
  <2>7. CASE BusResources
    BY <2>7 DEF DInv, Where, HooksOK, BusResources
  <2>8. CASE RegIoContInit
    <3>1. CASE Controller("dslio", "armio")
      BY <3>1 DEF DInv, Where, ChipThere, HooksOK
    <3>2. CASE Controller("armio", "eeprom")
      BY <3>2 DEF DInv, Where, ChipThere, HooksOK
    <3>3. CASE Controller("eeprom", "soft")
      BY <3>3 DEF DInv, Where, ChipThere, HooksOK
    <3>. QED
      BY <2>8, <3>1, <3>2, <3>3 DEF RegIoContInit
  <2>9. CASE StartCalTimer
    BY <2>9 DEF DInv, Where, HooksOK, StartCalTimer
  <2>10. CASE Load
    BY <2>10 DEF DInv, Where, HooksOK, Load
  <2>. QED
    BY <2>1, <2>2, <2>3, <2>4, <2>5, <2>6, <2>7, <2>8, <2>9, <2>10 DEF ChipUp
<1>. QED
  BY <1>1, <1>2, <1>3, <1>4, <1>5, <1>6, <1>7, <1>8, <1>9, <1>10, <1>11
  DEF DInv

(* The modem is set up.                                                       *)
LEMMA ModemUpKeeps ==
  ASSUME FailAt \subseteq Survived, DInv, ModemUp
  PROVE  DInv'
<1>1. TypeOK'
  <2>1. pc' \in Labels
    BY DEF DInv, TypeOK, Where, Labels, ModemUp, SmSysIfInit, ChipALInitServices, CardALContext,
           CDALTigrisInit, CardALDeviceAdapterInit, CardALDeviceEnable
  <2>2. live' \subseteq Objects
    BY DEF DInv, TypeOK, ModemUp, SmSysIfInit, ChipALInitServices, CardALContext,
           CDALTigrisInit, CardALDeviceAdapterInit, CardALDeviceEnable
  <2>3. timer' \in TimerStates
    BY DEF DInv, TypeOK, TimerStates, ModemUp, SmSysIfInit, ChipALInitServices, CardALContext,
           CDALTigrisInit, CardALDeviceAdapterInit, CardALDeviceEnable
  <2>4. smp' \in BOOLEAN /\ connect' \in BOOLEAN /\ irq' \in BOOLEAN
    BY DEF DInv, TypeOK, ModemUp, SmSysIfInit, ChipALInitServices, CardALContext,
           CDALTigrisInit, CardALDeviceAdapterInit, CardALDeviceEnable
  <2>5. fails' \in Nat
    BY DEF DInv, TypeOK, ModemUp, SmSysIfInit, ChipALInitServices, CardALContext,
           CDALTigrisInit, CardALDeviceAdapterInit, CardALDeviceEnable
  <2>. QED
    BY <2>1, <2>2, <2>3, <2>4, <2>5 DEF TypeOK
<1>2. Where'
  BY DEF DInv, Where, Survived, ModemUp, SmSysIfInit, ChipALInitServices, CardALContext,
         CDALTigrisInit, CardALDeviceAdapterInit, CardALDeviceEnable
<1>3. ChipThere'
  BY DEF DInv, Where, ChipThere, ModemUp, SmSysIfInit, ChipALInitServices, CardALContext,
         CDALTigrisInit, CardALDeviceAdapterInit, CardALDeviceEnable
<1>4. ModemThere'
  BY DEF DInv, ModemThere, Survived, ModemUp, SmSysIfInit, ChipALInitServices, CardALContext,
         CDALTigrisInit, CardALDeviceAdapterInit, CardALDeviceEnable
<1>5. LinkThere'
  BY DEF DInv, LinkThere, ModemUp, SmSysIfInit, ChipALInitServices, CardALContext,
         CDALTigrisInit, CardALDeviceAdapterInit, CardALDeviceEnable
<1>6. OthersOK'
  BY DEF DInv, OthersOK, ModemUp, SmSysIfInit, ChipALInitServices, CardALContext,
         CDALTigrisInit, CardALDeviceAdapterInit, CardALDeviceEnable
<1>7. CalTimerOK'
  BY DEF DInv, TypeOK, CalTimerOK, TimerStates, ModemUp, SmSysIfInit, ChipALInitServices,
         CardALContext, CDALTigrisInit, CardALDeviceAdapterInit, CardALDeviceEnable
<1>8. TimersOK'
  BY DEF DInv, TypeOK, TimersOK, TimerStates, ModemUp, SmSysIfInit, ChipALInitServices,
         CardALContext, CDALTigrisInit, CardALDeviceAdapterInit, CardALDeviceEnable
<1>9. NothingForgotten'
  BY DEF DInv, TypeOK, Where, NothingForgotten, Released, AfterHalt, AfterModem, AfterEnd,
         AfterFl, AfterStop, Survived, ModemUp, SmSysIfInit, ChipALInitServices, CardALContext,
         CDALTigrisInit, CardALDeviceAdapterInit, CardALDeviceEnable
<1>10. NoFault'
  BY DEF DInv, Where, ChipThere, ModemThere, NoFault, ModemUp, SmSysIfInit, ChipALInitServices,
         CardALContext, CDALTigrisInit, CardALDeviceAdapterInit, CardALDeviceEnable
<1>11. HooksOK'
  <2>1. CASE SmSysIfInit
    BY <2>1 DEF DInv, Where, HooksOK, SmSysIfInit
  <2>2. CASE ChipALInitServices
    BY <2>2 DEF DInv, Where, ChipThere, HooksOK, ChipALInitServices
  <2>3. CASE CardALContext
    BY <2>3 DEF DInv, Where, HooksOK, CardALContext
  <2>4. CASE CDALTigrisInit
    BY <2>4 DEF DInv, Where, HooksOK, CDALTigrisInit
  <2>5. CASE CardALDeviceAdapterInit
    BY <2>5 DEF DInv, Where, ChipThere, HooksOK, CardALDeviceAdapterInit
  <2>6. CASE CardALDeviceEnable
    BY <2>6 DEF DInv, Where, HooksOK, CardALDeviceEnable
  <2>. QED
    BY <2>1, <2>2, <2>3, <2>4, <2>5, <2>6 DEF ModemUp
<1>. QED
  BY <1>1, <1>2, <1>3, <1>4, <1>5, <1>6, <1>7, <1>8, <1>9, <1>10, <1>11
  DEF DInv

(* The link is set up.                                                        *)
LEMMA LinkUpKeeps ==
  ASSUME DInv, LinkUp
  PROVE  DInv'
<1>1. TypeOK'
  <2>1. pc' \in Labels
    BY DEF DInv, TypeOK, Where, Labels, LinkUp, CMLInitAllLinks, FrameALLinkInit,
           FrameALStartTimer, ChipALLinkInit, StartMainTimer, MainTimerTiming, CDALSetLineState,
           StartThread, FullyInitialized
  <2>2. live' \subseteq Objects
    BY DEF DInv, TypeOK, LinkUp, CMLInitAllLinks, FrameALLinkInit, FrameALStartTimer,
           ChipALLinkInit, StartMainTimer, MainTimerTiming, CDALSetLineState, StartThread,
           FullyInitialized
  <2>3. timer' \in TimerStates
    <3>1. CASE FrameALStartTimer
      BY <3>1 DEF DInv, TypeOK, TimerStates, FrameALStartTimer
    <3>2. CASE StartMainTimer
      BY <3>2 DEF DInv, TypeOK, TimerStates, StartMainTimer
    <3>3. CASE MainTimerTiming
      BY <3>3 DEF DInv, TypeOK, TimerStates, MainTimerTiming
    <3>4. CASE UNCHANGED timer
      BY <3>4 DEF DInv, TypeOK
    <3>. QED
      BY <3>1, <3>2, <3>3, <3>4 DEF LinkUp, CMLInitAllLinks, FrameALLinkInit, FrameALStartTimer,
             ChipALLinkInit, StartMainTimer, MainTimerTiming, CDALSetLineState, StartThread,
             FullyInitialized
  <2>4. smp' \in BOOLEAN /\ connect' \in BOOLEAN /\ irq' \in BOOLEAN
    BY DEF DInv, TypeOK, LinkUp, CMLInitAllLinks, FrameALLinkInit, FrameALStartTimer,
           ChipALLinkInit, StartMainTimer, MainTimerTiming, CDALSetLineState, StartThread,
           FullyInitialized
  <2>5. fails' \in Nat
    BY DEF DInv, TypeOK, LinkUp, CMLInitAllLinks, FrameALLinkInit, FrameALStartTimer,
           ChipALLinkInit, StartMainTimer, MainTimerTiming, CDALSetLineState, StartThread,
           FullyInitialized
  <2>. QED
    BY <2>1, <2>2, <2>3, <2>4, <2>5 DEF TypeOK
<1>2. Where'
  BY DEF DInv, Where, LinkUp, CMLInitAllLinks, FrameALLinkInit, FrameALStartTimer,
         ChipALLinkInit, StartMainTimer, MainTimerTiming, CDALSetLineState, StartThread,
         FullyInitialized
<1>3. ChipThere'
  BY DEF DInv, ChipThere, LinkUp, CMLInitAllLinks, FrameALLinkInit, FrameALStartTimer,
         ChipALLinkInit, StartMainTimer, MainTimerTiming, CDALSetLineState, StartThread,
         FullyInitialized
<1>4. ModemThere'
  BY DEF DInv, ModemThere, LinkUp, CMLInitAllLinks, FrameALLinkInit, FrameALStartTimer,
         ChipALLinkInit, StartMainTimer, MainTimerTiming, CDALSetLineState, StartThread,
         FullyInitialized
<1>5. LinkThere'
  BY DEF DInv, Where, LinkThere, LinkUp, CMLInitAllLinks, FrameALLinkInit, FrameALStartTimer,
         ChipALLinkInit, StartMainTimer, MainTimerTiming, CDALSetLineState, StartThread,
         FullyInitialized
<1>6. OthersOK'
  BY DEF DInv, OthersOK, LinkUp, CMLInitAllLinks, FrameALLinkInit, FrameALStartTimer,
         ChipALLinkInit, StartMainTimer, MainTimerTiming, CDALSetLineState, StartThread,
         FullyInitialized
<1>7. CalTimerOK'
  BY DEF DInv, TypeOK, CalTimerOK, TimerStates, LinkUp, CMLInitAllLinks, FrameALLinkInit,
         FrameALStartTimer, ChipALLinkInit, StartMainTimer, MainTimerTiming, CDALSetLineState,
         StartThread, FullyInitialized
<1>8. TimersOK'
  BY DEF DInv, TypeOK, LinkThere, TimersOK, TimerStates, LinkUp, CMLInitAllLinks,
         FrameALLinkInit, FrameALStartTimer, ChipALLinkInit, StartMainTimer, MainTimerTiming,
         CDALSetLineState, StartThread, FullyInitialized
<1>9. NothingForgotten'
  BY DEF DInv, TypeOK, NothingForgotten, Released, AfterHalt, AfterModem, AfterEnd, AfterFl,
         AfterStop, LinkUp, CMLInitAllLinks, FrameALLinkInit, FrameALStartTimer, ChipALLinkInit,
         StartMainTimer, MainTimerTiming, CDALSetLineState, StartThread, FullyInitialized
<1>10. NoFault'
  <2>1. CASE ChipALLinkInit
    <3>1. There({"cm", "chip", "remote", "dslio"})
      BY <2>1 DEF DInv, Where, ChipThere, LinkThere, ChipALLinkInit
    <3>2. fault' = fault /\ smp' = smp
      BY <2>1, <3>1 DEF ChipALLinkInit
    <3>. QED
      BY <3>2 DEF DInv, NoFault
  <2>2. CASE CDALSetLineState
    BY <2>2 DEF DInv, Where, ModemThere, NoFault, CDALSetLineState
  <2>3. CASE FrameALLinkInit
    BY <2>3 DEF DInv, Where, ChipThere, NoFault, FrameALLinkInit
  <2>4. CASE CMLInitAllLinks \/ FrameALStartTimer \/ StartMainTimer \/ MainTimerTiming
             \/ StartThread \/ FullyInitialized
    BY <2>4 DEF DInv, NoFault, CMLInitAllLinks, FrameALStartTimer, StartMainTimer,
           MainTimerTiming, StartThread, FullyInitialized
  <2>. QED
    BY <2>1, <2>2, <2>3, <2>4 DEF LinkUp
<1>11. HooksOK'
  <2>1. CASE CMLInitAllLinks
    BY <2>1 DEF DInv, Where, HooksOK, CMLInitAllLinks
  <2>2. CASE FrameALLinkInit
    BY <2>2 DEF DInv, Where, HooksOK, FrameALLinkInit
  <2>3. CASE FrameALStartTimer
    BY <2>3 DEF DInv, Where, HooksOK, FrameALStartTimer
  <2>4. CASE ChipALLinkInit
    BY <2>4 DEF DInv, Where, ChipThere, HooksOK, ChipALLinkInit
  <2>5. CASE StartMainTimer
    BY <2>5 DEF DInv, Where, HooksOK, StartMainTimer
  <2>6. CASE MainTimerTiming
    BY <2>6 DEF DInv, Where, HooksOK, MainTimerTiming
  <2>7. CASE CDALSetLineState
    BY <2>7 DEF DInv, Where, HooksOK, CDALSetLineState
  <2>8. CASE StartThread
    BY <2>8 DEF DInv, Where, HooksOK, StartThread
  <2>9. CASE FullyInitialized
    BY <2>9 DEF DInv, Where, HooksOK, FullyInitialized
  <2>. QED
    BY <2>1, <2>2, <2>3, <2>4, <2>5, <2>6, <2>7, <2>8, <2>9 DEF LinkUp
<1>. QED
  BY <1>1, <1>2, <1>3, <1>4, <1>5, <1>6, <1>7, <1>8, <1>9, <1>10, <1>11
  DEF DInv

(* The unload stops the threads and closes the channels, ...                  *)
LEMMA StoppingKeeps ==
  ASSUME DInv, Stopping
  PROVE  DInv'
<1>1. TypeOK'
  <2>1. pc' \in Labels
    BY DEF DInv, TypeOK, Where, Labels, Stopping, Unload, StopThreads, DisableInterrupts,
           SmSysIfShutdown, ClearAllTmrs, ChanClose, ChanNull
  <2>2. live' \subseteq Objects
    BY DEF DInv, TypeOK, Stopping, Unload, StopThreads, DisableInterrupts, SmSysIfShutdown,
           ClearAllTmrs, ChanClose, ChanNull
  <2>3. timer' \in TimerStates
    BY DEF DInv, TypeOK, TimerStates, Stopping, Unload, StopThreads, DisableInterrupts,
           SmSysIfShutdown, ClearAllTmrs, ChanClose, ChanNull
  <2>4. smp' \in BOOLEAN /\ connect' \in BOOLEAN /\ irq' \in BOOLEAN
    BY DEF DInv, TypeOK, Stopping, Unload, StopThreads, DisableInterrupts, SmSysIfShutdown,
           ClearAllTmrs, ChanClose, ChanNull
  <2>5. fails' \in Nat
    BY DEF DInv, TypeOK, Stopping, Unload, StopThreads, DisableInterrupts, SmSysIfShutdown,
           ClearAllTmrs, ChanClose, ChanNull
  <2>. QED
    BY <2>1, <2>2, <2>3, <2>4, <2>5 DEF TypeOK
<1>2. Where'
  BY DEF DInv, Where, Stopping, Unload, StopThreads, DisableInterrupts, SmSysIfShutdown,
         ClearAllTmrs, ChanClose, ChanNull
<1>3. ChipThere'
  BY DEF DInv, ChipThere, Stopping, Unload, StopThreads, DisableInterrupts, SmSysIfShutdown,
         ClearAllTmrs, ChanClose, ChanNull
<1>4. ModemThere'
  BY DEF DInv, Where, ModemThere, Stopping, Unload, StopThreads, DisableInterrupts,
         SmSysIfShutdown, ClearAllTmrs, ChanClose, ChanNull
<1>5. LinkThere'
  BY DEF DInv, Where, LinkThere, Stopping, Unload, StopThreads, DisableInterrupts,
         SmSysIfShutdown, ClearAllTmrs, ChanClose, ChanNull
<1>6. OthersOK'
  BY DEF DInv, OthersOK, Stopping, Unload, StopThreads, DisableInterrupts, SmSysIfShutdown,
         ClearAllTmrs, ChanClose, ChanNull
<1>7. CalTimerOK'
  BY DEF DInv, CalTimerOK, Stopping, Unload, StopThreads, DisableInterrupts, SmSysIfShutdown,
         ClearAllTmrs, ChanClose, ChanNull
<1>8. TimersOK'
  BY DEF DInv, TimersOK, Stopping, Unload, StopThreads, DisableInterrupts, SmSysIfShutdown,
         ClearAllTmrs, ChanClose, ChanNull
<1>9. NothingForgotten'
  <2>1. CASE Unload
    <3>1. /\ pc = "idle" /\ fails' = fails /\ lost' = lost
          /\ flags' = (flags \cup {"shutdown"}) \ {"full"}
          /\ Has("full") => pc' = "stop"
      BY <2>1 DEF Unload
    <3>2. pc' = "stop" => Released'
      BY DEF Released, AfterStop, AfterFl, AfterEnd, AfterModem, AfterHalt
    <3>. QED
      BY <3>1, <3>2 DEF DInv, Where, NothingForgotten, LinkSteps
  <2>2. CASE StopThreads \/ DisableInterrupts \/ SmSysIfShutdown \/ ClearAllTmrs
    BY <2>2 DEF DInv, Where, NothingForgotten, Released, AfterStop, AfterFl, AfterEnd,
           AfterModem, AfterHalt, StopThreads, DisableInterrupts, SmSysIfShutdown, ClearAllTmrs
  <2>3. CASE ChanClose
    <3>1. /\ pc = "chanclose" /\ pc' \in {"channull", "flcancel"} /\ live' \subseteq live
          /\ UNCHANGED <<flags, fails, lost>>
      BY <2>3 DEF ChanClose
    <3>2. pc' = "flcancel" => Chans \cap live' = {}
      BY <2>3 DEF DInv, LinkThere, ChanClose
    <3>3. Released => Released'
      BY <3>1, <3>2 DEF Released, AfterStop, AfterFl, AfterEnd, AfterModem, AfterHalt
    <3>4. Has("full") => pc \in {"idle", "load"}
      BY DEF DInv, Where
    <3>. QED
      BY <3>1, <3>3, <3>4 DEF DInv, NothingForgotten
  <2>4. CASE ChanNull
    <3>1. /\ pc = "channull" /\ pc' = "chanclose" /\ UNCHANGED <<live, flags, fails, lost>>
      BY <2>4 DEF ChanNull
    <3>2. Released => Released'
      BY <3>1 DEF Released, AfterStop, AfterFl, AfterEnd, AfterModem, AfterHalt
    <3>. QED
      BY <3>1, <3>2 DEF DInv, NothingForgotten
  <2>. QED
    BY <2>1, <2>2, <2>3, <2>4 DEF Stopping
<1>10. NoFault'
  BY DEF DInv, Where, ChipThere, ModemThere, LinkThere, NoFault, Stopping, Unload, StopThreads,
         DisableInterrupts, SmSysIfShutdown, ClearAllTmrs, ChanClose, ChanNull
<1>11. HooksOK'
  <2>1. CASE Unload
    BY <2>1 DEF DInv, Where, HooksOK, Unload
  <2>2. CASE StopThreads
    BY <2>2 DEF DInv, Where, HooksOK, StopThreads
  <2>3. CASE DisableInterrupts
    BY <2>3 DEF DInv, Where, HooksOK, DisableInterrupts
  <2>4. CASE SmSysIfShutdown
    BY <2>4 DEF DInv, Where, HooksOK, SmSysIfShutdown
  <2>5. CASE ClearAllTmrs
    BY <2>5 DEF DInv, Where, HooksOK, ClearAllTmrs
  <2>6. CASE ChanClose
    BY <2>6 DEF DInv, Where, HooksOK, ChanClose
  <2>7. CASE ChanNull
    BY <2>7 DEF DInv, Where, HooksOK, ChanNull
  <2>. QED
    BY <2>1, <2>2, <2>3, <2>4, <2>5, <2>6, <2>7 DEF Stopping
<1>. QED
  BY <1>1, <1>2, <1>3, <1>4, <1>5, <1>6, <1>7, <1>8, <1>9, <1>10, <1>11
  DEF DInv

(* ... shuts down the link, ...                                               *)
LEMMA LinkDownKeeps ==
  ASSUME DInv, LinkDown
  PROVE  DInv'
<1>1. TypeOK'
  <2>1. pc' \in Labels
    BY DEF DInv, TypeOK, Where, Labels, LinkDown, FrameALCancel, FrameALWait, FrameALFree,
           FrameALNull, CardMgmtFree, MainCancel, MainWait, ModemShutdown
  <2>2. live' \subseteq Objects
    BY DEF DInv, TypeOK, LinkDown, FrameALCancel, FrameALWait, FrameALFree, FrameALNull,
           CardMgmtFree, MainCancel, MainWait, ModemShutdown
  <2>3. timer' \in TimerStates
    BY DEF DInv, TypeOK, TimerStates, LinkDown, FrameALCancel, FrameALWait, FrameALFree,
           FrameALNull, CardMgmtFree, MainCancel, MainWait, ModemShutdown
  <2>4. smp' \in BOOLEAN /\ connect' \in BOOLEAN /\ irq' \in BOOLEAN
    BY DEF DInv, TypeOK, LinkDown, FrameALCancel, FrameALWait, FrameALFree, FrameALNull,
           CardMgmtFree, MainCancel, MainWait, ModemShutdown
  <2>5. fails' \in Nat
    BY DEF DInv, TypeOK, LinkDown, FrameALCancel, FrameALWait, FrameALFree, FrameALNull,
           CardMgmtFree, MainCancel, MainWait, ModemShutdown
  <2>. QED
    BY <2>1, <2>2, <2>3, <2>4, <2>5 DEF TypeOK
<1>2. Where'
  BY DEF DInv, Where, LinkDown, FrameALCancel, FrameALWait, FrameALFree, FrameALNull,
         CardMgmtFree, MainCancel, MainWait, ModemShutdown
<1>3. ChipThere'
  BY DEF DInv, Where, ChipThere, LinkDown, FrameALCancel, FrameALWait, FrameALFree, FrameALNull,
         CardMgmtFree, MainCancel, MainWait, ModemShutdown
<1>4. ModemThere'
  BY DEF DInv, Where, ModemThere, LinkDown, FrameALCancel, FrameALWait, FrameALFree,
         FrameALNull, CardMgmtFree, MainCancel, MainWait, ModemShutdown
<1>5. LinkThere'
  BY DEF DInv, Where, LinkThere, LinkDown, FrameALCancel, FrameALWait, FrameALFree, FrameALNull,
         CardMgmtFree, MainCancel, MainWait, ModemShutdown
<1>6. OthersOK'
  BY DEF DInv, Where, OthersOK, LinkDown, FrameALCancel, FrameALWait, FrameALFree, FrameALNull,
         CardMgmtFree, MainCancel, MainWait, ModemShutdown
<1>7. CalTimerOK'
  BY DEF DInv, TypeOK, Where, CalTimerOK, TimerStates, LinkDown, FrameALCancel, FrameALWait,
         FrameALFree, FrameALNull, CardMgmtFree, MainCancel, MainWait, ModemShutdown
<1>8. TimersOK'
  BY DEF DInv, TypeOK, Where, TimersOK, TimerStates, LinkDown, FrameALCancel, FrameALWait,
         FrameALFree, FrameALNull, CardMgmtFree, MainCancel, MainWait, ModemShutdown
<1>9. NothingForgotten'
  BY DEF DInv, Where, LinkThere, NothingForgotten, Released, AfterHalt, AfterModem, AfterEnd,
         AfterFl, AfterStop, LinkDown, FrameALCancel, FrameALWait, FrameALFree, FrameALNull,
         CardMgmtFree, MainCancel, MainWait, ModemShutdown
<1>10. NoFault'
  BY DEF DInv, NoFault, LinkDown, FrameALCancel, FrameALWait, FrameALFree, FrameALNull,
         CardMgmtFree, MainCancel, MainWait, ModemShutdown
<1>11. HooksOK'
  <2>1. CASE FrameALCancel
    BY <2>1 DEF DInv, Where, HooksOK, FrameALCancel
  <2>2. CASE FrameALWait
    BY <2>2 DEF DInv, Where, HooksOK, FrameALWait
  <2>3. CASE FrameALFree
    BY <2>3 DEF DInv, Where, HooksOK, FrameALFree
  <2>4. CASE FrameALNull
    BY <2>4 DEF DInv, Where, HooksOK, FrameALNull
  <2>5. CASE CardMgmtFree
    BY <2>5 DEF DInv, Where, HooksOK, CardMgmtFree
  <2>6. CASE MainCancel
    BY <2>6 DEF DInv, Where, HooksOK, MainCancel
  <2>7. CASE MainWait
    BY <2>7 DEF DInv, Where, HooksOK, MainWait
  <2>8. CASE ModemShutdown
    BY <2>8 DEF DInv, Where, HooksOK, ModemShutdown
  <2>. QED
    BY <2>1, <2>2, <2>3, <2>4, <2>5, <2>6, <2>7, <2>8 DEF LinkDown
<1>. QED
  BY <1>1, <1>2, <1>3, <1>4, <1>5, <1>6, <1>7, <1>8, <1>9, <1>10, <1>11
  DEF DInv

(* ... the modem, ...                                                         *)
LEMMA ModemDownKeeps ==
  ASSUME DInv, ModemDown
  PROVE  DInv'
<1>1. TypeOK'
  <2>1. pc' \in Labels
    BY DEF DInv, TypeOK, Where, Labels, ModemDown, CardALDeviceAdapterHalt, CDALTigrisShutdown,
           CardALFree, FrameALAdapterShutdown, DownloadShutdown
  <2>2. live' \subseteq Objects
    BY DEF DInv, TypeOK, ModemDown, CardALDeviceAdapterHalt, CDALTigrisShutdown, CardALFree,
           FrameALAdapterShutdown, DownloadShutdown
  <2>3. timer' \in TimerStates
    BY DEF DInv, TypeOK, TimerStates, ModemDown, CardALDeviceAdapterHalt, CDALTigrisShutdown,
           CardALFree, FrameALAdapterShutdown, DownloadShutdown
  <2>4. smp' \in BOOLEAN /\ connect' \in BOOLEAN /\ irq' \in BOOLEAN
    BY DEF DInv, TypeOK, ModemDown, CardALDeviceAdapterHalt, CDALTigrisShutdown, CardALFree,
           FrameALAdapterShutdown, DownloadShutdown
  <2>5. fails' \in Nat
    BY DEF DInv, TypeOK, ModemDown, CardALDeviceAdapterHalt, CDALTigrisShutdown, CardALFree,
           FrameALAdapterShutdown, DownloadShutdown
  <2>. QED
    BY <2>1, <2>2, <2>3, <2>4, <2>5 DEF TypeOK
<1>2. Where'
  BY DEF DInv, Where, ModemDown, CardALDeviceAdapterHalt, CDALTigrisShutdown, CardALFree,
         FrameALAdapterShutdown, DownloadShutdown
<1>3. ChipThere'
  BY DEF DInv, Where, ChipThere, ModemDown, CardALDeviceAdapterHalt, CDALTigrisShutdown,
         CardALFree, FrameALAdapterShutdown, DownloadShutdown
<1>4. ModemThere'
  BY DEF DInv, Where, ModemThere, ModemDown, CardALDeviceAdapterHalt, CDALTigrisShutdown,
         CardALFree, FrameALAdapterShutdown, DownloadShutdown
<1>5. LinkThere'
  BY DEF DInv, Where, LinkThere, ModemDown, CardALDeviceAdapterHalt, CDALTigrisShutdown,
         CardALFree, FrameALAdapterShutdown, DownloadShutdown
<1>6. OthersOK'
  BY DEF DInv, Where, OthersOK, ModemDown, CardALDeviceAdapterHalt, CDALTigrisShutdown,
         CardALFree, FrameALAdapterShutdown, DownloadShutdown
<1>7. CalTimerOK'
  BY DEF DInv, Where, CalTimerOK, ModemDown, CardALDeviceAdapterHalt, CDALTigrisShutdown,
         CardALFree, FrameALAdapterShutdown, DownloadShutdown
<1>8. TimersOK'
  BY DEF DInv, TimersOK, ModemDown, CardALDeviceAdapterHalt, CDALTigrisShutdown, CardALFree,
         FrameALAdapterShutdown, DownloadShutdown
<1>9. NothingForgotten'
  BY DEF DInv, Where, ModemThere, NothingForgotten, Released, AfterHalt, AfterModem, AfterEnd,
         AfterFl, AfterStop, ModemDown, CardALDeviceAdapterHalt, CDALTigrisShutdown, CardALFree,
         FrameALAdapterShutdown, DownloadShutdown
<1>10. NoFault'
  BY DEF DInv, Where, ChipThere, ModemThere, NoFault, ShutdownAdslLine, ModemDown,
         CardALDeviceAdapterHalt, CDALTigrisShutdown, CardALFree, FrameALAdapterShutdown,
         DownloadShutdown
<1>11. HooksOK'
  <2>1. CASE CardALDeviceAdapterHalt
    BY <2>1 DEF DInv, Where, HooksOK, CardALDeviceAdapterHalt
  <2>2. CASE CDALTigrisShutdown
    BY <2>2 DEF DInv, Where, HooksOK, CDALTigrisShutdown
  <2>3. CASE CardALFree
    BY <2>3 DEF DInv, Where, HooksOK, CardALFree
  <2>4. CASE FrameALAdapterShutdown
    BY <2>4 DEF DInv, Where, HooksOK, FrameALAdapterShutdown
  <2>5. CASE DownloadShutdown
    BY <2>5 DEF DInv, Where, HooksOK, DownloadShutdown
  <2>. QED
    BY <2>1, <2>2, <2>3, <2>4, <2>5 DEF ModemDown
<1>. QED
  BY <1>1, <1>2, <1>3, <1>4, <1>5, <1>6, <1>7, <1>8, <1>9, <1>10, <1>11
  DEF DInv

(* ... and the chip.                                                          *)
LEMMA ChipDownKeeps ==
  ASSUME DInv, ChipDown
  PROVE  DInv'
<1>1. TypeOK'
  <2>1. pc' \in Labels
    BY DEF DInv, TypeOK, Where, Labels, ChipDown, ChipALStopTimer, ChipALWaitTimer,
           ReleaseHandlers, HalShutdown, RegIoShutdown, BusRelease, ChipALRelease, FreeAdapter
  <2>2. live' \subseteq Objects
    BY DEF DInv, TypeOK, ChipDown, ChipALStopTimer, ChipALWaitTimer, ReleaseHandlers,
           HalShutdown, RegIoShutdown, BusRelease, ChipALRelease, FreeAdapter
  <2>3. timer' \in TimerStates
    BY DEF DInv, TypeOK, TimerStates, ChipDown, ChipALStopTimer, ChipALWaitTimer,
           ReleaseHandlers, HalShutdown, RegIoShutdown, BusRelease, ChipALRelease, FreeAdapter
  <2>4. smp' \in BOOLEAN /\ connect' \in BOOLEAN /\ irq' \in BOOLEAN
    BY DEF DInv, TypeOK, ChipDown, ChipALStopTimer, ChipALWaitTimer, ReleaseHandlers,
           HalShutdown, RegIoShutdown, BusRelease, ChipALRelease, FreeAdapter
  <2>5. fails' \in Nat
    BY DEF DInv, TypeOK, ChipDown, ChipALStopTimer, ChipALWaitTimer, ReleaseHandlers,
           HalShutdown, RegIoShutdown, BusRelease, ChipALRelease, FreeAdapter
  <2>. QED
    BY <2>1, <2>2, <2>3, <2>4, <2>5 DEF TypeOK
<1>2. Where'
  BY DEF DInv, Where, ChipDown, ChipALStopTimer, ChipALWaitTimer, ReleaseHandlers, HalShutdown,
         RegIoShutdown, BusRelease, ChipALRelease, FreeAdapter
<1>3. ChipThere'
  BY DEF DInv, Where, ChipThere, ChipDown, ChipALStopTimer, ChipALWaitTimer, ReleaseHandlers,
         HalShutdown, RegIoShutdown, BusRelease, ChipALRelease, FreeAdapter
<1>4. ModemThere'
  BY DEF DInv, Where, ModemThere, ChipDown, ChipALStopTimer, ChipALWaitTimer, ReleaseHandlers,
         HalShutdown, RegIoShutdown, BusRelease, ChipALRelease, FreeAdapter
<1>5. LinkThere'
  BY DEF DInv, Where, LinkThere, ChipDown, ChipALStopTimer, ChipALWaitTimer, ReleaseHandlers,
         HalShutdown, RegIoShutdown, BusRelease, ChipALRelease, FreeAdapter
<1>6. OthersOK'
  BY DEF DInv, OthersOK, ChipDown, ChipALStopTimer, ChipALWaitTimer, ReleaseHandlers,
         HalShutdown, RegIoShutdown, BusRelease, ChipALRelease, FreeAdapter
<1>7. CalTimerOK'
  BY DEF DInv, TypeOK, Where, ChipThere, CalTimerOK, TimerStates, ChipDown, ChipALStopTimer,
         ChipALWaitTimer, ReleaseHandlers, HalShutdown, RegIoShutdown, BusRelease,
         ChipALRelease, FreeAdapter
<1>8. TimersOK'
  BY DEF DInv, TypeOK, TimersOK, TimerStates, ChipDown, ChipALStopTimer, ChipALWaitTimer,
         ReleaseHandlers, HalShutdown, RegIoShutdown, BusRelease, ChipALRelease, FreeAdapter
<1>9. NothingForgotten'
  BY DEF DInv, Where, ChipThere, NothingForgotten, Released, AfterHalt, AfterModem, AfterEnd,
         AfterFl, AfterStop, ChipDown, ChipALStopTimer, ChipALWaitTimer, ReleaseHandlers,
         HalShutdown, RegIoShutdown, BusRelease, ChipALRelease, FreeAdapter
<1>10. NoFault'
  BY DEF DInv, ChipThere, ModemThere, NoFault, ChipDown, ChipALStopTimer, ChipALWaitTimer,
         ReleaseHandlers, HalShutdown, RegIoShutdown, BusRelease, ChipALRelease, FreeAdapter
<1>11. HooksOK'
  <2>1. CASE ChipALStopTimer
    BY <2>1 DEF DInv, Where, HooksOK, ChipALStopTimer
  <2>2. CASE ChipALWaitTimer
    BY <2>2 DEF DInv, Where, HooksOK, ChipALWaitTimer
  <2>3. CASE ReleaseHandlers
    BY <2>3 DEF DInv, Where, HooksOK, ReleaseHandlers
  <2>4. CASE HalShutdown
    BY <2>4 DEF DInv, Where, HooksOK, HalShutdown
  <2>5. CASE RegIoShutdown
    BY <2>5 DEF DInv, Where, HooksOK, RegIoShutdown
  <2>6. CASE BusRelease
    BY <2>6 DEF DInv, Where, HooksOK, BusRelease
  <2>7. CASE ChipALRelease
    BY <2>7 DEF DInv, Where, HooksOK, ChipALRelease
  <2>8. CASE FreeAdapter
    BY <2>8 DEF DInv, Where, HooksOK, FreeAdapter
  <2>. QED
    BY <2>1, <2>2, <2>3, <2>4, <2>5, <2>6, <2>7, <2>8 DEF ChipDown
<1>. QED
  BY <1>1, <1>2, <1>3, <1>4, <1>5, <1>6, <1>7, <1>8, <1>9, <1>10, <1>11
  DEF DInv


(* Interrupt, timers, connect timer and threads.                              *)
Beside ==
  \/ Interrupt \/ ConnectExpires
  \/ \E t \in Timers : Expire(t) \/ Restart(t)
  \/ \E t \in Threads : ThreadWork(t)

(* What runs beside the task moves neither the task nor the memory, ...       *)
LEMMA BesideLeavesTheTask ==
  ASSUME Beside
  PROVE  UNCHANGED <<smp, pc, ret, live, ptr, lost, rest, cnt>>
BY DEF Beside, Interrupt, ConnectExpires, Expire, Restart, ThreadWork

TimerStep ==
  /\ timer' \in TimerStates
  /\ \A t \in Timers : Active(t)' => Active(t)
  /\ timer'["cal"].state = timer["cal"].state
  /\ ~(timer'["cal"].pend /\ timer'["cal"].run)
  /\ timer'["cal"].ev => timer["cal"].state = "cancelled" /\ ~Active("cal")'

(* ... and of a timer it changes one that is active: a handler runs after the *)
(* timer was pending, and the timer is pending again after the handler ran.   *)
LEMMA BesideKeepsTimers ==
  ASSUME TypeOK, CalTimerOK, Beside
  PROVE  TimerStep
<1>. DEFINE Rec == [state : {"uninit", "initialized", "timing", "executing", "cancelled",
                             "unloading"},
                    pend : BOOLEAN, run : BOOLEAN, ev : BOOLEAN]
<1>1. CASE UNCHANGED timer
  BY <1>1 DEF TypeOK, CalTimerOK, TimerStep
<1>2. ASSUME NEW t \in Timers, timer' = [u \in Timers |-> timer'[u]], timer'[t] \in Rec,
             \A u \in Timers \ {t} : timer'[u] = timer[u], Active(t),
             t = "cal" => /\ timer'[t].state = timer[t].state
                          /\ ~(timer'[t].pend /\ timer'[t].run)
                          /\ timer'[t].ev => timer[t].state = "cancelled" /\ ~Active(t)'
      PROVE  TimerStep
  <2>1. timer' \in TimerStates
    BY <1>2 DEF TypeOK, TimerStates
  <2>2. ASSUME NEW u \in Timers, Active(u)'
        PROVE  Active(u)
    <3>1. CASE u = t
      BY <1>2, <3>1
    <3>2. CASE u # t
      <4>1. timer'[u] = timer[u]
        BY <1>2, <3>2
      <4>. QED
        BY <2>2, <4>1
    <3>. QED
      BY <3>1, <3>2
  <2>3. /\ timer'["cal"].state = timer["cal"].state
        /\ ~(timer'["cal"].pend /\ timer'["cal"].run)
        /\ timer'["cal"].ev => timer["cal"].state = "cancelled" /\ ~Active("cal")'
    <3>1. CASE t = "cal"
      BY <1>2, <3>1
    <3>2. CASE t # "cal"
      <4>1. timer'["cal"] = timer["cal"]
        BY <1>2, <3>2
      <4>. QED
        BY <4>1 DEF CalTimerOK
    <3>. QED
      BY <3>1, <3>2
  <2>. QED
    BY <2>1, <2>2, <2>3 DEF TimerStep
<1>3. ASSUME NEW t \in Timers, Expire(t)
      PROVE  TimerStep
  <2>. DEFINE there == t # "frame" \/ "flink" \in ptr
              go    == there /\ timer[t].state = "timing"
  <2>1. timer' = [u \in Timers |-> timer'[u]] /\ \A u \in Timers \ {t} : timer'[u] = timer[u]
    BY <1>3 DEF Expire, TypeOK, TimerStates
  <2>2. timer[t].pend
    BY <1>3 DEF Expire
  <2>3. /\ timer'[t] \in Rec /\ timer'[t].pend = FALSE
        /\ timer'[t].state = IF go /\ t = "main" THEN "executing" ELSE timer[t].state
    <3>1. timer'[t].pend = FALSE
      BY <1>3 DEF Expire, TypeOK, TimerStates
    <3>2. timer'[t].state = IF go /\ t = "main" THEN "executing" ELSE timer[t].state
      BY <1>3 DEF Expire, TypeOK, TimerStates
    <3>3. timer'[t] = [state |-> timer'[t].state, pend |-> timer'[t].pend,
                       run |-> timer'[t].run, ev |-> timer'[t].ev]
      BY <1>3 DEF Expire, TypeOK, TimerStates
    <3>4. timer'[t].run \in BOOLEAN /\ timer'[t].ev \in BOOLEAN
      BY <1>3 DEF Expire, TypeOK, TimerStates
    <3>5. timer[t].state \in {"uninit", "initialized", "timing", "executing", "cancelled",
                             "unloading"}
      BY DEF TypeOK, TimerStates
    <3>6. timer'[t] \in Rec
      BY <3>1, <3>2, <3>3, <3>4, <3>5
    <3>. QED
      BY <3>1, <3>2, <3>6
  <2>4. timer'[t].ev <=> timer[t].ev \/ (there /\ ~go)
    BY <1>3 DEF Expire, TypeOK, TimerStates
  <2>5. timer'[t].run <=> go
    BY <1>3 DEF Expire, TypeOK, TimerStates
  <2>6. t = "cal" => /\ timer'[t].state = timer[t].state
                     /\ ~(timer'[t].pend /\ timer'[t].run)
                     /\ timer'[t].ev => timer[t].state = "cancelled" /\ ~Active(t)'
    BY <2>2, <2>3, <2>4, <2>5 DEF CalTimerOK
  <2>. QED
    BY <1>2, <2>1, <2>2, <2>3, <2>6
<1>4. ASSUME NEW t \in Timers, Restart(t)
      PROVE  TimerStep
  <2>1. timer' = [u \in Timers |-> timer'[u]] /\ \A u \in Timers \ {t} : timer'[u] = timer[u]
    BY <1>4 DEF Restart, TypeOK, TimerStates
  <2>2. timer[t].run
    BY <1>4 DEF Restart
  <2>3. /\ timer'[t] \in Rec /\ timer'[t].run = FALSE /\ timer'[t].ev = timer[t].ev
        /\ timer'[t].state = IF t = "main" THEN "timing" ELSE timer[t].state
    <3>1. timer'[t].pend = TRUE /\ timer'[t].run = FALSE /\ timer'[t].ev = timer[t].ev
      BY <1>4 DEF Restart, TypeOK, TimerStates
    <3>2. timer'[t].state = IF t = "main" THEN "timing" ELSE timer[t].state
      BY <1>4 DEF Restart, TypeOK, TimerStates
    <3>3. timer'[t] = [state |-> timer'[t].state, pend |-> timer'[t].pend,
                       run |-> timer'[t].run, ev |-> timer'[t].ev]
      BY <1>4 DEF Restart, TypeOK, TimerStates
    <3>4. timer'[t].run \in BOOLEAN /\ timer'[t].ev \in BOOLEAN
      BY <3>1 DEF TypeOK, TimerStates
    <3>5. timer[t].state \in {"uninit", "initialized", "timing", "executing", "cancelled",
                             "unloading"}
      BY DEF TypeOK, TimerStates
    <3>6. timer'[t] \in Rec
      BY <3>1, <3>2, <3>3, <3>4, <3>5
    <3>. QED
      BY <3>1, <3>2, <3>6
  <2>4. t = "cal" => /\ timer'[t].state = timer[t].state
                     /\ ~(timer'[t].pend /\ timer'[t].run)
                     /\ timer'[t].ev => timer[t].state = "cancelled" /\ ~Active(t)'
    BY <2>2, <2>3 DEF CalTimerOK
  <2>. QED
    BY <1>2, <2>1, <2>2, <2>3, <2>4
<1>. QED
  BY <1>1, <1>3, <1>4 DEF Beside, Interrupt, ConnectExpires, ThreadWork

(* Everything it uses is there.                                               *)
LEMMA BesideUses ==
  ASSUME DInv, ~smp, Beside
  PROVE  fault' \subseteq Late
<1>. USE DEF DInv
<1>1. CASE Interrupt
  BY <1>1 DEF Interrupt, OthersOK, HooksOK, ChipThere, NoFault
<1>2. CASE ConnectExpires
  <2>1. Active("main")
    BY <1>2 DEF ConnectExpires
  <2>2. /\ Has("init") /\ Has("download")
        /\ pc \notin ModemSteps \cup HaltSteps \cup LastSteps
    BY <2>1 DEF TimersOK, Where
  <2>3. There({"card", "tigris", "remote", "chip", "dslio"})
    BY <2>2 DEF ModemThere, ChipThere
  <2>. QED
    BY <1>2, <2>3 DEF ConnectExpires, NoFault, Late
<1>3. ASSUME NEW t \in Timers, Active(t)
      PROVE  There({Owner[t]}) /\ There({"adapter"})
  <2>1. CASE t = "main"
    BY <1>3, <2>1 DEF TimersOK, Where, ChipThere, Owner
  <2>2. CASE t = "cal"
    BY <1>3, <2>2 DEF CalTimerOK, ChipThere, Owner
  <2>3. CASE t = "frame"
    BY <1>3, <2>3 DEF TimersOK, Where, ChipThere, Owner
  <2>. QED
    BY <2>1, <2>2, <2>3
<1>4. ASSUME NEW t \in Timers, Expire(t) \/ Restart(t)
      PROVE  fault' \subseteq Late
  <2>1. There({Owner[t]}) /\ There({"adapter"})
    BY <1>3, <1>4 DEF Expire, Restart
  <2>. QED
    BY <1>4, <2>1 DEF Expire, Restart, NoFault
<1>5. ASSUME NEW t \in Threads, ThreadWork(t)
      PROVE  fault' \subseteq Late
  <2>1. Has("full") \/ pc \in {"threads", "stop"}
    BY <1>5 DEF ThreadWork, OthersOK
  <2>2. There({"adapter", "cal", "tigris", "chip", "dslio", "hal"})
    BY <2>1 DEF Where, ModemThere, ChipThere
  <2>. QED
    BY <1>5, <2>2 DEF ThreadWork, NoFault
<1>. QED
  BY <1>1, <1>2, <1>4, <1>5 DEF Beside

(* So the invariant is kept beside the task, too.                             *)
LEMMA BesideKeeps ==
  ASSUME DInv, Beside
  PROVE  DInv'
<1>1. UNCHANGED <<smp, pc, ret, live, ptr, lost, rest, cnt>>
  BY BesideLeavesTheTask
<1>2. TimerStep
  BY BesideKeepsTimers DEF DInv
<1>3. TypeOK'
  <2>1. connect' \in BOOLEAN
    BY DEF DInv, TypeOK, Beside, Interrupt, ConnectExpires, Expire, Restart, ThreadWork
  <2>. QED
    BY <1>1, <1>2, <2>1 DEF DInv, TypeOK, TimerStep
<1>4. /\ Where' /\ ChipThere' /\ ModemThere' /\ LinkThere'
      /\ OthersOK' /\ HooksOK' /\ NothingForgotten'
  <2>1. Where'
    BY <1>1 DEF DInv, Where
  <2>2. ChipThere'
    BY <1>1 DEF DInv, ChipThere
  <2>3. ModemThere'
    BY <1>1 DEF DInv, ModemThere
  <2>4. LinkThere'
    BY <1>1 DEF DInv, LinkThere
  <2>5. OthersOK' /\ HooksOK'
    BY <1>1 DEF DInv, OthersOK, HooksOK
  <2>6. Released' <=> Released
    BY <1>1 DEF Released
  <2>7. NothingForgotten'
    BY <1>1, <2>6 DEF DInv, NothingForgotten
  <2>. QED
    BY <2>1, <2>2, <2>3, <2>4, <2>5, <2>7
<1>5. CalTimerOK'
  <2>1. CalTimerOK /\ "cal" \in Timers
    BY DEF DInv
  <2>2. Active("cal")' => Active("cal")
    BY <1>2, <2>1 DEF TimerStep
  <2>. QED
    BY <1>1, <1>2, <2>1, <2>2 DEF CalTimerOK, TimerStep
<1>6. TimersOK'
  BY <1>1, <1>2 DEF DInv, TimersOK, TimerStep
<1>7. NoFault'
  BY <1>1, BesideUses DEF NoFault
<1>. QED
  BY <1>3, <1>4, <1>5, <1>6, <1>7 DEF DInv

(* The invariant holds, however many allocations fail, so long as they are of *)
(* the objects whose failure the code survives.                               *)
THEOREM DriverInvariant ==
  ASSUME FailAt \subseteq Survived
  PROVE  Spec => []DInv
<1>1. Init => DInv
  <2>. SUFFICES ASSUME Init PROVE DInv
    OBVIOUS
  <2>1. TypeOK
    BY DriverAssumption DEF Init, TypeOK, TimerStates, Labels
  <2>2. Where
    BY DEF Init, Where
  <2>3. ChipThere
    BY DEF Init, ChipThere
  <2>4. ModemThere /\ LinkThere
    BY DEF Init, ModemThere, LinkThere
  <2>5. OthersOK /\ HooksOK /\ CalTimerOK /\ TimersOK
    BY DEF Init, OthersOK, HooksOK, CalTimerOK, TimersOK
  <2>6. NothingForgotten
    BY DEF Init, NothingForgotten
  <2>7. NoFault
    BY DEF Init, NoFault
  <2>. QED
    BY <2>1, <2>2, <2>3, <2>4, <2>5, <2>6, <2>7 DEF DInv
<1>2. DInv /\ [Next]_vars => DInv'
  <2>. SUFFICES ASSUME DInv, [Next]_vars PROVE DInv'
    OBVIOUS
  <2>1. CASE Task
    BY <2>1, ChipUpKeeps, ModemUpKeeps, LinkUpKeeps, StoppingKeeps, LinkDownKeeps,
       ModemDownKeeps, ChipDownKeeps
       DEF Task, ChipUp, ModemUp, LinkUp, Stopping, LinkDown, ModemDown, ChipDown
  <2>2. CASE Beside
    BY <2>2, BesideKeeps
  <2>3. CASE UNCHANGED vars
    <3>. USE <2>3 DEF vars
    <3>1. TypeOK' /\ Where'
      BY DEF DInv, TypeOK, Where
    <3>2. ChipThere'
      BY DEF DInv, ChipThere
    <3>3. ModemThere' /\ LinkThere'
      BY DEF DInv, ModemThere, LinkThere
    <3>4. OthersOK' /\ HooksOK' /\ CalTimerOK' /\ TimersOK'
      BY DEF DInv, OthersOK, HooksOK, CalTimerOK, TimersOK
    <3>5. NothingForgotten'
      BY DEF DInv, NothingForgotten, Released
    <3>6. NoFault'
      BY DEF DInv, NoFault
    <3>. QED
      BY <3>1, <3>2, <3>3, <3>4, <3>5, <3>6 DEF DInv
  <2>. QED
    BY <2>1, <2>2, <2>3 DEF Next, Beside
<1>. QED
  BY <1>1, <1>2, PTL DEF Spec

(* On one processor nobody goes through a pointer to something that is not    *)
(* there (CardMgmt.c, CardAL.c, ChipALCdsl.c, FrameAl.c), whichever of these  *)
(* allocations fail and however often, how often the loader runs, and         *)
(* whenever the driver is unloaded; but for a link that comes up while it is  *)
(* shut down.                                                                 *)
THEOREM NothingMissing ==
  ASSUME FailAt \subseteq Survived
  PROVE  Spec => []NoFault
<1>1. DInv => NoFault
  BY DEF DInv
<1>. QED
  BY <1>1, DriverInvariant, PTL

(* Once CnxtDsl_exit is through, no thread, no interrupt and no soft timer of *)
(* the driver runs or is going to, on one processor no timer at all; and if   *)
(* nothing failed, everything the start allocated has been freed.             *)
THEOREM UnloadIsClean ==
  ASSUME FailAt \subseteq Survived
  PROVE  Spec => []UnloadsCleanly
<1>1. DInv => UnloadsCleanly
  <2>. SUFFICES ASSUME DInv, pc = "gone" PROVE Quiet /\ Freed
    BY DEF UnloadsCleanly
  <2>1. Has("shutdown") /\ ~Has("full")
    BY DEF DInv, Where
  <2>2. th = {} /\ ~irq /\ hooks = {}
    BY <2>1 DEF DInv, OthersOK, HooksOK
  <2>3. ~Active("cal")
    BY DEF DInv, CalTimerOK
  <2>4. ~smp => ~Active("main") /\ ~Active("frame")
    BY <2>1 DEF DInv, TimersOK
  <2>5. Quiet
    BY <2>2, <2>3, <2>4 DEF Quiet
  <2>6. ASSUME fails = 0, Has("init")
        PROVE  live \subseteq lost
    <3>1. Released /\ "fops" \in lost
      BY <2>1, <2>6 DEF DInv, NothingForgotten
    <3>2. live \subseteq {"fops"}
      BY <3>1 DEF DInv, TypeOK, Released, AfterStop, AfterFl, AfterEnd, AfterModem, AfterHalt
    <3>. QED
      BY <3>1, <3>2
  <2>. QED
    BY <2>5, <2>6 DEF Freed
<1>. QED
  BY <1>1, DriverInvariant, PTL
================================================================================
