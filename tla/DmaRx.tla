--------------------------------- MODULE DmaRx ---------------------------------
(* The receive DMA channel (ChipALDMAChanP46.c): the ring of DmaTx with the   *)
(* roles exchanged.  DmaRxDataHandler passes the cells of the segment at      *)
(* NextSegment up to FrameAL and gives the emptied segment back to the ARM;   *)
(* DmaRxCompleteHandler, from the interrupt, records how many cells the ARM   *)
(* put into a segment and moves CurrentSegment past it.  Cells are numbered   *)
(* in the order the ARM stores them.  The ARM is external.                    *)
EXTENDS Integers, Sequences

CONSTANTS N,         \* NumberOfSegments
          Cells,     \* bound: number of cells that arrive on the line
          Handlers,  \* the callers of DmaRxDataHandler: its DPC, ...
          Opener,    \* ... and the thread that calls Enable
          Settings,  \* number of processors, and bounds, to run with: records of
                     \*   smp:    other processors run while SegmentLock is held
                     \*   max:    NumHardwareDescriptors, cells per segment
                     \*   reject: segments the ARM has no room for
                     \*   fail:   commands ChipALWrite refuses for want of memory
                     \*   lost:   completions that never reach the driver
                     \*   stop:   how often the link goes down
          Settle     \* TRUE: retraining the line outlasts what the ARM has queued

ASSUME RxAssumption ==
  /\ N \in Nat /\ N > 1
  /\ Cells \in Nat
  /\ Settings \subseteq [smp : BOOLEAN, max : 1 .. 255,   \* the field Count:8 of a command
                         reject : Nat, fail : Nat, lost : Nat, stop : Nat]
  /\ Opener \in Handlers /\ "free" \notin Handlers
  /\ Settle \in BOOLEAN

VARIABLES state,    \* pChanExt->State
          next,     \* pChanExt->NextSegment
          cur,      \* pChanExt->CurrentSegment
          seg,      \* pChanExt->Segment: state and CommandU.DmaCommand.Control.Count
          mem,      \* the cells in the memory of each segment
          lock, pc, \* SegmentLock, and where each caller is in DmaRxDataHandler
          ix,       \* its pSegment, as an index
          event,    \* a completion event waits for its DPC
          stopPc,   \* where ChipALDmaChanP46Disable is
          armq,     \* commands written, not yet taken by the ARM
          hw,       \* segments the ARM fills or has queued
          resp,     \* responses not yet read by the interrupt handler
          taken,    \* cells the ARM has stored so far
          out,      \* the cells passed up, oldest first
          fails, losses, rejects, stops,
          env       \* the setting of this run

chan   == <<state, next, cur, seg>>
caller == <<lock, pc, ix, event>>
arm    == <<armq, hw, resp, taken, losses, rejects>>
vars   == <<chan, mem, caller, stopPc, stops, out, fails, arm, env>>

Max == env.max
Smp == env.smp
Segments == 0 .. N - 1
After(s) == (s + 1) % N
Idle(h)  == pc[h] = "idle"
StartCmd(s) == [op |-> "start", handle |-> s, addr |-> s, count |-> Max]
StopCmd     == [op |-> "stop", handle |-> 0, addr |-> 0, count |-> 0]

Init ==
  /\ env \in Settings
  /\ state = "uninitialized" /\ next = 0 /\ cur = 0
  /\ seg = [s \in Segments |-> [state |-> "ready", count |-> 0]]
  /\ mem = [s \in Segments |-> [i \in 1 .. Max |-> 0]]
  /\ event = FALSE
  /\ lock = "free" /\ pc = [h \in Handlers |-> "idle"] /\ ix = [h \in Handlers |-> 0]
  /\ stopPc = "no" /\ stops = 0
  /\ out = <<>> /\ fails = 0
  /\ armq = <<>> /\ hw = <<>> /\ resp = <<>> /\ taken = 0 /\ losses = 0 /\ rejects = 0
-------------------------------------------------------------------------------
(* lChipALLinkEnable: the channel is enabled and DmaRxDataHandler called.     *)
Enable ==
  /\ state # "enabled" /\ stopPc = "no" /\ Idle(Opener)
  /\ Settle => armq = <<>> /\ hw = <<>> /\ resp = <<>>
  /\ state' = "enabled"
  /\ pc' = [pc EXCEPT ![Opener] = "lock"]
  /\ UNCHANGED <<next, cur, seg, mem, lock, ix, event, stopPc, stops, out, fails, arm, env>>

(* DmaRxDataHandler as the DPC of the completion event, the only thing that   *)
(* calls it while the channel runs.                                           *)
Enter(h) ==
  /\ h # Opener /\ Idle(h) /\ event
  /\ event' = FALSE
  /\ pc' = [pc EXCEPT ![h] = IF state = "enabled" THEN "lock" ELSE "idle"]
  /\ UNCHANGED <<chan, mem, lock, ix, stopPc, stops, out, fails, arm, env>>

Lock(h) ==
  /\ pc[h] = "lock" /\ lock = "free"
  /\ lock' = h
  /\ pc' = [pc EXCEPT ![h] = "look"] /\ ix' = [ix EXCEPT ![h] = next]
  /\ UNCHANGED <<chan, mem, event, stopPc, stops, out, fails, arm, env>>

Unlock(h) ==
  /\ pc' = [pc EXCEPT ![h] = "idle"] /\ ix' = [ix EXCEPT ![h] = 0]
  /\ lock' = "free"

(* The cells of a ready segment go up one by one.  The segment then takes the *)
(* command that hands it back, Count = all of it, and is marked; a command    *)
(* shares its storage with the count of received cells.                       *)
Deliver(h) ==
  LET s == ix[h] IN
  /\ pc[h] = "look" /\ seg[s].state = "ready"
  /\ out' = out \o SubSeq(mem[s], 1, seg[s].count)
  /\ seg' = [seg EXCEPT ![s] = [state |-> "arm", count |-> Max]]
  /\ pc' = [pc EXCEPT ![h] = "post"]
  /\ UNCHANGED <<state, next, cur, mem, lock, ix, event, stopPc, stops, fails, arm, env>>

Leave(h) ==
  /\ pc[h] = "look" /\ seg[ix[h]].state # "ready"
  /\ Unlock(h)
  /\ UNCHANGED <<chan, mem, event, stopPc, stops, out, fails, arm, env>>

(* ChipALWrite, which either queues the command or fails.  The handle is      *)
(* NextSegment, the memory that of pSegment.                                  *)
Post(h) ==
  /\ pc[h] = "post"
  /\ armq' = Append(armq, [StartCmd(ix[h]) EXCEPT !.handle = next])
  /\ pc' = [pc EXCEPT ![h] = "advance"]
  /\ UNCHANGED <<chan, mem, lock, ix, event, stopPc, stops, out, fails, hw, resp, taken, losses, rejects, env>>

(* Mutant: the failure path leaves the segment marked as the ARM's.           *)
PostFails_KeepsMark(h) ==
  /\ pc[h] = "post" /\ armq # <<>> /\ fails < env.fail
  /\ fails' = fails + 1
  /\ Unlock(h)
  /\ UNCHANGED <<chan, mem, event, stopPc, stops, out, arm, env>>

PostFails(h) ==
  /\ pc[h] = "post" /\ armq # <<>> /\ fails < env.fail
  /\ fails' = fails + 1
  /\ seg' = [seg EXCEPT ![ix[h]].state = "ready"]
  /\ Unlock(h)
  /\ UNCHANGED <<state, next, cur, mem, event, stopPc, stops, out, arm, env>>

(* Mutant: the ring index is not wrapped.                                     *)
Advance_NoWrap(h) ==
  /\ pc[h] = "advance"
  /\ next' = next + 1
  /\ Unlock(h)
  /\ UNCHANGED <<state, cur, seg, mem, event, stopPc, stops, out, fails, arm, env>>

(* Mutant: the handler passes up one segment per call.                        *)
Advance_OneSegment(h) ==
  /\ pc[h] = "advance"
  /\ next' = After(next)
  /\ Unlock(h)
  /\ UNCHANGED <<state, cur, seg, mem, event, stopPc, stops, out, fails, arm, env>>

Advance(h) ==
  /\ pc[h] = "advance"
  /\ next' = After(next)
  /\ pc' = [pc EXCEPT ![h] = "look"]
  /\ ix' = [ix EXCEPT ![h] = After(next)]
  /\ UNCHANGED <<state, cur, seg, mem, lock, event, stopPc, stops, out, fails, arm, env>>

DataHandler(h) ==
  \/ Enter(h) \/ Lock(h) \/ Deliver(h) \/ Leave(h)
  \/ Post(h) \/ PostFails(h) \/ Advance(h)
-------------------------------------------------------------------------------
(* ChipALDmaChanP46Disable.  The counts of the segments are left as they are. *)
Quiet == Smp \/ \A h \in Handlers : Idle(h)

DisableMark ==
  /\ state = "enabled" /\ stopPc = "no" /\ stops < env.stop /\ Quiet /\ Idle(Opener)
  /\ state' = "disabled" /\ stops' = stops + 1 /\ stopPc' = "stop"
  /\ UNCHANGED <<next, cur, seg, mem, caller, out, fails, arm, env>>

DisableStop ==
  /\ stopPc = "stop" /\ Quiet
  /\ stopPc' = "reset"
  /\ \/ armq' = Append(armq, StopCmd) /\ UNCHANGED fails
     \/ armq # <<>> /\ fails < env.fail /\ fails' = fails + 1 /\ UNCHANGED armq
  /\ UNCHANGED <<chan, mem, caller, stops, out, hw, resp, taken, losses, rejects, env>>

DisableReset ==
  /\ stopPc = "reset" /\ Quiet
  /\ seg' = [s \in Segments |-> [seg[s] EXCEPT !.state = "ready"]]
  /\ next' = 0 /\ cur' = 0 /\ stopPc' = "no"
  /\ UNCHANGED <<state, mem, caller, stops, out, fails, arm, env>>

Disable == DisableMark \/ DisableStop \/ DisableReset
-------------------------------------------------------------------------------
(* The handlers the interrupt calls.  Only the completion event has a DPC.    *)
Interrupt(kind) ==
  /\ resp # <<>> /\ Head(resp).kind = kind
  /\ Smp \/ lock = "free"
  /\ resp' = Tail(resp)
  /\ event' = (event \/ kind = "complete")
  /\ UNCHANGED <<mem, lock, pc, ix, stopPc, stops, out, fails, armq, hw, taken, losses, rejects, env>>

(* The segments from CurrentSegment up to, not including, h.                  *)
Skipped(h) == {(cur + i) % N : i \in 0 .. ((h - cur) % N) - 1}

(* Mutant: the skipped segments keep their count, as if they had been filled. *)
DmaRxCompleteHandler_TrustsSkipped ==
  LET r == Head(resp)
      h == r.handle
  IN
  /\ Interrupt("complete")
  /\ IF state # "enabled" THEN UNCHANGED chan
     ELSE /\ seg' = [s \in Segments |->
                      CASE s = h          -> [state |-> "ready", count |-> r.count]
                        [] s \in Skipped(h) -> [seg[s] EXCEPT !.state = "ready"]
                        [] OTHER          -> seg[s]]
          /\ cur' = After(h) /\ UNCHANGED <<state, next>>

(* Mutant: CurrentSegment is left on the segment that was filled.             *)
DmaRxCompleteHandler_NoStep ==
  LET r == Head(resp) IN
  /\ Interrupt("complete")
  /\ IF state # "enabled" THEN UNCHANGED chan
     ELSE /\ seg' = [seg EXCEPT ![r.handle] = [state |-> "ready", count |-> r.count]]
          /\ UNCHANGED <<state, next, cur>>

(* The segments before the acknowledged one were lost: they are given up,     *)
(* their data with them.                                                      *)
DmaRxCompleteHandler ==
  LET r == Head(resp)
      h == r.handle
  IN
  /\ Interrupt("complete")
  /\ IF state # "enabled" THEN UNCHANGED chan
     ELSE /\ seg' = [s \in Segments |->
                      CASE s = h          -> [state |-> "ready", count |-> r.count]
                        [] s \in Skipped(h) -> [state |-> "ready", count |-> 0]
                        [] OTHER          -> seg[s]]
          /\ cur' = After(h) /\ UNCHANGED <<state, next>>

(* Mutant: the count the command put there is left in place.                  *)
DmaRxFullHandler_KeepsCount ==
  /\ Interrupt("full")
  /\ IF state # "enabled" THEN UNCHANGED chan
     ELSE /\ seg' = [seg EXCEPT ![Head(resp).handle].state = "ready"]
          /\ UNCHANGED <<state, next, cur>>

(* The ARM had no room for the segment: it is ready again, and empty.         *)
DmaRxFullHandler ==
  /\ Interrupt("full")
  /\ IF state # "enabled" THEN UNCHANGED chan
     ELSE /\ seg' = [seg EXCEPT ![Head(resp).handle] = [state |-> "ready", count |-> 0]]
          /\ UNCHANGED <<state, next, cur>>
-------------------------------------------------------------------------------
(* The ARM (external).                                                        *)
Answer(k, c, n) == [kind |-> k, handle |-> c.handle, count |-> n]

ArmTake ==
  /\ armq # <<>> /\ Head(armq).op = "start"
  /\ armq' = Tail(armq)
  /\ LET c == Head(armq) IN
       \/ hw' = Append(hw, [cmd |-> c, filled |-> 0]) /\ UNCHANGED <<resp, rejects>>
       \/ /\ hw # <<>> /\ rejects < env.reject /\ rejects' = rejects + 1
          /\ resp' = Append(resp, Answer("full", c, c.count)) /\ UNCHANGED hw
  /\ UNCHANGED <<chan, mem, caller, stopPc, stops, out, fails, taken, losses, env>>

ArmStop ==
  /\ armq # <<>> /\ Head(armq).op = "stop"
  /\ armq' = Tail(armq) /\ hw' = <<>>
  /\ resp' = IF hw = <<>> THEN resp
             ELSE Append(resp, Answer("complete", Head(hw).cmd, Head(hw).filled))
  /\ UNCHANGED <<chan, mem, caller, stopPc, stops, out, fails, taken, losses, rejects, env>>

(* A cell arrives and is stored; it may be the last one of the segment, which *)
(* the ARM may also hand over before it is full.                              *)
ArmStore(last) ==
  /\ hw # <<>> /\ taken < Cells
  /\ LET d == Head(hw)
         n == d.filled + 1
     IN /\ mem' = [mem EXCEPT ![d.cmd.addr][n] = taken + 1]
        /\ taken' = taken + 1
        /\ n = d.cmd.count => last
        /\ IF last THEN hw' = Tail(hw) /\ resp' = Append(resp, Answer("complete", d.cmd, n))
                   ELSE hw' = [hw EXCEPT ![1].filled = n] /\ UNCHANGED resp
  /\ UNCHANGED <<chan, caller, stopPc, stops, out, fails, armq, losses, rejects, env>>

LoseAck ==
  /\ resp # <<>> /\ Head(resp).kind = "complete" /\ losses < env.lost
  /\ resp' = Tail(resp) /\ losses' = losses + 1
  /\ UNCHANGED <<chan, mem, caller, stopPc, stops, out, fails, armq, hw, taken, rejects, env>>

Arm == ArmTake \/ ArmStop \/ LoseAck \/ \E last \in BOOLEAN : ArmStore(last)
-------------------------------------------------------------------------------
Next ==
  \/ Enable \/ Disable
  \/ \E h \in Handlers : DataHandler(h)
  \/ DmaRxCompleteHandler \/ DmaRxFullHandler
  \/ Arm

(* The ARM takes commands, interrupts get in between two holds of the lock,   *)
(* a handler that entered runs on, and a completion event gets its DPC.       *)
Fairness ==
  /\ WF_vars(ArmTake \/ ArmStop)
  /\ SF_vars(DmaRxCompleteHandler \/ DmaRxFullHandler)
  /\ \A h \in Handlers : WF_vars(DataHandler(h))

Spec == Init /\ [][Next]_vars
LiveSpec == Spec /\ Fairness
===============================================================================
