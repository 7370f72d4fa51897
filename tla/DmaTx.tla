--------------------------------- MODULE DmaTx ---------------------------------
(* The transmit DMA channel of the Tigris chip (ChipALDMAChanP46.c): a ring   *)
(* of N segments of up to Max cells each.  DmaTxDataHandler fills the segment *)
(* at NextSegment from the protocol stack and posts a StartTxDma command to   *)
(* the ARM; DmaTxCompleteHandler, called from the interrupt, moves            *)
(* CurrentSegment over the segments the ARM reports as sent.  The data        *)
(* handler is entered by several callers (the DPC of the completion event,    *)
(* the soft timer, lChipALStartTx) and holds SegmentLock; the interrupt       *)
(* handlers take no lock, and neither does ChipALDmaChanP46Disable.           *)
(* The ARM firmware is external: it is modelled from the commands the driver  *)
(* sends and the responses its handlers expect.                               *)
EXTENDS Integers, Sequences

CONSTANTS N,         \* NumberOfSegments
          Cells,     \* bound: number of cells the protocol stack ever supplies
          Handlers,  \* the callers of DmaTxDataHandler
          Timer,     \* the one of them that is the soft timer
          Settings,  \* number of processors, and bounds, to run with: records of
                     \*   smp:    other processors run while SegmentLock is held
                     \*   max:    NumHardwareDescriptors, cells per segment
                     \*   reject: segments the ARM has no room for
                     \*   fail:   commands ChipALWrite refuses for want of memory
                     \*   lost:   completions that never reach the driver
                     \*   stop:   how often the link goes down
          Settle     \* TRUE: retraining the line outlasts what the ARM has queued

ASSUME TxAssumption ==
  /\ N \in Nat /\ N > 1
  /\ Cells \in Nat
  /\ Settings \subseteq [smp : BOOLEAN, max : 1 .. 255,   \* the field Count:8 of a command
                         reject : Nat, fail : Nat, lost : Nat, stop : Nat]
  /\ Timer \in Handlers /\ "free" \notin Handlers
  /\ Settle \in BOOLEAN

VARIABLES state,    \* pChanExt->State
          next,     \* pChanExt->NextSegment
          cur,      \* pChanExt->CurrentSegment
          seg,      \* pChanExt->Segment: state and stored command of each
          mem,      \* the cells in the memory of each segment
          lock,     \* the handler that holds SegmentLock, or "free"; pCh->Busy is
                    \* raised after the lock is taken, dropped before it is released
          pc,       \* where each caller is in DmaTxDataHandler
          loc,      \* its pSegment (as an index) and its Command
          timerOn,  \* DmaTxDataHandler is on the soft timer's handler list
          stopPc,   \* where ChipALDmaChanP46Disable is
          supplied, \* the cells taken from the protocol stack so far
          armq,     \* commands written, not yet taken by the ARM
          hw,       \* segments the ARM is transmitting or has queued
          resp,     \* responses not yet read by the interrupt handler
          line,     \* the cells that went out on the line
          fails, losses, rejects, stops,
          env       \* the setting of this run

chan   == <<state, next, cur, seg>>
caller == <<lock, pc, loc>>
ctl    == <<timerOn, stopPc, stops>>
arm    == <<armq, hw, resp, line, losses, rejects>>
vars   == <<chan, mem, caller, ctl, supplied, fails, arm, env>>

Max == env.max
Smp == env.smp
Segments   == 0 .. N - 1
SegState   == {"ready", "arm", "pending"}
After(s)   == (s + 1) % N
NoSegment  == [state |-> "ready", handle |-> 0, count |-> 0, addr |-> 0, off |-> 0]
Idle(h)    == pc[h] = "idle"
Command(s) == [op |-> "start", handle |-> seg[s].handle, count |-> seg[s].count,
               addr |-> seg[s].addr, off |-> seg[s].off]
NoCommand  == [op |-> "none", handle |-> 0, count |-> 0, addr |-> 0, off |-> 0]
StopCmd    == [op |-> "stop", handle |-> 0, count |-> 0, addr |-> 0, off |-> 0]

(* Open leaves every segment ready and the channel waiting for Enable. *)
Init ==
  /\ env \in Settings
  /\ state = "uninitialized" /\ next = 0 /\ cur = 0
  /\ seg = [s \in Segments |-> [NoSegment EXCEPT !.addr = s]]
  /\ mem = [s \in Segments |-> [i \in 1 .. Max |-> 0]]
  /\ lock = "free"
  /\ pc = [h \in Handlers |-> "idle"]
  /\ loc = [h \in Handlers |-> [ix |-> 0, cmd |-> NoCommand]]
  /\ timerOn = FALSE /\ stopPc = "no" /\ stops = 0
  /\ supplied = 0 /\ fails = 0
  /\ armq = <<>> /\ hw = <<>> /\ resp = <<>> /\ line = <<>> /\ losses = 0 /\ rejects = 0
-------------------------------------------------------------------------------
(* DmaTxDataHandler.  Busy and State are looked at before the lock is taken. *)
Enter(h) ==
  /\ Idle(h)
  /\ h = Timer => timerOn
  /\ lock = "free" /\ state = "enabled"
  /\ pc' = [pc EXCEPT ![h] = "lock"]
  /\ UNCHANGED <<chan, mem, lock, loc, ctl, supplied, fails, arm, env>>

Lock(h) ==
  /\ pc[h] = "lock" /\ lock = "free"
  /\ lock' = h
  /\ pc' = [pc EXCEPT ![h] = "look"]
  /\ loc' = [loc EXCEPT ![h].ix = next]
  /\ UNCHANGED <<chan, mem, ctl, supplied, fails, arm, env>>

Unlock(h) ==
  /\ pc' = [pc EXCEPT ![h] = "idle"]
  /\ loc' = [loc EXCEPT ![h] = [ix |-> 0, cmd |-> NoCommand]]
  /\ lock' = "free"

(* The stack is asked for cells one by one until the segment is full or it    *)
(* has none left.  The handle of the command is NextSegment as it is now, the *)
(* memory is that of pSegment.                                                *)
Fill(h, k) ==
  LET s == loc[h].ix IN
  /\ pc[h] = "look" /\ seg[s].state = "ready"
  /\ supplied + k <= Cells
  /\ mem' = [mem EXCEPT ![s] =
               [i \in 1 .. Max |-> IF i <= k THEN supplied + i ELSE mem[s][i]]]
  /\ supplied' = supplied + k
  /\ seg' = [seg EXCEPT ![s] = [state |-> "ready", handle |-> next,
                                count |-> k, addr |-> s, off |-> 0]]
  /\ loc' = [loc EXCEPT ![h].cmd = [op |-> "start", handle |-> next,
                                    count |-> k, addr |-> s, off |-> 0]]
  /\ pc' = [pc EXCEPT ![h] = "mark"]
  /\ UNCHANGED <<state, next, cur, lock, ctl, fails, arm, env>>

(* A pended segment goes out again with the command it was left with. *)
Resend(h) ==
  /\ pc[h] = "look" /\ seg[loc[h].ix].state = "pending"
  /\ loc' = [loc EXCEPT ![h].cmd = Command(loc[h].ix)]
  /\ pc' = [pc EXCEPT ![h] = "mark"]
  /\ UNCHANGED <<chan, mem, lock, ctl, supplied, fails, arm, env>>

(* Nothing to send, or the segment still belongs to the ARM: leave. *)
Leave(h) ==
  /\ pc[h] = "look"
  /\ seg[loc[h].ix].state \in {"ready", "arm"}
  /\ Unlock(h)
  /\ UNCHANGED <<chan, mem, ctl, supplied, fails, arm, env>>

(* The segment is marked before the command is written, so that a completion  *)
(* that overtakes the handler finds it in the state it expects.               *)
Mark(h) ==
  /\ pc[h] = "mark"
  /\ seg' = [seg EXCEPT ![loc[h].ix].state = "arm"]
  /\ pc' = [pc EXCEPT ![h] = "post"]
  /\ UNCHANGED <<state, next, cur, mem, lock, loc, ctl, supplied, fails, arm, env>>

(* Mutant: the failure path forgets to hold on to the data.                   *)
PostFails_DropsData(h) ==
  /\ pc[h] = "post" /\ armq # <<>> /\ fails < env.fail
  /\ fails' = fails + 1
  /\ seg' = [seg EXCEPT ![loc[h].ix].state = "ready"]
  /\ Unlock(h)
  /\ UNCHANGED <<state, next, cur, mem, ctl, supplied, arm, env>>

(* Mutant: the failure path leaves the segment marked as the ARM's.           *)
PostFails_KeepsMark(h) ==
  /\ pc[h] = "post" /\ armq # <<>> /\ fails < env.fail
  /\ fails' = fails + 1
  /\ Unlock(h)
  /\ UNCHANGED <<chan, mem, ctl, supplied, arm, env>>

(* ChipALWrite: straight to the command register or, when that is in use,     *)
(* onto the software FIFO, which takes an allocation that may fail.           *)
Post(h) ==
  /\ pc[h] = "post"
  /\ armq' = Append(armq, loc[h].cmd)
  /\ pc' = [pc EXCEPT ![h] = "advance"]
  /\ UNCHANGED <<chan, mem, lock, loc, ctl, supplied, fails, hw, resp, line, losses, rejects, env>>

PostFails(h) ==
  /\ pc[h] = "post" /\ armq # <<>> /\ fails < env.fail
  /\ fails' = fails + 1
  /\ seg' = [seg EXCEPT ![loc[h].ix].state = "pending"]
  /\ Unlock(h)
  /\ UNCHANGED <<state, next, cur, mem, ctl, supplied, arm, env>>

(* Mutant: the ring index is not wrapped.                                     *)
Advance_NoWrap(h) ==
  /\ pc[h] = "advance"
  /\ next' = next + 1
  /\ Unlock(h)
  /\ UNCHANGED <<state, cur, seg, mem, ctl, supplied, fails, arm, env>>

(* A segment that was not filled to the brim ends the loop. *)
Advance(h) ==
  /\ pc[h] = "advance"
  /\ next' = After(next)
  /\ IF loc[h].cmd.count < Max
       THEN Unlock(h)
       ELSE /\ pc' = [pc EXCEPT ![h] = "look"]
            /\ loc' = [loc EXCEPT ![h].ix = After(next)]
            /\ UNCHANGED <<lock>>
  /\ UNCHANGED <<state, cur, seg, mem, ctl, supplied, fails, arm, env>>

DataHandler(h) ==
  \/ Enter(h) \/ Lock(h) \/ Resend(h) \/ Leave(h) \/ Mark(h)
  \/ Post(h) \/ PostFails(h) \/ Advance(h)
  \/ \E k \in 1 .. Max : Fill(h, k)
-------------------------------------------------------------------------------
(* lChipALLinkEnable on this channel: segment states are left as they are.    *)
Enable ==
  /\ state # "enabled" /\ stopPc = "no"
  /\ Settle => armq = <<>> /\ hw = <<>> /\ resp = <<>>
  /\ state' = "enabled" /\ timerOn' = TRUE
  /\ UNCHANGED <<next, cur, seg, mem, caller, stopPc, stops, supplied, fails, arm, env>>

(* ChipALDmaChanP46Disable, step by step: the channel is marked, the handler  *)
(* is taken off the timer, the stop command is written (its status is not     *)
(* looked at), and every segment is declared ready.                           *)
Quiet == Smp \/ \A h \in Handlers : Idle(h)

DisableMark ==
  /\ state = "enabled" /\ stopPc = "no" /\ stops < env.stop /\ Quiet
  /\ state' = "disabled" /\ stops' = stops + 1
  /\ timerOn' = FALSE /\ stopPc' = "stop"
  /\ UNCHANGED <<next, cur, seg, mem, caller, supplied, fails, arm, env>>

DisableStop ==
  /\ stopPc = "stop" /\ Quiet
  /\ stopPc' = "reset"
  /\ \/ armq' = Append(armq, StopCmd) /\ UNCHANGED fails
     \/ armq # <<>> /\ fails < env.fail /\ fails' = fails + 1 /\ UNCHANGED armq
  /\ UNCHANGED <<chan, mem, caller, timerOn, stops, supplied, hw, resp, line, losses, rejects, env>>

(* Mutant: only the indices are reset, as if the ISR still had an answer due. *)
DisableReset_IndicesOnly ==
  /\ stopPc = "reset" /\ Quiet
  /\ next' = 0 /\ cur' = 0 /\ stopPc' = "no"
  /\ UNCHANGED <<state, seg, mem, caller, timerOn, stops, supplied, fails, arm, env>>

DisableReset ==
  /\ stopPc = "reset" /\ Quiet
  /\ seg' = [s \in Segments |-> [seg[s] EXCEPT !.state = "ready"]]
  /\ next' = 0 /\ cur' = 0 /\ stopPc' = "no"
  /\ UNCHANGED <<state, mem, caller, timerOn, stops, supplied, fails, arm, env>>

Disable == DisableMark \/ DisableStop \/ DisableReset
-------------------------------------------------------------------------------
(* The interrupt handlers.  With one processor the lock keeps them out.       *)
Interrupt(kind) ==
  /\ resp # <<>> /\ Head(resp).kind = kind
  /\ Smp \/ lock = "free"
  /\ resp' = Tail(resp)
  /\ UNCHANGED <<mem, caller, ctl, supplied, fails, armq, hw, line, losses, rejects, env>>

(* The segments from CurrentSegment up to, not including, h.                  *)
Skipped(h) == {(cur + i) % N : i \in 0 .. ((h - cur) % N) - 1}

(* Mutant: CurrentSegment is left on the segment that was sent.               *)
DmaTxCompleteHandler_NoStep ==
  LET h == Head(resp).handle IN
  /\ Interrupt("complete")
  /\ IF state # "enabled" THEN UNCHANGED chan
     ELSE /\ seg' = [s \in Segments |-> IF s \in Skipped(h) \cup {h}
                                  THEN [seg[s] EXCEPT !.state = "ready"] ELSE seg[s]]
          /\ cur' = h /\ UNCHANGED <<state, next>>

DmaTxCompleteHandler ==
  LET r == Head(resp)
      h == r.handle
      freed == [s \in Segments |-> IF s \in Skipped(h)
                                     THEN [seg[s] EXCEPT !.state = "ready"] ELSE seg[s]]
  IN
  /\ Interrupt("complete")
  /\ IF state # "enabled" THEN UNCHANGED chan
     ELSE IF r.count # seg[h].count
       THEN (* The segment was cut short: its command is set to what remains. *)
            /\ seg' = [freed EXCEPT ![h].count = (@ - r.count) % 256,
                                    ![h].off = @ + r.count,
                                    ![h].state = "ready"]
            /\ next' = h /\ cur' = h /\ UNCHANGED state
       ELSE /\ seg' = [freed EXCEPT ![h].state = "ready"]
            /\ cur' = After(h) /\ UNCHANGED <<state, next>>

(* The ARM had no room for the segment, which is marked pending.  The scan    *)
(* for those sent after it starts from the Count of the response, and stops   *)
(* at a segment that the ARM does not have.                                   *)
Pended(s, c) == {(c + i) % N : i \in {i \in 1 .. N :
                    /\ c < N => i < N
                    /\ \A j \in 1 .. i : s[(c + j) % N].state = "arm"}}

DmaTxFullHandler ==
  LET r == Head(resp)
      h == r.handle
      marked == [seg EXCEPT ![h].state = "pending"]
  IN
  /\ Interrupt("full")
  /\ IF state # "enabled" \/ (r.count = seg[h].count /\ h = seg[h].handle)
       THEN UNCHANGED chan
       ELSE /\ seg' = [s \in Segments |->
                         IF s \in Pended(marked, r.count)
                           THEN [marked[s] EXCEPT !.state = "pending"]
                           ELSE marked[s]]
            /\ next' = h /\ UNCHANGED <<state, cur>>
-------------------------------------------------------------------------------
(* The ARM (external).  Commands are taken in the order they were written.    *)
ArmTake ==
  /\ armq # <<>> /\ Head(armq).op = "start"
  /\ armq' = Tail(armq)
  /\ LET c == Head(armq) IN
       \/ hw' = Append(hw, [cmd |-> c, sent |-> 0]) /\ UNCHANGED <<resp, rejects>>
       \/ /\ hw # <<>> /\ rejects < env.reject /\ rejects' = rejects + 1
          /\ resp' = Append(resp, [kind |-> "full", handle |-> c.handle, count |-> c.count])
          /\ UNCHANGED hw
  /\ UNCHANGED <<chan, mem, caller, ctl, supplied, fails, line, losses, env>>

(* A stop drops what is queued; the segment being sent is reported with the   *)
(* number of cells that made it.                                              *)
ArmStop ==
  /\ armq # <<>> /\ Head(armq).op = "stop"
  /\ armq' = Tail(armq) /\ hw' = <<>>
  /\ resp' = IF hw = <<>> THEN resp
             ELSE Append(resp, [kind |-> "complete", handle |-> Head(hw).cmd.handle,
                                count |-> Head(hw).sent])
  /\ UNCHANGED <<chan, mem, caller, ctl, supplied, fails, line, losses, rejects, env>>

(* The next cell of the oldest segment goes out, read from memory as it is    *)
(* now; the last one completes the segment.                                   *)
ArmSend ==
  /\ hw # <<>>
  /\ LET d == Head(hw)
         n == d.sent + 1
     IN /\ line' = Append(line, mem[d.cmd.addr][d.cmd.off + n])
        /\ IF n < d.cmd.count
             THEN hw' = [hw EXCEPT ![1].sent = n] /\ UNCHANGED resp
             ELSE /\ hw' = Tail(hw)
                  /\ resp' = Append(resp, [kind |-> "complete", handle |-> d.cmd.handle,
                                           count |-> n])
  /\ UNCHANGED <<chan, mem, caller, ctl, supplied, fails, armq, losses, rejects, env>>

(* An acknowledgement is lost ("Normally this will never happen").            *)
LoseAck ==
  /\ resp # <<>> /\ Head(resp).kind = "complete" /\ losses < env.lost
  /\ resp' = Tail(resp) /\ losses' = losses + 1
  /\ UNCHANGED <<chan, mem, caller, ctl, supplied, fails, armq, hw, line, rejects, env>>

Arm == ArmTake \/ ArmStop \/ ArmSend \/ LoseAck
-------------------------------------------------------------------------------
Next ==
  \/ \E h \in Handlers : DataHandler(h)
  \/ Enable \/ Disable
  \/ DmaTxCompleteHandler \/ DmaTxFullHandler
  \/ Arm

(* The ARM works on; a pending interrupt is served once the lock lets it in   *)
(* again and again; a handler that entered runs to its end; the soft timer    *)
(* enters whenever it can, as chipAlSoftTimer restarts itself every period.   *)
Fairness ==
  /\ WF_vars(ArmTake \/ ArmStop) /\ WF_vars(ArmSend)
  /\ SF_vars(DmaTxCompleteHandler \/ DmaTxFullHandler)
  /\ \A h \in Handlers : WF_vars(DataHandler(h) /\ ~Idle(h))
  /\ SF_vars(Enter(Timer))

Spec == Init /\ [][Next]_vars
LiveSpec == Spec /\ Fairness
===============================================================================
