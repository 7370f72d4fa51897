--------------------------------- MODULE Link ---------------------------------
(* The link goes up and down: the timer block (UtilTmr.c), the data pump's    *)
(* indications (CardALTigrisDp.c) and what they change in the card management *)
(* and the channels (CardMgmt.c, FrameAl.c, ChipALCdsl.c).                    *)
(* One kernel thread calls IndicateLinkUp and IndicateLinkDown.  The main     *)
(* timer's handler may run between any two of its steps; on one processor it  *)
(* ends before the thread goes on.  Neither takes a lock the other knows.     *)
(* (cardALChkAdptrStrucsOkNotDnldgDP, asked in all three, looks for NULL only *)
(* in spite of its name; while the thread and the timer run it finds none.)   *)
EXTENDS Naturals

CONSTANTS NumTimers,  \* slots of the timer block
          MaxLine,    \* bound: indications
          MaxNoise    \* bound: times too many errors are counted

(* A timer that starts itself again needs a second slot.                      *)
ASSUME LinkAssumption == {NumTimers, MaxLine, MaxNoise} \subseteq Nat /\ NumTimers > 1

(* What the modules keep about the link: MediaConnectStatus, Showtime, the    *)
(* two channels enabled, AdslLineUp.                                          *)
Status == {"media", "showtime", "tx", "rx", "adsl"}
Slots  == 1 .. NumTimers

VARIABLES act,     \* the slots whose pActionRtn is set
          ref,     \* those whose references are the connect timer's
          up,      \* those of Status that say the link is up
          noisy,   \* the CRC errors have left the window since they were stored
          line,    \* what was indicated last
          pc, at,  \* the thread's next step; the slot it looks at or has found
          raced,   \* a timer expired while the thread was inside ClearTmr or StartTmr
          lines, noises
vars == <<act, ref, up, noisy, line, pc, at, raced, lines, noises>>

Init == /\ act = {} /\ ref = {}
        /\ up = {} /\ noisy = FALSE /\ line = "down"
        /\ pc = "idle" /\ at = 0 /\ raced = FALSE
        /\ lines = 0 /\ noises = 0

First(S) == IF S = {} THEN 0 ELSE CHOOSE i \in S : \A j \in S : i <= j

(* UtilTmrStartTmr, called by the timer's handler, finds a slot without a     *)
(* function.                                                                  *)
FreeSlot == First(Slots \ act)
Again    == {FreeSlot} \ {0}

Step(l, m) == pc = l /\ pc' = m

(* A search goes from slot to slot until it finds one of S.                   *)
Search(S, found, none) ==
  \/ at \in S /\ pc' = found /\ UNCHANGED at
  \/ at \notin S /\ at < NumTimers /\ at' = at + 1 /\ UNCHANGED pc
  \/ at \notin S /\ at = NumTimers /\ pc' = none /\ UNCHANGED at

(* The thread is inside ClearTmr or StartTmr and has read or changed a slot.  *)
Inside == pc \in {"clear", "unref", "set", "ref"} \/ (pc \in {"find", "start"} /\ at # 1)
-------------------------------------------------------------------------------
(* The data pump controller reports what became of the line.                  *)
IndicateLinkUp ==
  /\ lines < MaxLine /\ Step("idle", "find")
  /\ line' = "up" /\ lines' = lines + 1 /\ at' = 1
  /\ UNCHANGED <<act, ref, up, noisy, raced, noises>>

IndicateLinkDown ==
  /\ lines < MaxLine /\ Step("idle", "find")
  /\ line' = "down" /\ lines' = lines + 1 /\ at' = 1
  /\ UNCHANGED <<act, ref, up, noisy, raced, noises>>

AfterClear == IF line = "up" THEN "crc" ELSE "media"

(* Mutant: the timer is left alone.                                           *)
ClearFind_Nothing ==
  /\ Step("find", AfterClear)
  /\ UNCHANGED <<at, act, ref, up, noisy, line, raced, lines, noises>>

(* UtilTmrClearTmr: a slot with the timer's references is searched, ...       *)
ClearFind ==
  /\ pc = "find" /\ Search(ref, "clear", AfterClear)
  /\ UNCHANGED <<act, ref, up, noisy, line, raced, lines, noises>>

(* ... its function cleared, ...                                              *)
ClearAction ==
  /\ Step("clear", "unref")
  /\ act' = act \ {at}
  /\ UNCHANGED <<ref, up, noisy, line, at, raced, lines, noises>>

(* ... and then the rest.                                                     *)
ClearRest ==
  /\ Step("unref", AfterClear)
  /\ ref' = ref \ {at}
  /\ UNCHANGED <<act, up, noisy, line, at, raced, lines, noises>>

(* IndicateLinkUp: CurrentCRCErrors is stored.                                *)
StoreErrors ==
  /\ Step("crc", "start") /\ noisy' = FALSE /\ at' = 1
  /\ UNCHANGED <<act, ref, up, line, raced, lines, noises>>

(* UtilTmrStartTmr: a slot without a function is searched, ...                *)
StartFind ==
  /\ pc = "start" /\ Search(Slots \ act, "set", "idle")
  /\ UNCHANGED <<act, ref, up, noisy, line, raced, lines, noises>>

(* ... its function set, with which it can expire already, ...                *)
StartAction ==
  /\ Step("set", "ref")
  /\ act' = act \cup {at}
  /\ UNCHANGED <<ref, up, noisy, line, at, raced, lines, noises>>

(* ... and then the rest.                                                     *)
StartRest ==
  /\ Step("ref", "idle")
  /\ ref' = ref \cup {at}
  /\ UNCHANGED <<act, up, noisy, line, at, raced, lines, noises>>

(* IndicateLinkDown, after the timer: one flag after the other.               *)
LinkDownOrder == [media |-> "showtime", showtime |-> "tx", tx |-> "rx", rx |-> "adsl",
                  adsl |-> "idle"]

LinkDownStep ==
  /\ pc \in Status /\ pc' = LinkDownOrder[pc]
  /\ up' = up \ {pc}
  /\ UNCHANGED <<act, ref, noisy, line, at, raced, lines, noises>>

(* CmgmtIndicateLinkUp, from the timer: everything at once.  (The cell it     *)
(* queues belongs to module Oam.)                                             *)
LinkUp == up' = Status

(* Mutant: with too many errors the timer is not started again.               *)
Expire_Once(i) ==
  /\ i \in act
  /\ raced' = (raced \/ Inside)
  /\ act' = act \ {i} /\ ref' = ref \ {i}
  /\ IF noisy THEN noisy' = FALSE /\ UNCHANGED up ELSE LinkUp /\ UNCHANGED noisy
  /\ UNCHANGED <<line, pc, at, lines, noises>>

(* UtilTmrTmrBackground: ChipAlTigrisDPLinkUp of an expired timer.  With too  *)
(* many errors since they were stored it starts the timer again, in another   *)
(* slot, as its own is cleared after it only.                                 *)
Expire(i) ==
  /\ i \in act
  /\ raced' = (raced \/ Inside)
  /\ \/ /\ noisy /\ noisy' = FALSE /\ UNCHANGED up
        /\ act' = (act \cup Again) \ {i} /\ ref' = (ref \cup Again) \ {i}
     \/ /\ ~noisy /\ LinkUp /\ UNCHANGED noisy
        /\ act' = act \ {i} /\ ref' = ref \ {i}
  /\ UNCHANGED <<line, pc, at, lines, noises>>

(* The data pump counts errors, or begins to count again.                     *)
Noise ==
  /\ ~noisy /\ noises < MaxNoise
  /\ noisy' = TRUE /\ noises' = noises + 1
  /\ UNCHANGED <<act, ref, up, line, pc, at, raced, lines>>

Thread == \/ IndicateLinkUp \/ IndicateLinkDown
          \/ ClearFind \/ ClearAction \/ ClearRest
          \/ StoreErrors \/ StartFind \/ StartAction \/ StartRest \/ LinkDownStep
Next == Thread \/ Noise \/ \E i \in Slots : Expire(i)

Spec == Init /\ [][Next]_vars

(* A call goes on, and a timer that is set expires.                           *)
LiveSpec == /\ Spec /\ WF_vars(Thread /\ pc # "idle")
            /\ \A i \in Slots : WF_vars(Expire(i))
-------------------------------------------------------------------------------
(* Properties.                                                                *)

(* Between two indications the parts of the driver agree about the link: all  *)
(* say it is down and no timer is running if that was the last indication;    *)
(* otherwise all say it is up, or that it was not yet, and one timer decides. *)
(* Unless a timer expired in the middle of ClearTmr or StartTmr.              *)
LinkAgrees ==
  ~raced /\ pc = "idle" =>
    /\ up \in {{}, Status}
    /\ line = "down" => up = {} /\ act = {}
    /\ line = "up"   => (\E i \in Slots : act = {i}) \/ (act = {} /\ up = Status)

(* If the line stays up, the link comes up, races or not.                     *)
LinkComesUp == <>[](line = "up") => <>[](up = Status)
===============================================================================
