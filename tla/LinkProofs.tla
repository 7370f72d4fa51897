------------------------------ MODULE LinkProofs ------------------------------
(* The parts of the driver agree about the link, for any number of timers,    *)
(* indications and errors.                                                    *)
EXTENDS Link, WellFoundedInduction, TLAPS

(* No timer runs; the only one is in slot i.                                  *)
None    == act = {} /\ ref = {}
Only(i) == act = {i} /\ ref = {i} /\ i \in Slots

Places == {"idle", "find", "clear", "unref", "crc", "start", "set", "ref"} \cup Status

Types == /\ act \subseteq Slots /\ ref \subseteq Slots
         /\ pc \in {"find", "clear", "unref", "start", "set", "ref"} => at \in Slots
         /\ pc \in Places /\ line \in {"up", "down"} /\ noisy \in BOOLEAN

(* The thread at each step, when no timer has come in between.                *)
Idle   == pc = "idle" =>
            /\ line = "down" => None /\ up = {}
            /\ line = "up" => \/ up \in {{}, Status} /\ \E i \in Slots : Only(i)
                              \/ up = Status /\ None
Find   == pc = "find" => /\ up \in {{}, Status}
                         /\ None \/ \E i \in Slots : Only(i) /\ at <= i
Clear  == /\ pc = "clear" => up \in {{}, Status} /\ Only(at)
          /\ pc = "unref" => up \in {{}, Status} /\ act = {} /\ ref = {at}
Start  == /\ pc \in {"crc", "start", "set", "ref"} => line = "up" /\ up \in {{}, Status}
          /\ pc \in {"crc", "start", "set"} => None
          /\ pc = "start" => at = 1
          /\ pc = "ref" => act = {at} /\ ref = {} /\ at \in Slots
Done   == [media |-> {}, showtime |-> {"media"}, tx |-> {"media", "showtime"},
           rx |-> {"media", "showtime", "tx"}, adsl |-> {"media", "showtime", "tx", "rx"}]
Down   == pc \in Status => line = "down" /\ None /\ up \subseteq Status \ Done[pc]

IInv == Types /\ (~raced => Idle /\ Find /\ Clear /\ Start /\ Down)
-------------------------------------------------------------------------------
(* A set of slots that is not empty has a first one.                          *)
LEMMA FirstIsMember ==
  ASSUME NEW S \in SUBSET Nat, S # {}
  PROVE  First(S) \in S
<1> DEFINE Less == {ss \in Nat \X Nat : ss[1] < ss[2]}
<1>1. IsWellFoundedOn(Less, Nat)
  BY NatLessThanWellFounded DEF OpToRel
<1> HIDE DEF Less
<1>2. PICK x \in S : \A y \in S : ~(<<y, x>> \in Less)
  BY <1>1, WFMin
<1>3. ASSUME NEW y \in S PROVE x <= y
  <2>1. y < x => <<y, x>> \in Less
    BY DEF Less
  <2> QED BY <1>2, <2>1
<1> QED BY <1>2, <1>3 DEF First

(* A slot that is not taken is found if there is one.                         *)
LEMMA FoundFree ==
  ASSUME NEW j \in Slots, j \notin act
  PROVE  FreeSlot \in Slots \ act /\ FreeSlot # 0
BY FirstIsMember, Slots \ act \in SUBSET Nat DEF FreeSlot, Slots

(* A timer that expires is the only one.  It ends or moves to another slot.   *)
LEMMA ExpireMoves ==
  ASSUME IInv, NEW i \in Slots, Expire(i), ~raced'
  PROVE  /\ pc = "idle" \/ (pc = "find" /\ at = 1)
         /\ line' = line /\ pc' = pc /\ at' = at /\ Only(i)
         /\ \/ up' = Status /\ None'
            \/ up' = up /\ \E j \in Slots : Only(j)'
<1>1. /\ ~raced /\ ~Inside /\ i \in act
      /\ line' = line /\ pc' = pc /\ at' = at
  BY DEF Expire
<1>2. /\ pc = "idle" \/ (pc = "find" /\ at = 1)
      /\ Only(i)
  BY <1>1 DEF Inside, IInv, Types, Places, Idle, Find, Start, Down, None, Only
<1>3. CASE ~noisy
  BY <1>1, <1>2, <1>3 DEF Expire, LinkUp, None, Only
<1>4. CASE noisy
  <2>1. PICK j \in Slots : j # i
    BY LinkAssumption DEF Slots
  <2>2. PICK f \in Slots : f = FreeSlot /\ f # i /\ f # 0
    BY <2>1, <1>2, FoundFree DEF Only
  <2>3. up' = up /\ act' = {f} /\ ref' = {f}
    BY <1>2, <1>4, <2>2 DEF Expire, Again, Only
  <2> QED BY <1>1, <1>2, <2>2, <2>3 DEF Only
<1> QED BY <1>3, <1>4
-------------------------------------------------------------------------------
LEMMA FreeIsSlot == FreeSlot \in Slots \cup {0}
BY FirstIsMember, Slots \ act \in SUBSET Nat DEF FreeSlot, First, Slots

(* A search stays within the slots.                                           *)
LEMMA SearchInSlots ==
  ASSUME NEW STATE S, NEW STATE found, NEW STATE none, at \in Slots, Search(S, found, none)
  PROVE  at' \in Slots /\ pc' \in {pc, found, none}
BY LinkAssumption DEF Search, Slots

LEMMA TypesHold == Types /\ [Next]_vars => Types'
<1> SUFFICES ASSUME Types, [Next]_vars PROVE Types'
  OBVIOUS
<1>0. FreeSlot \in Slots \cup {0} /\ 1 \in Slots
  BY FreeIsSlot, LinkAssumption DEF Slots
<1> USE DEF Types, Places, Status, Step
<1>1. CASE IndicateLinkUp \/ IndicateLinkDown
  BY <1>0, <1>1 DEF IndicateLinkUp, IndicateLinkDown
<1>2. CASE ClearFind \/ ClearAction \/ ClearRest
  BY <1>2, SearchInSlots DEF ClearFind, ClearAction, ClearRest, AfterClear
<1>3. CASE StoreErrors \/ StartFind \/ StartAction \/ StartRest
  BY <1>0, <1>3, SearchInSlots DEF StoreErrors, StartFind, StartAction, StartRest
<1>4. CASE LinkDownStep
  BY <1>4 DEF LinkDownStep, LinkDownOrder
<1>5. CASE Noise
  BY <1>5 DEF Noise
<1>6. ASSUME NEW i \in Slots, Expire(i) PROVE Types'
  BY <1>0, <1>6 DEF Expire, LinkUp, Again
<1>7. CASE UNCHANGED vars
  BY <1>7 DEF vars
<1> QED BY <1>1, <1>2, <1>3, <1>4, <1>5, <1>6, <1>7 DEF Next, Thread

LEMMA Inductive == IInv /\ [Next]_vars => IInv'
<1> SUFFICES ASSUME IInv, [Next]_vars, ~raced'
             PROVE  Idle' /\ Find' /\ Clear' /\ Start' /\ Down'
  BY TypesHold DEF IInv
<1>0. ~raced /\ Types
  <2>1. ASSUME NEW i \in Slots, Expire(i) PROVE ~raced
    BY <2>1 DEF Expire
  <2>2. CASE \/ Thread \/ Noise \/ UNCHANGED vars
    <3>1. raced' = raced
      BY <2>2 DEF Thread, vars, IndicateLinkUp, IndicateLinkDown, ClearFind, ClearAction,
         ClearRest, StoreErrors, StartFind, StartAction, StartRest, LinkDownStep, Noise
    <3> QED BY <3>1 DEF IInv
  <2> QED BY <2>1, <2>2 DEF Next, IInv
<1>1. Idle /\ Find /\ Clear /\ Start /\ Down
  BY <1>0 DEF IInv
<1> USE DEF Idle, Find, Clear, Start, Down, Step, Status, None, Only
<1>2. CASE IndicateLinkUp \/ IndicateLinkDown
  <2>1. \A j \in Slots : 1 <= j
    BY DEF Slots
  <2> QED BY <1>0, <1>1, <1>2, <2>1 DEF IndicateLinkUp, IndicateLinkDown, Types
<1>3. CASE ClearFind
  <2>1. /\ pc = "find" /\ UNCHANGED <<act, ref, up, line>>
        /\ Search(ref, "clear", AfterClear) /\ at \in Slots
    BY <1>0, <1>3 DEF ClearFind, Types
  <2>2. CASE None
    <3>1. pc' \in {"find", AfterClear}
      BY <2>1, <2>2 DEF Search
    <3>2. CASE pc' = "find"
      BY <1>1, <2>1, <2>2, <3>2
    <3>3. CASE pc' = AfterClear
      BY <1>0, <1>1, <2>1, <2>2, <3>3 DEF AfterClear, Types, Done
    <3> QED BY <3>1, <3>2, <3>3
  <2>3. ASSUME NEW i \in Slots, Only(i), at <= i
        PROVE  Idle' /\ Find' /\ Clear' /\ Start' /\ Down'
    <3>1. CASE at = i
      BY <1>1, <2>1, <2>3, <3>1 DEF Search
    <3>2. CASE at # i
      <4>1. at < i /\ i <= NumTimers /\ at + 1 <= i
        BY <2>1, <2>3, <3>2, LinkAssumption DEF Slots
      <4>2. at' = at + 1 /\ pc' = pc
        BY <2>1, <2>3, <3>2, <4>1, LinkAssumption DEF Search, Slots
      <4> QED BY <1>1, <2>1, <2>3, <4>1, <4>2
    <3> QED BY <3>1, <3>2
  <2> QED BY <1>1, <2>1, <2>2, <2>3
<1>4. CASE ClearAction
  BY <1>1, <1>4 DEF ClearAction
<1>5. CASE ClearRest
  BY <1>0, <1>1, <1>5 DEF ClearRest, AfterClear, Types, Done
<1>6. CASE StoreErrors
  BY <1>1, <1>6 DEF StoreErrors
<1>7. CASE StartFind
  <2>1. at = 1 /\ at \in Slots \ act
    BY <1>1, <1>7, LinkAssumption DEF StartFind, Slots
  <2>2. pc' = "set" /\ UNCHANGED <<at, act, ref, up, line>>
    BY <1>7, <2>1 DEF StartFind, Search
  <2> QED BY <1>1, <1>7, <2>1, <2>2 DEF StartFind
<1>8. CASE StartAction
  BY <1>0, <1>1, <1>8 DEF StartAction, Types
<1>9. CASE StartRest
  BY <1>1, <1>9 DEF StartRest
<1>10. CASE LinkDownStep
  BY <1>1, <1>10 DEF LinkDownStep, LinkDownOrder, Done
<1>11. CASE Noise
  BY <1>1, <1>11 DEF Noise
<1>12. ASSUME NEW i \in Slots, Expire(i) PROVE Idle' /\ Find' /\ Clear' /\ Start' /\ Down'
  <2>1. \A j \in Slots : 1 <= j
    BY DEF Slots
  <2> QED BY <1>0, <1>1, <1>12, <2>1, ExpireMoves DEF Types
<1>13. CASE UNCHANGED vars
  BY <1>1, <1>13 DEF vars
<1> QED BY <1>2, <1>3, <1>4, <1>5, <1>6, <1>7, <1>8, <1>9, <1>10, <1>11, <1>12, <1>13
        DEF Next, Thread

(* Between two indications the flags and channels agree and the timer runs    *)
(* exactly when it has to, unless one expired inside ClearTmr or StartTmr.    *)
THEOREM TheLinkAgrees == Spec => []LinkAgrees
<1>1. Init => IInv
  BY DEF Init, IInv, Types, Places, Status, Idle, Find, Clear, Start, Down, None
<1>2. IInv => LinkAgrees
  BY DEF IInv, Idle, Types, LinkAgrees, None, Only
<1> QED BY <1>1, <1>2, Inductive, PTL DEF Spec
===============================================================================
