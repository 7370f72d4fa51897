-------------------------------- MODULE Shaper --------------------------------
(* The traffic shaper (FrameALATMShaper.c) and the part of the ATM layer      *)
(* (FrameALATM.c) that uses it to choose the circuit the next cell is from.   *)
(* A thread opens and closes circuits.  The frame layer's timer and the       *)
(* transmit and receive paths are softirqs: on one processor each ends before *)
(* the thread goes on, and comes between any two of its steps.  The only      *)
(* precaution is that the thread and the timer turn shaping off while they    *)
(* compute.  Cells to send come from the AAL layer, which is asked for one.   *)
EXTENDS Integers, FiniteSetsExt, SequencesExt

CONSTANTS MaxVc,      \* MAX_VC_PER_LINK: slots of VC_Info
          SlotsPerVc, \* SLOTS_PER_VC: slots of a circuit that names no rate
          One,        \* FRACTIZE(1): the unit of the fixed-point numbers
          Lower,      \* TimerIntervalLower: ticks in a second
          Limit,      \* ClientLimit, in cells per second
          Burst,      \* DefaultBurstSize, in cells
          Rates,      \* the peak cell rates circuits are opened with; 0: none
          LineRates,  \* the upstream rates the line trains to, in cells per second
          Overlap,    \* TRUE: the line may be checked while the slot table is built
          MaxOpen, MaxLine  \* bounds: circuits opened, trainings of the line

Vcs  == 0 .. MaxVc - 1
Size == SlotsPerVc * MaxVc        \* SLOT_TABLE_SIZE

ASSUME ShaperAssumption ==
  /\ {MaxVc, SlotsPerVc, One, Lower, Limit, Burst} \subseteq Nat \ {0}
  /\ One >= Limit * MaxVc             \* no share of the table is rounded to nothing
  /\ 0 \notin LineRates /\ LineRates \subseteq Nat
  /\ Rates \subseteq 0 .. SlotsPerVc    \* beyond it the slot table is too small
  /\ Overlap \in BOOLEAN

VARIABLES vc,        \* the circuits: [ctx, tx, active, slots, rate, step, total]
          flag,      \* TrafficShapingActive
          cellSlots, \* CellSlots: how much credit a tick is worth, 0 without shaping
          table, end, active, \* VCSlotTable, VCSlotTableEnd, VCsActive
          slot, turn,         \* CurrentSlot, CurrentVC
          used,      \* VCSlotsUsed of each circuit
          line,      \* the upstream rate, 0 while the line is down
          pc, who, result,    \* the thread, its circuit and the shaper's answer
          queue,     \* the AAL layer has a cell for the circuit
          opens, lines
shaper == <<flag, cellSlots, table, end, active, used>>
pos    == <<slot, turn>>
thread == <<pc, who, result>>
bounds == <<opens, lines>>
vars   == <<vc, shaper, pos, line, thread, queue, bounds>>

NoVc == [ctx |-> FALSE, tx |-> FALSE, active |-> FALSE, slots |-> 0, rate |-> 0,
         step |-> 0, total |-> 0]
Context(v) == vc[v].ctx          \* FrameALVCMod is set

Init ==
  /\ vc = [v \in Vcs |-> NoVc]
  /\ flag = FALSE /\ cellSlots = 0 /\ end = 0 /\ active = 0
  /\ table = [i \in 0 .. Size - 1 |-> [vc |-> 0, next |-> 0]]
  /\ used = [v \in Vcs |-> 0]
  /\ slot = 0 /\ turn = 0
  /\ line = 0 /\ pc = "idle" /\ who = 0 /\ result = FALSE
  /\ queue = [v \in Vcs |-> FALSE]
  /\ opens = 0 /\ lines = 0
-------------------------------------------------------------------------------
(* FrATMShUpStepSizes.  Nothing is shaped while the line is down or faster    *)
(* than the limit.                                                            *)
ActiveOf(c) == {v \in Vcs : c[v].active}
Shapeable   == line \in 1 .. Limit

Stepped(c) == [v \in Vcs |->
  IF c[v].active
  THEN [c[v] EXCEPT !.step = IF c[v].rate < line THEN (One * c[v].rate) \div line ELSE One]
  ELSE c[v]]

Cyclic(i, n) == [k \in 1 .. n |-> (i + k) % n]
FirstIn(s, P(_)) == s[Min({k \in DOMAIN s : P(s[k]) \/ k = Len(s)})]

(* The clamping of FrATMShVCInit: without a rate, or with one that the limit  *)
(* does not allow, a circuit gets the limit.                                  *)
Clamp(p) == IF p # 0 /\ p < Limit THEN [slots |-> p, rate |-> p]
                                  ELSE [slots |-> SlotsPerVc, rate |-> Limit]

(* What the table depends on: for each circuit its slots and its rate, or     *)
(* nothing if it is not active.                                               *)
Nothing   == [slots |-> 0, rate |-> 0]
Demand(c) == [v \in Vcs |-> IF c[v].active THEN [slots |-> c[v].slots, rate |-> c[v].rate]
                                           ELSE Nothing]

(* FrATMShBuildSlotTable.  Round after round every circuit's share of the     *)
(* bandwidth is added to its total; of the circuits that have slots left, the *)
(* first with the greatest total gets the next slot if that is worth one.     *)
Demands == [Vcs -> {Nothing} \cup {Clamp(p) : p \in Rates}]
SumOver(d, field) == MapThenSumSet(LAMBDA v : d[v][field], Vcs)
Winners(d, own, round) ==
  LET given(v) == Cardinality({i \in DOMAIN own : own[i] = v})
      total(v) == round * ((One * d[v].rate) \div SumOver(d, "rate")) - One * given(v)
      Left     == {v \in Vcs : given(v) < d[v].slots}
  IN {v \in Left : total(v) >= One /\ \A w \in Left :
        total(w) < total(v) \/ (total(w) = total(v) /\ w >= v)}

(* The circuits the slots belong to, from those that are handed out already.  *)
Owners[d \in Demands, own \in Seq(Vcs), round \in Nat] ==
  IF Len(own) = SumOver(d, "slots") THEN own
  ELSE Owners[d, own \o SetToSeq(Winners(d, own, round)), round + 1]

(* Mutant: the circuit after this one is taken for the next active one.       *)
NextActive_Plain(d, v) == (v + 1) % MaxVc

(* The slot to try next is the next one of the next active circuit.           *)
NextActive(d, v) == FirstIn(Cyclic(v, MaxVc), LAMBDA w : d[w] # Nothing)
Pointers[d \in Demands, own \in Seq(Vcs)] ==
  LET n == Len(own)
      next(i) == FirstIn(Cyclic(i, n), LAMBDA j : own[j + 1] = NextActive(d, own[i + 1]))
  IN [i \in 0 .. n - 1 |-> [vc |-> own[i + 1], next |-> next(i)]]
Layout(d) == Pointers[d, Owners[d, <<>>, 1]]

Slots(c)  == [v \in Vcs |-> Demand(c)[v].slots]
EndOf(c)  == SumOver(Demand(c), "slots")
Filled(c) == Layout(Demand(c)) @@ table
-------------------------------------------------------------------------------
(* The thread: FrameALVCInit and FrameALVCShutdown.                           *)
Step(l, m) == pc = l /\ pc' = m

Open(p) ==
  LET v == Min({w \in Vcs : ~Context(w)}) IN
  /\ opens < MaxOpen /\ opens' = opens + 1
  /\ \E w \in Vcs : ~Context(w)
  /\ Step("idle", "add") /\ who' = v
  /\ vc' = [vc EXCEPT ![v] = [NoVc EXCEPT !.ctx = TRUE, !.tx = TRUE,
                                          !.slots = Clamp(p).slots, !.rate = Clamp(p).rate]]
  /\ flag' = FALSE
  /\ UNCHANGED <<cellSlots, table, end, active, used, pos, line, result, queue, lines>>

Add ==
  /\ Step("add", "steps")
  /\ vc' = [vc EXCEPT ![who].total = One, ![who].active = TRUE]
  /\ UNCHANGED <<shaper, pos, line, who, result, queue, bounds>>

(* The functions are taken away; on one processor no call is active.          *)
Close(v) ==
  /\ Step("idle", "remove") /\ Context(v) /\ who' = v
  /\ vc' = [vc EXCEPT ![v].tx = FALSE]
  /\ flag' = FALSE
  /\ UNCHANGED <<cellSlots, table, end, active, used, pos, line, result, queue, bounds>>

Withdraw ==
  /\ Step("remove", "steps")
  /\ vc' = [vc EXCEPT ![who].rate = 0, ![who].total = 0, ![who].active = FALSE]
  /\ UNCHANGED <<shaper, pos, line, who, result, queue, bounds>>

StepsOff ==
  /\ Step("steps", "flag")
  /\ ~Shapeable \/ ActiveOf(vc) = {}
  /\ cellSlots' = 0 /\ result' = FALSE
  /\ UNCHANGED <<vc, flag, table, end, active, used, pos, line, who, queue, bounds>>

Steps ==
  /\ Step("steps", "fill")
  /\ Shapeable /\ ActiveOf(vc) # {}
  /\ cellSlots' = (One * line) \div Lower /\ result' = TRUE
  /\ vc' = Stepped(vc)
  /\ active' = Cardinality(ActiveOf(vc)) /\ end' = EndOf(vc) /\ used' = Slots(vc)
  /\ UNCHANGED <<flag, table, pos, line, who, queue, bounds>>

(* The slots are handed out until the table is full.  When no circuit has any *)
(* left, the loop goes round for ever.                                        *)
FillTable ==
  /\ Step("fill", "flag")
  /\ used = Slots(vc)
  /\ table' = Filled(vc) /\ used' = [v \in Vcs |-> 0]
  /\ UNCHANGED <<vc, flag, cellSlots, end, active, pos, line, who, result, queue, bounds>>

(* The answer is stored; a circuit that was closed is freed.                  *)
SetFlag ==
  /\ Step("flag", "idle")
  /\ flag' = result
  /\ IF vc[who].tx THEN UNCHANGED <<vc, queue>>
     ELSE vc' = [vc EXCEPT ![who] = NoVc] /\ queue' = [queue EXCEPT ![who] = FALSE]
  /\ who' = 0 /\ result' = FALSE
  /\ UNCHANGED <<cellSlots, table, end, active, used, pos, line, bounds>>

ThreadStep == Add \/ Withdraw \/ StepsOff \/ Steps \/ FillTable \/ SetFlag
-------------------------------------------------------------------------------
(* The frame layer's timer: FrATMShIncrStepSize adds a tick's worth of credit *)
(* to every active circuit that has not reached its burst; now and then it    *)
(* computes everything again for the rate the line has by then.               *)
(* Mutant: no credit is given.                                                *)
Credited_Stuck(c, n) == c
Credited(c, n) == [v \in Vcs |->
  IF n > 0 /\ c[v].active /\ c[v].total < One * Burst
    THEN [c[v] EXCEPT !.total = @ + (n * c[v].step) \div One]
    ELSE c[v]]

Tick ==
  /\ vc' = Credited(vc, cellSlots)
  /\ UNCHANGED <<shaper, pos, line, thread, queue, bounds>>

CheckLine ==
  /\ Overlap \/ pc # "fill"
  /\ IF Shapeable /\ ActiveOf(vc) # {}
       THEN LET c == Stepped(vc) n == (One * line) \div Lower IN
            /\ flag' = TRUE /\ cellSlots' = n
            /\ vc' = Credited(c, n)
            /\ active' = Cardinality(ActiveOf(c)) /\ end' = EndOf(c)
            /\ table' = Filled(c) /\ used' = [v \in Vcs |-> 0]
       ELSE flag' = FALSE /\ cellSlots' = 0 /\ UNCHANGED <<vc, table, end, active, used>>
  /\ UNCHANGED <<pos, line, thread, queue, bounds>>
-------------------------------------------------------------------------------
(* FrameALATMGetTxFullBuffer: the channel asks for a cell.                    *)
HasCell(v) == vc[v].tx /\ queue[v]

(* Without shaping the circuits take turns.                                   *)
TakeTurns ==
  LET v == FirstIn(Cyclic(turn - 1, MaxVc), LAMBDA w : HasCell(w)) IN
  /\ line > 0 /\ ~flag
  /\ IF HasCell(v) THEN queue' = [queue EXCEPT ![v] = FALSE] /\ turn' = (v + 1) % MaxVc
                   ELSE UNCHANGED <<queue, turn>>
  /\ UNCHANGED <<vc, shaper, slot, line, thread, bounds>>

(* FrATMShGetCell: the circuit whose slot it is, or the next that has credit  *)
(* and a cell; as many are tried as there are active circuits.                *)
Ready(v) == vc[v].active /\ vc[v].total > One /\ HasCell(v)
Try[k \in Nat] == IF k = 0 THEN slot ELSE table[Try[k - 1]].next

Shape ==
  LET tries == {k \in 0 .. Max({1, active}) - 1 : Ready(table[Try[k]].vc)}
      v     == table[Try[Min(tries)]].vc
  IN /\ line > 0 /\ flag
     /\ slot' = IF slot + 1 < end THEN slot + 1 ELSE 0
     /\ IF tries = {} THEN UNCHANGED <<vc, queue>>
        ELSE /\ queue' = [queue EXCEPT ![v] = FALSE]
             /\ vc' = [vc EXCEPT ![v].total = @ - One]
     /\ UNCHANGED <<shaper, turn, line, thread, bounds>>

GetCell == TakeTurns \/ Shape
-------------------------------------------------------------------------------
(* The layers above and the line (external).                                  *)
Supply(v) ==
  /\ vc[v].tx /\ ~queue[v]
  /\ queue' = [queue EXCEPT ![v] = TRUE]
  /\ UNCHANGED <<vc, shaper, pos, line, thread, bounds>>

(* The channel asks for cells only while the line is up.                      *)
LinkUp(r) ==
  /\ line = 0 /\ lines < MaxLine /\ lines' = lines + 1
  /\ line' = r
  /\ UNCHANGED <<vc, shaper, pos, thread, queue, opens>>

LinkDown ==
  /\ line # 0 /\ line' = 0
  /\ UNCHANGED <<vc, shaper, pos, thread, queue, bounds>>

Next ==
  \/ \E p \in Rates : Open(p)
  \/ \E v \in Vcs : Close(v) \/ Supply(v)
  \/ ThreadStep \/ Tick \/ CheckLine \/ GetCell
  \/ \E r \in LineRates : LinkUp(r)
  \/ LinkDown

Spec == Init /\ [][Next]_vars
(* The timer restarts itself; the channel asks for cells as long as the line  *)
(* is up; the thread is scheduled.                                            *)
LiveSpec == Spec /\ WF_vars(ThreadStep) /\ WF_vars(Tick) /\ WF_vars(CheckLine) /\ WF_vars(GetCell)
===============================================================================
