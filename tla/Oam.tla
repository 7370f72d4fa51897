---------------------------------- MODULE Oam ----------------------------------
(* The cells of the ATM layer that no packet is behind (FrameALATMOAM.c), and *)
(* how a received one finds its circuit (FrameALATMDeMUX).  The link owes     *)
(* one cell when the line has come up, every circuit owes one when it was     *)
(* opened, and a loopback cell from the far end is sent back; for that one    *)
(* there is a single buffer.  A thread opens and closes circuits; cells are   *)
(* sent and received in softirqs, between any two of its steps.               *)
EXTENDS Integers, FiniteSetsExt

CONSTANTS MaxVc,      \* MAX_VC_PER_LINK: slots of VC_Info
          Addresses,  \* the VPI/VCI pairs circuits are opened with
          CloseOwing, \* TRUE: a circuit may close while a reply refers to it
          MaxOpen, MaxLine, MaxLoop  \* bounds: circuits opened, trainings of the
                                     \* line, loopback cells from the far end

ASSUME OamAssumption ==
  /\ MaxVc \in Nat \ {0} /\ {MaxOpen, MaxLine, MaxLoop} \subseteq Nat
  /\ CloseOwing \in BOOLEAN

Vcs     == 0 .. MaxVc - 1
NoReply == -1
Link    == -2     \* the circuit handle of a cell on VCI 3 or 4: none
NoAddr  == "none"
NoVc    == [ctx |-> FALSE, addr |-> NoAddr, fns |-> FALSE, init |-> FALSE]

VARIABLES vc,       \* the circuits: FrameALVCMod, address, functions, InitCellsToSend
          inits,    \* VCWithInitCellsToSend
          linkCell, \* LinkUpCellToSend
          reply,    \* OAMCell.VCHdl while CellToSend
          line,     \* the line is up
          pc, who,  \* the thread and its circuit
          owed,     \* loopback cells taken and not yet sent back
          opens, lines, loops
thread == <<pc, who>>
bounds == <<opens, lines, loops>>
vars   == <<vc, inits, linkCell, reply, line, thread, owed, bounds>>

Context(v) == vc[v].ctx

Init ==
  /\ vc = [v \in Vcs |-> NoVc]
  /\ inits = 0 /\ linkCell = FALSE /\ reply = NoReply /\ line = FALSE
  /\ pc = "idle" /\ who = 0
  /\ owed = 0
  /\ opens = 0 /\ lines = 0 /\ loops = 0
-------------------------------------------------------------------------------
(* The thread: FrameALVCInit and FrameALVCShutdown.  Linux opens no second    *)
(* circuit with an address that is in use.                                    *)
Step(l, m)  == pc = l /\ pc' = m
Taken       == {vc[v].addr : v \in {w \in Vcs : Context(w)}}
OnlyVc      == UNCHANGED <<inits, linkCell, reply, line, owed>>

Open(a) ==
  /\ opens < MaxOpen /\ opens' = opens + 1
  /\ \E v \in Vcs : ~Context(v)
  /\ a \notin Taken
  /\ Step("idle", "functions") /\ who' = Min({v \in Vcs : ~Context(v)})
  /\ vc' = [vc EXCEPT ![who'] = [NoVc EXCEPT !.ctx = TRUE, !.addr = a]]
  /\ OnlyVc /\ UNCHANGED <<lines, loops>>

SetFunctions ==
  /\ Step("functions", "first")
  /\ vc' = [vc EXCEPT ![who].fns = TRUE]
  /\ OnlyVc /\ UNCHANGED <<who, bounds>>

(* FrameALATMOAMVCInit: the circuit has a cell to send, and then is counted.  *)
SetFirst ==
  /\ Step("first", "count")
  /\ vc' = [vc EXCEPT ![who].init = TRUE]
  /\ OnlyVc /\ UNCHANGED <<who, bounds>>

CountFirst ==
  /\ Step("count", "idle") /\ who' = 0
  /\ inits' = inits + 1
  /\ UNCHANGED <<vc, linkCell, reply, line, owed, bounds>>

Close(v) ==
  /\ Context(v) /\ (CloseOwing \/ reply # v)
  /\ Step("idle", "free") /\ who' = v
  /\ vc' = [vc EXCEPT ![v].fns = FALSE]
  /\ OnlyVc /\ UNCHANGED bounds

(* Mutant: a circuit that is freed is counted down.                           *)
Free_CountsDown ==
  /\ Step("free", "idle") /\ who' = 0
  /\ vc' = [vc EXCEPT ![who] = NoVc]
  /\ inits' = IF inits > 0 THEN inits - 1 ELSE 0
  /\ UNCHANGED <<linkCell, reply, line, owed, bounds>>

(* Neither VCWithInitCellsToSend nor the reply of the link is looked at.      *)
Free ==
  /\ Step("free", "idle") /\ who' = 0
  /\ vc' = [vc EXCEPT ![who] = NoVc]
  /\ OnlyVc /\ UNCHANGED bounds

ThreadStep == SetFunctions \/ SetFirst \/ CountFirst \/ Free
-------------------------------------------------------------------------------
(* FrameALOAMLinkGetTxFullBuffer, when the channel asks for a cell: a reply   *)
(* goes first, then a circuit's first cell, then the link's.                  *)
First == {v \in Vcs : Context(v) /\ vc[v].init}

(* FrameALATMGetCell counts a reply in the statistics of its circuit, through *)
(* the context the circuit has by then: if it has none, the kernel faults.    *)
SendReply ==
  /\ line /\ reply # NoReply
  /\ reply' = NoReply /\ owed' = owed - 1
  /\ UNCHANGED <<vc, inits, linkCell, line, thread, bounds>>

(* Mutant: the count is cleared by the first circuit that has sent its cell.  *)
SendFirst_ClearsCount ==
  /\ line /\ reply = NoReply /\ inits > 0 /\ First # {}
  /\ vc' = [vc EXCEPT ![Min(First)].init = FALSE]
  /\ inits' = 0
  /\ UNCHANGED <<linkCell, reply, line, thread, owed, bounds>>

SendFirst ==
  /\ line /\ reply = NoReply /\ inits > 0 /\ First # {}
  /\ vc' = [vc EXCEPT ![Min(First)].init = FALSE]
  /\ inits' = inits - 1
  /\ UNCHANGED <<linkCell, reply, line, thread, owed, bounds>>

SendLink ==
  /\ line /\ reply = NoReply /\ inits = 0 /\ linkCell
  /\ linkCell' = FALSE
  /\ UNCHANGED <<vc, inits, reply, line, thread, owed, bounds>>

(* A count that no circuit accounts for is cleared.  The channel gets a cell  *)
(* of a packet this time, if there is one, as when no OAM cell is due.        *)
ClearCount ==
  /\ line /\ reply = NoReply /\ inits > 0 /\ First = {}
  /\ inits' = 0
  /\ UNCHANGED <<vc, linkCell, reply, line, thread, owed, bounds>>

GetCell == SendReply \/ SendFirst \/ SendLink \/ ClearCount
-------------------------------------------------------------------------------
(* FrameALATMDeMUX.  The search leaves its variables on the circuit with the  *)
(* address of the cell, or on the last slot.  A cell with data is compared    *)
(* again before it is passed up; an OAM cell is not, and can be taken for one *)
(* of the circuit in the last slot.                                           *)
Of(v, a) == Context(v) /\ vc[v].addr = a
Found(a) == Min({v \in Vcs : Of(v, a)} \cup {MaxVc - 1})

(* FrameALOAMRxBuffer: one buffer for the link.  While it holds a reply, what *)
(* comes is dropped; only a good loopback cell becomes one.                   *)
RxLoopback(h) ==
  /\ line /\ loops < MaxLoop /\ loops' = loops + 1
  /\ reply = NoReply
  /\ h \in {Link} \cup {v \in Vcs : Context(v) /\ (CloseOwing \/ pc # "free" \/ v # who)}
  /\ reply' = h /\ owed' = owed + 1
  /\ UNCHANGED <<vc, inits, linkCell, line, thread, opens, lines>>
-------------------------------------------------------------------------------
(* The line (external): FrameALATMOAMLinkUp queues the link's cell.           *)
LinkUp ==
  /\ ~line /\ lines < MaxLine /\ lines' = lines + 1
  /\ line' = TRUE /\ linkCell' = TRUE
  /\ UNCHANGED <<vc, inits, reply, thread, owed, opens, loops>>

LinkDown ==
  /\ line /\ line' = FALSE
  /\ UNCHANGED <<vc, inits, linkCell, reply, thread, owed, bounds>>

Next ==
  \/ \E a \in Addresses : Open(a) \/ RxLoopback(Found(a))
  \/ RxLoopback(Link)
  \/ \E v \in Vcs : Close(v)
  \/ ThreadStep \/ GetCell \/ LinkUp \/ LinkDown

Spec == Init /\ [][Next]_vars
(* The channel asks for cells as long as the line is up; the thread that      *)
(* opens or closes a circuit is scheduled.                                    *)
LiveSpec == Spec /\ WF_vars(ThreadStep) /\ WF_vars(GetCell)
===============================================================================
