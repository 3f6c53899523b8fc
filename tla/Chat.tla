------------------------------- MODULE Chat -------------------------------
(***************************************************************************)
(* Admission, spend and stop of turns (services/chat.py, services/         *)
(* budgets.py, agent/runtime.py, agent/interrupts.py).  A turn passes the  *)
(* budgets, waits for a slot of its process, registers to be stopped, runs *)
(* until it ends, has spent what was left, or is stopped, and its spend is *)
(* added to the ledger and to its conversation.  A stop is tried where it  *)
(* is asked for and published to every process; one that finds a turn not  *)
(* yet registered is lost on it, Redis may lose it, and processes die.     *)
(*                                                                         *)
(* One budget stands for the tightest that applies, one conversation's     *)
(* turns run one at a time (Turns), and spend is counted in cents.         *)
(***************************************************************************)
EXTENDS Naturals, FiniteSets

CONSTANTS
  Turns, Convs, Procs, None,
  ConvOf,     \* the conversation of each turn
  Slots,      \* agent_max_concurrency: turns one process runs at once
  Cap,        \* max_budget_usd of a conversation
  Limit,      \* the tightest budget
  Call,       \* the most one event of a turn may cost
  Side,       \* bound on the routing and retrieval spend of a turn
  MaxStops, MaxFaults,
  MaxOther    \* bound on summaries and titles that spend meanwhile

ASSUME ConstantsAssumption ==
  /\ ConvOf \in [Turns -> Convs] /\ None \notin Procs
  /\ Slots \in Nat /\ Cap \in Nat \ {0} /\ Limit \in Nat \ {0} /\ Call \in Nat \ {0}
  /\ Side \in Nat /\ MaxStops \in Nat /\ MaxFaults \in Nat /\ MaxOther \in Nat

VARIABLES
  turn,    \* each turn: where it is, what it may spend, what it spent, whether told to stop
  free,    \* each process's semaphore
  inbox,   \* stops published and not yet delivered to each process, by conversation
  ledger,  \* usage_events, summed
  cost,    \* each conversation's own total
  told,    \* turns a stop that is not lost was asked for while they streamed (history)
  alone,   \* no turn was ever past the budgets while another was (history)
  count    \* stops, faults and other spends so far

spend == <<ledger, cost>>
stops == <<inbox, told>>
vars == <<turn, free, stops, spend, alone, count>>

Counted(kind, most) == count[kind] < most /\ count' = [count EXCEPT ![kind] = @ + 1]
Fault == Counted("faults", MaxFaults)

Live == {"waiting", "admitted", "streams", "ended", "closing"}
Holding == Live \ {"waiting"}
Open == {t \in Turns : turn[t].pc \in Live}
On(p) == {t \in Turns : turn[t].pc \in Holding /\ turn[t].proc = p}

Less(a, b) == IF a < b THEN a ELSE b
LeftOfCap(c) == Cap - cost[c]
Left(c) == Less(Cap - cost[c], Limit - ledger)

NewTurn == [pc |-> "new", proc |-> None, left |-> 0, used |-> 0, stop |-> FALSE]

Init ==
  /\ turn = [t \in Turns |-> NewTurn]
  /\ free = [p \in Procs |-> Slots]
  /\ inbox = [p \in Procs |-> {}]
  /\ ledger = 0
  /\ cost = [c \in Convs |-> 0]
  /\ told = {} /\ alone = TRUE
  /\ count = [stops |-> 0, faults |-> 0, other |-> 0]

OverTurn == [NewTurn EXCEPT !.pc = "done"]

Moved(t, pc) == turn' = [turn EXCEPT ![t].pc = pc]
Done(t) == turn' = [turn EXCEPT ![t] = OverTurn]
\* What it may spend, and whether to stop, matter to the stream alone.
Ended(t, used) ==
  turn' = [turn EXCEPT ![t] = [@ EXCEPT !.pc = "ended", !.left = 0, !.used = used,
                                        !.stop = FALSE]]
-----------------------------------------------------------------------------
(* Admission.                                                              *)

\* The turn is refused once its conversation or its budget is used up; else what is left of
\* both is what it may spend, and it waits for a slot of the process it runs on.
Allowed(c) == cost[c] < Cap /\ ledger < Limit

Ask(t, p) ==
  /\ turn[t].pc = "new"
  /\ \A s \in Open : ConvOf[s] # ConvOf[t]
  /\ IF Allowed(ConvOf[t])
     THEN /\ turn' = [turn EXCEPT ![t].pc = "waiting", ![t].proc = p,
                                  ![t].left = Left(ConvOf[t])]
          /\ alone' = (alone /\ Open = {})
     ELSE Done(t) /\ UNCHANGED alone
  /\ UNCHANGED <<free, stops, spend, count>>

HasSlot(p) == free[p] > 0

\* It has a slot.
Admit(t) ==
  /\ turn[t].pc = "waiting" /\ HasSlot(turn[t].proc)
  /\ free' = [free EXCEPT ![turn[t].proc] = @ - 1]
  /\ Moved(t, "admitted")
  /\ UNCHANGED <<stops, spend, alone, count>>

\* Its message is kept, its session and its routing are settled, and only then can it
\* be stopped: a stop that came before finds nothing to call.
Register(t) ==
  /\ turn[t].pc = "admitted"
  /\ Moved(t, "streams")
  /\ UNCHANGED <<free, stops, spend, alone, count>>

\* The wait for a slot ran out: refused as busy, or cancelled.
Busy(t) ==
  /\ turn[t].pc = "waiting"
  /\ Done(t)
  /\ UNCHANGED <<free, stops, spend, alone, count>>

Released(t) == free' = [free EXCEPT ![turn[t].proc] = @ + 1]
-----------------------------------------------------------------------------
(* The stream.                                                             *)

OverBeyond(t, used) == used > turn[t].left
Over(t, used) == used >= turn[t].left

\* An event that costs is counted, and ends the stream once nothing is left.
SpendOn(t, n) ==
  /\ turn[t].pc = "streams"
  /\ LET used == turn[t].used + n
     IN IF Over(t, used) THEN Ended(t, used) ELSE turn' = [turn EXCEPT ![t].used = used]
  /\ UNCHANGED <<free, stops, spend, alone, count>>

\* The answer is complete, the model failed or refused, the turn limit is reached, or the
\* turn is cancelled: it is recorded all the same.
StreamEnds(t) ==
  /\ turn[t].pc = "streams"
  /\ Ended(t, turn[t].used)
  /\ UNCHANGED <<free, stops, spend, alone, count>>

\* The driver was told to stop and did, or did not in time and is cancelled.
StopTakesEffect(t) == turn[t].stop /\ StreamEnds(t)

Recorded(t, aside) == turn[t].used + aside

\* The turn is recorded: what it spent, on the ledger and on its conversation, in one
\* commit that neither a disconnect nor a stop interrupts.  Routing and retrieval spent too,
\* which the stream did not watch.
Finalize(t) ==
  /\ turn[t].pc = "ended"
  /\ \E aside \in 0..Side :
       /\ ledger' = ledger + Recorded(t, aside)
       /\ cost' = [cost EXCEPT ![ConvOf[t]] = @ + Recorded(t, aside)]
  /\ turn' = [turn EXCEPT ![t].pc = "closing", ![t].used = 0]
  /\ UNCHANGED <<free, stops, alone, count>>

\* The closing events are out: the slot is released.
Close(t) ==
  /\ turn[t].pc = "closing"
  /\ Done(t)
  /\ Released(t)
  /\ UNCHANGED <<stops, spend, alone, count>>

KeepsSlot(t) == UNCHANGED free
ReleasedOnError(t) == Released(t)

\* A step of the turn raises, or its recording does: nothing of it is recorded.
Raises(t) ==
  /\ turn[t].pc \in {"admitted", "streams", "ended"}
  /\ Fault
  /\ Done(t)
  /\ ReleasedOnError(t)
  /\ UNCHANGED <<stops, spend, alone>>

\* A summary or a title is made in the background, and its cost added in one commit.
OtherSpend(c) ==
  /\ Counted("other", MaxOther)
  /\ ledger' = ledger + 1
  /\ cost' = [cost EXCEPT ![c] = @ + 1]
  /\ UNCHANGED <<turn, free, stops, alone>>
-----------------------------------------------------------------------------
(* Stops.                                                                  *)

StreamsOf(c, ps) ==
  {t \in Turns : turn[t].pc = "streams" /\ ConvOf[t] = c /\ turn[t].proc \in ps}

Interrupted(ts) == turn' = [t \in Turns |-> IF t \in ts THEN [turn[t] EXCEPT !.stop = TRUE]
                                                     ELSE turn[t]]

PublishedHere(c, p) == [inbox EXCEPT ![p] = @ \cup {c}]
Published(c, p) == [q \in Procs |-> inbox[q] \cup {c}]

\* A stop arrives at one process: tried on its own turns, then published.
Stop(c, p) ==
  /\ Counted("stops", MaxStops)
  /\ Interrupted(StreamsOf(c, {p}))
  /\ inbox' = Published(c, p)
  /\ told' = told \cup StreamsOf(c, Procs)
  /\ UNCHANGED <<free, spend, alone>>

\* The same, and Redis does not take it: only this process's own turns are told.
StopUnpublished(c, p) ==
  /\ count.stops < MaxStops /\ count.faults < MaxFaults
  /\ count' = [count EXCEPT !.stops = @ + 1, !.faults = @ + 1]
  /\ Interrupted(StreamsOf(c, {p}))
  /\ told' = told \cup StreamsOf(c, {p})
  /\ UNCHANGED <<free, inbox, spend, alone>>

\* A published stop reaches a process: whatever then streams there is told.
Deliver(p, c) ==
  /\ c \in inbox[p]
  /\ Interrupted(StreamsOf(c, {p}))
  /\ inbox' = [inbox EXCEPT ![p] = @ \ {c}]
  /\ UNCHANGED <<free, told, spend, alone, count>>

\* A process loses its subscription, and what was published meanwhile.
Unsubscribed(p) ==
  /\ inbox[p] # {} /\ Fault
  /\ inbox' = [inbox EXCEPT ![p] = {}]
  /\ told' = {t \in told : turn[t].proc = p /\ turn[t].pc = "streams" => turn[t].stop}
  /\ UNCHANGED <<turn, free, spend, alone>>

\* A process dies, with its turns, its slots and its callbacks.
Dies(p) ==
  /\ Fault
  /\ turn' = [t \in Turns |-> IF t \in Open /\ turn[t].proc = p
                              THEN OverTurn ELSE turn[t]]
  /\ free' = [free EXCEPT ![p] = Slots]
  /\ inbox' = [inbox EXCEPT ![p] = {}]
  /\ UNCHANGED <<told, spend, alone>>
-----------------------------------------------------------------------------
\* Every turn is over.
Rest == \A t \in Turns : turn[t].pc = "done"
Idle == Rest /\ UNCHANGED vars

TurnSteps(t) ==
  \/ Admit(t) \/ Register(t) \/ Busy(t) \/ StreamEnds(t) \/ Finalize(t)
  \/ Close(t) \/ Raises(t)
  \/ \E p \in Procs : Ask(t, p)
  \/ \E n \in 1..Call : SpendOn(t, n)

ProcSteps(p) ==
  \/ Unsubscribed(p) \/ Dies(p)
  \/ \E c \in Convs : Stop(c, p) \/ StopUnpublished(c, p) \/ Deliver(p, c)

Next ==
  \/ \E t \in Turns : TurnSteps(t)
  \/ \E p \in Procs : ProcSteps(p)
  \/ \E c \in Convs : OtherSpend(c)
  \/ Idle

Spec == Init /\ [][Next]_vars

\* Processes deliver what they were sent, a stopped turn is ended, by the driver or after
\* the grace, and what has ended is recorded and closed.  Nothing says that a model answers.
FairSpec ==
  /\ Spec
  /\ \A t \in Turns : WF_vars(StopTakesEffect(t)) /\ WF_vars(Finalize(t)) /\ WF_vars(Close(t))
  /\ \A p \in Procs, c \in Convs : WF_vars(Deliver(p, c))
-----------------------------------------------------------------------------
(* Properties.                                                             *)

\* Every variable has its type; a process's slots are between none and all.
TypeOK ==
  /\ turn \in [Turns -> [pc : Live \cup {"new", "done"}, proc : Procs \cup {None},
                         left : Nat, used : Nat, stop : BOOLEAN]]
  /\ free \in [Procs -> 0..Slots]
  /\ inbox \in [Procs -> SUBSET Convs]
  /\ ledger \in Nat /\ cost \in [Convs -> Nat]
  /\ told \subseteq Turns /\ alone \in BOOLEAN
  /\ count \in [stops : 0..MaxStops, faults : 0..MaxFaults, other : 0..MaxOther]

\* However a turn ends, its slot comes back, and there are never more than there are: a
\* process's free slots and the turns that hold one are all it has.
SlotsAccounted == \A p \in Procs : free[p] \in Nat /\ free[p] + Cardinality(On(p)) = Slots

\* A conversation goes over its cap by less than the last event, what its routing and
\* retrieval spent, and what was spent in the background.
CapKept == \A c \in Convs : cost[c] < Cap + Call + Side + count.other

\* So does the budget, as long as turns do not overlap; those that do all passed it with
\* the same amount left.
LimitKept == alone => ledger < Limit + Call + Side + count.other

\* The turns somebody asked to stop while they streamed are over in the end, recorded and
\* their slots released, wherever they run, unless the stop is lost.  One asked for while a
\* turn has its slot and is not registered is lost on it, and nothing is promised of it.
StopEnds == []<>(\A t \in told : turn[t].pc = "done")
=============================================================================
