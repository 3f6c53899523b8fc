----------------------------- MODULE ChatProofs -----------------------------
(***************************************************************************)
(* What is proved of Chat for any number of turns, conversations and       *)
(* processes, any slots, caps and costs: the types, that slots come back,  *)
(* and how far spend can go over a cap and over a budget.                  *)
(*                                                                         *)
(* The bounds on spend rest on what a turn that is under way may still     *)
(* add: what is left of the cap when it starts stays at most what is left  *)
(* now, but for what is spent in the background, since no other turn of    *)
(* the conversation runs meanwhile.                                        *)
(***************************************************************************)
EXTENDS Chat, FiniteSetTheorems, TLAPS

TurnType ==
  [pc : Live \cup {"new", "done"}, proc : Procs \cup {None},
   left : Nat, used : Nat, stop : BOOLEAN]

CountType == [stops : 0..MaxStops, faults : 0..MaxFaults, other : 0..MaxOther]

\* A turn under way is on a process.
Placed == \A t \in Turns : turn[t].pc \in Live => turn[t].proc \in Procs

\* The slots of a process are the free ones and the ones turns hold.
SlotsHold == \A p \in Procs :
  IsFiniteSet(On(p)) /\ free[p] \in Nat /\ free[p] + Cardinality(On(p)) = Slots

\* One turn of a conversation is under way; one turn at all while turns did not overlap.
OneOpen ==
  \A s, t \in Turns :
    turn[s].pc \in Live /\ turn[t].pc \in Live /\ (ConvOf[s] = ConvOf[t] \/ alone) => s = t

\* What a turn has spent is below what it may spend, until the event that ends it.
Spending ==
  \A t \in Turns :
    /\ turn[t].pc \in {"waiting", "admitted", "streams"} => turn[t].used < turn[t].left
    /\ turn[t].pc \notin {"streams", "ended"} => turn[t].used = 0

\* What a turn may spend, and what one that ended did, stay within the cap of its
\* conversation and, while turns did not overlap, within the budget.
WithinCap ==
  \A t \in Turns :
    /\ turn[t].pc \in {"waiting", "admitted", "streams"} =>
         cost[ConvOf[t]] + turn[t].left <= Cap + count.other
    /\ turn[t].pc = "ended" =>
         cost[ConvOf[t]] + turn[t].used < Cap + Call + count.other

WithinLimit ==
  alone => \A t \in Turns :
    /\ turn[t].pc \in {"waiting", "admitted", "streams"} =>
         ledger + turn[t].left <= Limit + count.other
    /\ turn[t].pc = "ended" =>
         ledger + turn[t].used < Limit + Call + count.other

SpendInv == Spending /\ WithinCap /\ WithinLimit /\ CapKept /\ LimitKept

-----------------------------------------------------------------------------
(* Types.                                                                  *)

\* TypeOK, in pieces the provers take.
Typed ==
  /\ turn \in [Turns -> TurnType]
  /\ free \in [Procs -> Nat]
  /\ inbox \in [Procs -> SUBSET Convs]
  /\ ledger \in Nat /\ cost \in [Convs -> Nat]
  /\ told \subseteq Turns /\ alone \in BOOLEAN
  /\ count \in CountType

LEMMA TypedInit == ASSUME Init PROVE Typed /\ Placed
BY ConstantsAssumption DEF Init, Typed, TurnType, CountType, NewTurn, Live, Placed

LEMMA LeftIs ==
  ASSUME Typed, NEW c \in Convs, Allowed(c)
  PROVE  /\ Left(c) \in Nat /\ Left(c) > 0
         /\ cost[c] + Left(c) <= Cap /\ ledger + Left(c) <= Limit
<1>1. cost[c] \in Nat /\ ledger \in Nat /\ Cap \in Nat /\ Limit \in Nat
  BY ConstantsAssumption DEF Typed
<1> QED
  BY <1>1 DEF Left, Less, Allowed

\* A step that changes one turn keeps the turns typed and placed if the new record is.
LEMMA OneTurn ==
  ASSUME Typed, Placed, NEW t \in Turns, NEW r \in TurnType, turn' = [turn EXCEPT ![t] = r],
         r.pc \in Live => r.proc \in Procs
  PROVE  turn' \in [Turns -> TurnType] /\ Placed'
BY DEF Typed, Placed

LEMMA OverIs == OverTurn \in TurnType /\ OverTurn.pc = "done" /\ OverTurn.used = 0
BY DEF OverTurn, NewTurn, TurnType, Live

LEMMA TypedStep ==
  ASSUME Typed, Placed, [Next]_vars
  PROVE  Typed' /\ Placed'
<1> USE ConstantsAssumption DEF Typed, TurnType, CountType, Live, stops, spend
<1>1. ASSUME NEW t \in Turns, NEW p \in Procs, Ask(t, p) PROVE Typed' /\ Placed'
  <2>1. CASE Allowed(ConvOf[t])
    BY <1>1, <2>1, LeftIs DEF Ask, Placed
  <2>2. CASE ~Allowed(ConvOf[t])
    <3>1. turn' = [turn EXCEPT ![t] = OverTurn]
      BY <1>1, <2>2 DEF Ask, Done
    <3>2. turn' \in [Turns -> TurnType] /\ Placed'
      BY <3>1, OverIs, OneTurn DEF Live
    <3> QED BY <1>1, <2>2, <3>2 DEF Ask
  <2> QED BY <2>1, <2>2
<1>2. ASSUME NEW t \in Turns, Admit(t) \/ Register(t) PROVE Typed' /\ Placed'
  <2>1. turn[t].proc \in Procs
    BY <1>2 DEF Admit, Register, Placed
  <2>2. CASE Admit(t)
    BY <2>1, <2>2 DEF Admit, HasSlot, Moved, Placed
  <2>3. CASE Register(t)
    BY <2>1, <2>3 DEF Register, Moved, Placed
  <2> QED BY <1>2, <2>2, <2>3
<1>3. ASSUME NEW t \in Turns, Busy(t) \/ Close(t) \/ Raises(t) PROVE Typed' /\ Placed'
  <2>1. turn[t].proc \in Procs
    BY <1>3 DEF Busy, Close, Raises, Placed
  <2>2. turn' = [turn EXCEPT ![t] = OverTurn] /\ OverTurn \in TurnType
    BY <1>3 DEF Busy, Close, Raises, Done, OverTurn, NewTurn
  <2>3. count' \in CountType
    BY <1>3 DEF Busy, Close, Raises, Fault, Counted, CountType
  <2>4. free' \in [Procs -> Nat]
    BY <1>3, <2>1 DEF Busy, Close, Raises, Released, ReleasedOnError
  <2> QED BY <1>3, <2>2, <2>3, <2>4 DEF Busy, Close, Raises, OverTurn, NewTurn, Placed
<1>4. ASSUME NEW t \in Turns, StreamEnds(t) \/ \E n \in 1..Call : SpendOn(t, n) PROVE Typed' /\ Placed'
  <2>1. turn[t].proc \in Procs /\ turn[t] \in TurnType
    BY <1>4 DEF StreamEnds, SpendOn, Placed
  <2> DEFINE Stopped(u) == [turn[t] EXCEPT !.pc = "ended", !.left = 0, !.used = u, !.stop = FALSE]
             Spent(u) == [turn[t] EXCEPT !.used = u]
  <2>2. ASSUME NEW u \in Nat
        PROVE  /\ Stopped(u) \in TurnType /\ Stopped(u).proc \in Procs
               /\ Spent(u) \in TurnType /\ Spent(u).proc \in Procs
    BY <2>1
  <2>3. \E u \in Nat : turn' = [turn EXCEPT ![t] = Stopped(u)] \/ turn' = [turn EXCEPT ![t] = Spent(u)]
    <3>1. CASE StreamEnds(t)
      BY <3>1, <2>1 DEF StreamEnds, Ended
    <3>2. CASE \E n \in 1..Call : SpendOn(t, n)
      <4>1. PICK n \in 1..Call : SpendOn(t, n)
        BY <3>2
      <4>2. turn[t].used + n \in Nat
        BY <2>1
      <4>3. \/ turn' = [turn EXCEPT ![t] = Stopped(turn[t].used + n)]
            \/ turn' = [turn EXCEPT ![t] = Spent(turn[t].used + n)]
        BY <4>1 DEF SpendOn, Ended
      <4> HIDE DEF Stopped, Spent
      <4> QED BY <4>2, <4>3
    <3> QED BY <1>4, <3>1, <3>2
  <2>4. turn' \in [Turns -> TurnType] /\ Placed'
    <3> HIDE DEF Stopped, Spent
    <3> QED BY <2>2, <2>3, OneTurn
  <2> QED BY <1>4, <2>4 DEF StreamEnds, SpendOn
<1>5. ASSUME NEW t \in Turns, Finalize(t) PROVE Typed' /\ Placed'
  <2>1. PICK aside \in 0..Side : ledger' = ledger + Recorded(t, aside)
               /\ cost' = [cost EXCEPT ![ConvOf[t]] = @ + Recorded(t, aside)]
    BY <1>5 DEF Finalize
  <2>2. Recorded(t, aside) \in Nat
    BY DEF Recorded
  <2>3. turn' \in [Turns -> TurnType] /\ Placed'
    <3>1. turn[t] \in TurnType /\ turn[t].proc \in Procs
      BY <1>5 DEF Finalize, Placed
    <3>2. turn' = [turn EXCEPT ![t] = [turn[t] EXCEPT !.pc = "closing", !.used = 0]]
      BY <1>5 DEF Finalize
    <3>3. [turn[t] EXCEPT !.pc = "closing", !.used = 0] \in TurnType
      BY <3>1
    <3> QED BY <3>1, <3>2, <3>3, OneTurn
  <2> QED BY <1>5, <2>1, <2>2, <2>3 DEF Finalize
<1>6. ASSUME NEW c \in Convs, OtherSpend(c) PROVE Typed' /\ Placed'
  BY <1>6 DEF OtherSpend, Counted, CountType, Placed
<1>7. ASSUME NEW p \in Procs, NEW c \in Convs, Stop(c, p) \/ StopUnpublished(c, p) \/ Deliver(p, c)
      PROVE Typed' /\ Placed'
  <2>1. turn' \in [Turns -> TurnType] /\ Placed'
    <3>1. PICK ts : turn' = [t \in Turns |-> IF t \in ts THEN [turn[t] EXCEPT !.stop = TRUE]
                                                       ELSE turn[t]]
      BY <1>7 DEF Stop, StopUnpublished, Deliver, Interrupted
    <3>2. ASSUME NEW t \in Turns
          PROVE  /\ turn'[t] \in TurnType
                 /\ turn'[t].pc = turn[t].pc /\ turn'[t].proc = turn[t].proc
      <4>1. turn[t] \in TurnType
        OBVIOUS
      <4>2. turn'[t] = [turn[t] EXCEPT !.stop = TRUE] \/ turn'[t] = turn[t]
        BY <3>1
      <4> QED BY <4>1, <4>2
    <3>3. turn' \in [Turns -> TurnType]
      <4> HIDE DEF TurnType
      <4> QED BY <3>1, <3>2
    <3> QED BY <3>2, <3>3 DEF Placed
  <2>2. count' \in CountType
    <3>1. CASE Stop(c, p) \/ Deliver(p, c)
      BY <3>1 DEF Stop, Deliver, Counted
    <3>2. CASE StopUnpublished(c, p)
      <4>1. count.stops + 1 \in 0..MaxStops /\ count.faults + 1 \in 0..MaxFaults
        BY <3>2 DEF StopUnpublished
      <4>2. count' = [count EXCEPT !.stops = count.stops + 1, !.faults = count.faults + 1]
        BY <3>2 DEF StopUnpublished
      <4> QED BY <4>1, <4>2
    <3> QED BY <1>7, <3>1, <3>2
  <2>3. inbox' \in [Procs -> SUBSET Convs]
    BY <1>7 DEF Stop, StopUnpublished, Deliver, Published
  <2>4. told' \subseteq Turns
    BY <1>7 DEF Stop, StopUnpublished, Deliver, StreamsOf
  <2> QED BY <1>7, <2>1, <2>2, <2>3, <2>4 DEF Stop, StopUnpublished, Deliver
<1>8. ASSUME NEW p \in Procs, Unsubscribed(p) PROVE Typed' /\ Placed'
  BY <1>8 DEF Unsubscribed, Fault, Counted, CountType, Placed
<1>9. ASSUME NEW p \in Procs, Dies(p) PROVE Typed' /\ Placed'
  <2>1. turn' \in [Turns -> TurnType] /\ Placed'
    BY <1>9, OverIs DEF Dies, Placed
  <2> QED BY <1>9, <2>1 DEF Dies, Fault, Counted
<1>10. CASE UNCHANGED vars
  BY <1>10 DEF vars, stops, spend, Placed
<1> QED
  BY <1>1, <1>2, <1>3, <1>4, <1>5, <1>6, <1>7, <1>8, <1>9, <1>10
  DEF Next, TurnSteps, ProcSteps, Idle

THEOREM TypesAlways == Spec => [](Typed /\ Placed)
<1>1. Init => Typed /\ Placed
  BY TypedInit
<1>2. Typed /\ Placed /\ [Next]_vars => (Typed /\ Placed)'
  BY TypedStep
<1> QED BY <1>1, <1>2, PTL DEF Spec

-----------------------------------------------------------------------------
(* Slots.                                                                  *)

LEMMA SlotsInit == ASSUME Init PROVE SlotsHold
<1>1. ASSUME NEW p \in Procs PROVE On(p) = {} /\ free[p] = Slots
  BY <1>1 DEF Init, On, Holding, Live, NewTurn
<1> QED BY <1>1, FS_EmptySet, ConstantsAssumption DEF SlotsHold

\* The slots add up if no turn takes or gives one back.
LEMMA SameSlots ==
  ASSUME SlotsHold, free' = free,
         \A t \in Turns :
           /\ turn'[t].pc \in Holding <=> turn[t].pc \in Holding
           /\ turn[t].pc \in Holding => turn'[t].proc = turn[t].proc
  PROVE  SlotsHold'
<1>1. ASSUME NEW p \in Procs PROVE On(p)' = On(p)
  BY DEF On, Holding
<1> QED BY <1>1 DEF SlotsHold

LEMMA SlotTaken ==
  ASSUME Typed, Placed, SlotsHold, NEW t \in Turns, Admit(t), NEW q \in Procs, q = turn[t].proc
  PROVE  SlotsHold'
<1>1. free[q] > 0 /\ free' = [free EXCEPT ![q] = free[q] - 1]
  BY DEF Admit, HasSlot
<1>2. ASSUME NEW s \in Turns
      PROVE  /\ turn'[s].proc = turn[s].proc
             /\ turn'[s].pc = IF s = t THEN "admitted" ELSE turn[s].pc
  BY DEF Admit, Moved, Typed, TurnType
<1>3. On(q)' = On(q) \cup {t} /\ t \notin On(q)
  <2>1. turn'[t].pc = "admitted" /\ turn'[t].proc = q /\ turn[t].pc = "waiting"
    BY <1>2 DEF Admit
  <2>2. ASSUME NEW s \in Turns PROVE s \in On(q)' <=> s \in On(q) \/ s = t
    BY <1>2, <2>1 DEF On, Holding, Live
  <2>3. On(q)' \subseteq Turns /\ On(q) \subseteq Turns /\ t \notin On(q)
    BY <2>1 DEF On, Holding
  <2> QED BY <2>2, <2>3
<1>4. ASSUME NEW p \in Procs, p # q PROVE On(p)' = On(p)
  BY <1>2, <1>4 DEF Admit, On, Holding, Live
<1>5. IsFiniteSet(On(q)') /\ Cardinality(On(q)') = Cardinality(On(q)) + 1
  <2>1. IsFiniteSet(On(q))
    BY DEF SlotsHold
  <2> QED BY <1>3, <2>1, FS_AddElement
<1>6. ASSUME NEW p \in Procs
      PROVE  IsFiniteSet(On(p)') /\ free'[p] \in Nat /\ free'[p] + Cardinality(On(p)') = Slots
  <2>1. IsFiniteSet(On(p)) /\ free[p] \in Nat /\ free[p] + Cardinality(On(p)) = Slots
        /\ Cardinality(On(p)) \in Nat
    BY FS_CardinalityType DEF SlotsHold
  <2>2. CASE p = q
    <3>1. free'[q] = free[q] - 1 /\ free'[q] \in Nat
      BY <1>1, <2>1, <2>2 DEF Typed
    <3> QED BY <3>1, <1>5, <2>1, <2>2
  <2>3. CASE p # q
    BY <1>1, <1>4, <2>1, <2>3 DEF Typed
  <2> QED BY <2>2, <2>3
<1> QED BY <1>6 DEF SlotsHold

LEMMA SlotGivenBack ==
  ASSUME Typed, Placed, SlotsHold, NEW t \in Turns, turn[t].pc \in Holding, Done(t), Released(t),
         NEW q \in Procs, q = turn[t].proc
  PROVE  SlotsHold'
<1>1. free' = [free EXCEPT ![q] = free[q] + 1]
  BY DEF Released
<1>2. ASSUME NEW s \in Turns PROVE turn'[s] = IF s = t THEN OverTurn ELSE turn[s]
  BY DEF Done, Typed
<1>3. On(q)' = On(q) \ {t} /\ t \in On(q)
  <2>1. turn'[t].pc = "done" /\ t \in On(q)
    BY <1>2, OverIs DEF On
  <2>2. ASSUME NEW s \in Turns PROVE s \in On(q)' <=> s \in On(q) /\ s # t
    BY <1>2, <2>1 DEF On, Holding, Live
  <2>3. On(q)' \subseteq Turns /\ On(q) \subseteq Turns
    BY DEF On
  <2> QED BY <2>1, <2>2, <2>3
<1>4. ASSUME NEW p \in Procs, p # q PROVE On(p)' = On(p)
  BY <1>2, <1>4, OverIs DEF On, Holding, Live
<1>5. IsFiniteSet(On(q)') /\ Cardinality(On(q)') = Cardinality(On(q)) - 1
  <2>1. IsFiniteSet(On(q))
    BY DEF SlotsHold
  <2> QED BY <1>3, <2>1, FS_RemoveElement
<1>6. ASSUME NEW p \in Procs
      PROVE  IsFiniteSet(On(p)') /\ free'[p] \in Nat /\ free'[p] + Cardinality(On(p)') = Slots
  <2>1. IsFiniteSet(On(p)) /\ free[p] \in Nat /\ free[p] + Cardinality(On(p)) = Slots
        /\ Cardinality(On(p)) \in Nat
    BY FS_CardinalityType DEF SlotsHold
  <2>2. CASE p = q
    <3>1. free'[q] = free[q] + 1 /\ free'[q] \in Nat
      BY <1>1, <2>1, <2>2 DEF Typed
    <3> QED BY <3>1, <1>5, <2>1, <2>2
  <2>3. CASE p # q
    BY <1>1, <1>4, <2>1, <2>3 DEF Typed
  <2> QED BY <2>2, <2>3
<1> QED BY <1>6 DEF SlotsHold

LEMMA SlotsOfTheDead ==
  ASSUME Typed, SlotsHold, NEW q \in Procs, Dies(q)
  PROVE  SlotsHold'
<1>1. ASSUME NEW s \in Turns
      PROVE  turn'[s] = IF s \in Open /\ turn[s].proc = q THEN OverTurn ELSE turn[s]
  BY DEF Dies
<1>2. On(q)' = {}
  BY <1>1, OverIs DEF On, Open, Holding, Live
<1>3. ASSUME NEW p \in Procs, p # q PROVE On(p)' = On(p)
  BY <1>1, <1>3, OverIs DEF On, Open, Holding, Live
<1>4. free' = [free EXCEPT ![q] = Slots]
  BY DEF Dies
<1>5. ASSUME NEW p \in Procs
      PROVE  IsFiniteSet(On(p)') /\ free'[p] \in Nat /\ free'[p] + Cardinality(On(p)') = Slots
  <2>1. CASE p = q
    <3>1. free'[q] = Slots
      BY <1>4 DEF Typed
    <3>2. IsFiniteSet(On(q)') /\ Cardinality(On(q)') = 0
      BY <1>2, FS_EmptySet
    <3> QED BY <2>1, <3>1, <3>2, ConstantsAssumption
  <2>2. CASE p # q
    BY <1>3, <1>4, <2>2 DEF Typed, SlotsHold
  <2> QED BY <2>1, <2>2
<1> QED BY <1>5 DEF SlotsHold

\* A stop tells turns, and moves none.
LEMMA Telling ==
  ASSUME NEW ts, Interrupted(ts), NEW t \in Turns, Typed
  PROVE  /\ turn'[t].pc = turn[t].pc /\ turn'[t].proc = turn[t].proc
         /\ turn'[t].left = turn[t].left /\ turn'[t].used = turn[t].used
BY DEF Interrupted, Typed, TurnType

LEMMA SlotsStep ==
  ASSUME Typed, Placed, SlotsHold, [Next]_vars
  PROVE  SlotsHold'
<1>1. ASSUME NEW t \in Turns, NEW p \in Procs, Ask(t, p) PROVE SlotsHold'
  BY <1>1, SameSlots, OverIs DEF Ask, Done, Typed, TurnType, Holding, Live
<1>2. ASSUME NEW t \in Turns, Admit(t) PROVE SlotsHold'
  <2>1. turn[t].proc \in Procs
    BY <1>2 DEF Admit, Placed, Live
  <2> QED BY <1>2, <2>1, SlotTaken
<1>3. ASSUME NEW t \in Turns, Busy(t) PROVE SlotsHold'
  BY <1>3, SameSlots, OverIs DEF Busy, Done, Typed, Holding, Live
<1>4. ASSUME NEW t \in Turns, Close(t) \/ Raises(t) PROVE SlotsHold'
  <2>1. turn[t].pc \in Holding /\ turn[t].proc \in Procs
    BY <1>4 DEF Close, Raises, Placed, Holding, Live
  <2> QED BY <1>4, <2>1, SlotGivenBack DEF Close, Raises, ReleasedOnError
<1>5. ASSUME NEW t \in Turns, Register(t) \/ StreamEnds(t) \/ Finalize(t) PROVE SlotsHold'
  <2>1. ASSUME NEW s \in Turns
        PROVE  /\ turn'[s].pc \in Holding <=> turn[s].pc \in Holding
               /\ turn'[s].proc = turn[s].proc
    <3>1. turn[t] \in TurnType /\ turn[s] \in TurnType
      BY DEF Typed
    <3>2. s # t => turn'[s] = turn[s]
      BY <1>5 DEF Register, Moved, StreamEnds, Finalize, Ended, Typed
    <3>3. /\ turn[t].pc \in {"admitted", "streams", "ended"}
          /\ turn'[t].pc \in {"streams", "ended", "closing"}
          /\ turn'[t].proc = turn[t].proc
      <4>1. CASE StreamEnds(t)
        <5>1. turn'[t] = [turn[t] EXCEPT !.pc = "ended", !.left = 0, !.used = turn[t].used,
                                         !.stop = FALSE]
          BY <4>1, <3>1 DEF StreamEnds, Ended, Typed
        <5> QED BY <4>1, <3>1, <5>1 DEF StreamEnds, TurnType
      <4>2. CASE Finalize(t)
        BY <4>2, <3>1 DEF Finalize, Typed, TurnType
      <4>3. CASE Register(t)
        BY <4>3, <3>1 DEF Register, Moved, Typed, TurnType
      <4> QED BY <1>5, <4>1, <4>2, <4>3
    <3> QED BY <3>2, <3>3 DEF Holding, Live
  <2> QED BY <1>5, <2>1, SameSlots DEF Register, StreamEnds, Finalize
<1>6. ASSUME NEW t \in Turns, NEW n \in 1..Call, SpendOn(t, n) PROVE SlotsHold'
  <2>1. ASSUME NEW s \in Turns
        PROVE  /\ turn'[s].pc \in Holding <=> turn[s].pc \in Holding
               /\ turn'[s].proc = turn[s].proc
    <3>1. turn[t] \in TurnType /\ turn[s] \in TurnType
      BY DEF Typed
    <3>2. s # t => turn'[s] = turn[s]
      BY <1>6 DEF SpendOn, Ended, Typed
    <3>3. /\ turn[t].pc = "streams" /\ turn'[t].pc \in {"streams", "ended"}
          /\ turn'[t].proc = turn[t].proc
      <4>1. CASE Over(t, turn[t].used + n)
        <5>1. turn'[t] = [turn[t] EXCEPT !.pc = "ended", !.left = 0,
                                         !.used = turn[t].used + n, !.stop = FALSE]
          BY <1>6, <4>1 DEF SpendOn, Ended, Typed
        <5> QED BY <1>6, <3>1, <5>1 DEF SpendOn, TurnType
      <4>2. CASE ~Over(t, turn[t].used + n)
        BY <1>6, <3>1, <4>2 DEF SpendOn, Typed, TurnType
      <4> QED BY <4>1, <4>2
    <3> QED BY <3>2, <3>3 DEF Holding, Live
  <2> QED BY <1>6, <2>1, SameSlots DEF SpendOn
<1>7. ASSUME NEW p \in Procs, NEW c \in Convs, Stop(c, p) \/ StopUnpublished(c, p) \/ Deliver(p, c)
      PROVE SlotsHold'
  BY <1>7, SameSlots, Telling DEF Stop, StopUnpublished, Deliver
<1>8. ASSUME NEW p \in Procs, Dies(p) PROVE SlotsHold'
  BY <1>8, SlotsOfTheDead
<1>9. ASSUME UNCHANGED <<turn, free>> PROVE SlotsHold'
  BY <1>9, SameSlots
<1>10. CASE UNCHANGED vars \/ (\E p \in Procs : Unsubscribed(p)) \/ (\E c \in Convs : OtherSpend(c))
  BY <1>9, <1>10 DEF vars, Unsubscribed, OtherSpend
<1> QED
  BY <1>1, <1>2, <1>3, <1>4, <1>5, <1>6, <1>7, <1>8, <1>10
  DEF Next, TurnSteps, ProcSteps, Idle

THEOREM SlotsAlways == Spec => []SlotsHold
<1>1. Init => SlotsHold
  BY SlotsInit
<1>2. Typed /\ Placed /\ SlotsHold /\ [Next]_vars => SlotsHold'
  BY SlotsStep
<1> QED BY <1>1, <1>2, TypesAlways, PTL DEF Spec

\* However a turn ends, its slot comes back, and there are never more than there are, for
\* any number of processes and slots.
THEOREM SlotsComeBack == Spec => []SlotsAccounted
<1>1. SlotsHold => SlotsAccounted
  BY DEF SlotsHold, SlotsAccounted
<1> QED BY <1>1, SlotsAlways, PTL

\* Every variable has its type, for any number of turns, conversations and processes; the
\* semaphore of a process never holds more than it began with.
THEOREM TypeCorrect == Spec => []TypeOK
<1>1. Typed /\ SlotsHold => TypeOK
  <2>1. ASSUME Typed, SlotsHold, NEW p \in Procs PROVE free[p] \in 0..Slots
    <3>1. free[p] \in Nat /\ Cardinality(On(p)) \in Nat /\ free[p] + Cardinality(On(p)) = Slots
      BY <2>1, FS_CardinalityType DEF SlotsHold
    <3> QED BY <3>1, ConstantsAssumption
  <2> QED BY <2>1 DEF Typed, TypeOK, TurnType, CountType
<1> QED BY <1>1, SlotsAlways, TypesAlways, PTL

-----------------------------------------------------------------------------
(* Spend.                                                                  *)

LEMMA SpendInit == ASSUME Init PROVE OneOpen /\ SpendInv
<1>1. \A t \in Turns : turn[t] = NewTurn
  BY DEF Init
<1>2. \A c \in Convs : cost[c] = 0
  BY DEF Init
<1>3. ledger = 0 /\ count.other = 0
  BY DEF Init
<1> USE ConstantsAssumption
<1>4. OneOpen /\ Spending /\ WithinCap /\ WithinLimit
  BY <1>1 DEF OneOpen, Spending, WithinCap, WithinLimit, NewTurn, Live
<1>5. CapKept /\ LimitKept
  BY <1>2, <1>3 DEF CapKept, LimitKept
<1> QED BY <1>4, <1>5 DEF SpendInv

\* Only a turn that begins can break that one is under way.
LEMMA OneOpenStep ==
  ASSUME Typed, Placed, OneOpen, [Next]_vars
  PROVE  OneOpen'
<1>1. ASSUME NEW t \in Turns, NEW p \in Procs, Ask(t, p) PROVE OneOpen'
  <2>1. CASE Allowed(ConvOf[t])
    <3>1. ASSUME NEW s \in Turns PROVE s # t => turn'[s] = turn[s]
      BY <1>1, <2>1 DEF Ask, Typed
    <3>2. alone' = (alone /\ Open = {}) /\ \A s \in Open : ConvOf[s] # ConvOf[t]
      BY <1>1, <2>1 DEF Ask
    <3> QED BY <3>1, <3>2 DEF OneOpen, Open
  <2>2. CASE ~Allowed(ConvOf[t])
    BY <1>1, <2>2, OverIs DEF Ask, Done, Typed, OneOpen, Live
  <2> QED BY <2>1, <2>2
<1>2. ASSUME alone' = alone, \A t \in Turns : turn'[t].pc \in Live => turn[t].pc \in Live
      PROVE  OneOpen'
  BY <1>2 DEF OneOpen
<1>3. ASSUME NEW t \in Turns, Busy(t) \/ Close(t) \/ Raises(t) PROVE OneOpen'
  BY <1>2, <1>3, OverIs DEF Busy, Close, Raises, Done, Typed, Live
<1>4. ASSUME NEW t \in Turns, Admit(t) \/ Register(t) \/ StreamEnds(t) \/ Finalize(t)
      PROVE OneOpen'
  BY <1>2, <1>4 DEF Admit, Register, StreamEnds, Finalize, Moved, Ended, Typed, TurnType, Live
<1>5. ASSUME NEW t \in Turns, NEW n \in 1..Call, SpendOn(t, n) PROVE OneOpen'
  BY <1>2, <1>5 DEF SpendOn, Ended, Typed, TurnType, Live
<1>6. ASSUME NEW p \in Procs, NEW c \in Convs, Stop(c, p) \/ StopUnpublished(c, p) \/ Deliver(p, c)
      PROVE OneOpen'
  BY <1>2, <1>6, Telling DEF Stop, StopUnpublished, Deliver
<1>7. ASSUME NEW p \in Procs, Dies(p) PROVE OneOpen'
  BY <1>2, <1>7, OverIs DEF Dies, Live
<1>8. CASE UNCHANGED vars \/ (\E p \in Procs : Unsubscribed(p)) \/ (\E c \in Convs : OtherSpend(c))
  BY <1>2, <1>8 DEF vars, Unsubscribed, OtherSpend
<1> QED
  BY <1>1, <1>3, <1>4, <1>5, <1>6, <1>7, <1>8
  DEF Next, TurnSteps, ProcSteps, Idle

\* The bounds hold on if what is spent stays and each turn either may spend and spent what
\* it did, or is over.
LEMMA SpendKept ==
  ASSUME SpendInv, spend' = spend, alone' = alone, count'.other = count.other,
         \A t \in Turns :
           \/ turn'[t].pc \notin {"waiting", "admitted", "streams", "ended"} /\ turn'[t].used = 0
           \/ /\ turn'[t].pc = turn[t].pc
              /\ turn'[t].left = turn[t].left /\ turn'[t].used = turn[t].used
  PROVE  SpendInv'
<1>1. cost' = cost /\ ledger' = ledger
  BY DEF spend
<1>2. Spending'
  BY DEF SpendInv, Spending
<1>3. WithinCap'
  BY <1>1 DEF SpendInv, WithinCap
<1>4. WithinLimit'
  BY <1>1 DEF SpendInv, WithinLimit
<1>5. CapKept' /\ LimitKept'
  BY <1>1 DEF SpendInv, CapKept, LimitKept
<1> QED BY <1>2, <1>3, <1>4, <1>5 DEF SpendInv

LEMMA SpendMaySpend ==
  ASSUME Typed, SpendInv, OneOpen, NEW t \in Turns, NEW p \in Procs, Ask(t, p),
         Allowed(ConvOf[t])
  PROVE  SpendInv'
<1> DEFINE c == ConvOf[t]
<1>1. /\ turn[t].pc = "new" /\ turn[t] \in TurnType
      /\ turn' = [turn EXCEPT ![t].pc = "waiting", ![t].proc = p, ![t].left = Left(c)]
      /\ cost' = cost /\ ledger' = ledger /\ count' = count
      /\ alone' = (alone /\ Open = {})
  BY DEF Ask, spend, Typed
<1>2. /\ turn'[t].pc = "waiting" /\ turn'[t].left = Left(c) /\ turn'[t].used = turn[t].used
      /\ \A s \in Turns : s # t => turn'[s] = turn[s]
  BY <1>1 DEF Typed, TurnType
<1>3. c \in Convs /\ Left(c) \in Nat /\ Left(c) > 0
      /\ cost[c] + Left(c) <= Cap /\ ledger + Left(c) <= Limit
  BY LeftIs, ConstantsAssumption
<1>4. count.other \in Nat /\ Cap \in Nat /\ Limit \in Nat /\ ledger \in Nat /\ cost[c] \in Nat
  BY <1>3, ConstantsAssumption DEF Typed, CountType
<1> HIDE DEF c
<1>5. turn[t].used = 0
  BY <1>1 DEF SpendInv, Spending
<1>6. Spending'
  BY <1>2, <1>3, <1>5 DEF SpendInv, Spending
<1>7. WithinCap'
  <2>1. cost'[ConvOf[t]] + turn'[t].left <= Cap + count'.other
    BY <1>1, <1>2, <1>3, <1>4 DEF c
  <2> QED BY <1>1, <1>2, <2>1 DEF SpendInv, WithinCap
<1>8. WithinLimit'
  <2>1. ASSUME Open = {}, NEW s \in Turns PROVE turn[s].pc \notin {"waiting", "admitted", "streams", "ended"}
    BY <2>1 DEF Open, Live
  <2>2. ledger' + turn'[t].left <= Limit + count'.other
    BY <1>1, <1>2, <1>3, <1>4
  <2> QED BY <1>1, <1>2, <2>1, <2>2 DEF WithinLimit
<1>9. CapKept' /\ LimitKept'
  BY <1>1 DEF SpendInv, CapKept, LimitKept
<1> QED BY <1>6, <1>7, <1>8, <1>9 DEF SpendInv

\* The event that ends a turn takes it over what was left by less than its own cost.
LEMMA SpendEnds ==
  ASSUME Typed, SpendInv, NEW t \in Turns, turn[t].pc = "streams",
         NEW n \in 0..Call, n = 0 \/ Over(t, turn[t].used + n), Ended(t, turn[t].used + n),
         spend' = spend, alone' = alone, count' = count
  PROVE  SpendInv'
<1> DEFINE c == ConvOf[t]
           used == turn[t].used + n
<1>1. cost' = cost /\ ledger' = ledger /\ turn[t] \in TurnType /\ c \in Convs
  BY ConstantsAssumption DEF spend, Typed
<1>2. /\ turn'[t].pc = "ended" /\ turn'[t].used = used
      /\ \A s \in Turns : s # t => turn'[s] = turn[s]
  BY <1>1 DEF Ended, Typed, TurnType
<1>3. /\ turn[t].used < turn[t].left
      /\ cost[c] + turn[t].left <= Cap + count.other
      /\ alone => ledger + turn[t].left <= Limit + count.other
  BY DEF SpendInv, Spending, WithinCap, WithinLimit
<1>4. /\ turn[t].used \in Nat /\ turn[t].left \in Nat /\ count.other \in Nat /\ cost[c] \in Nat
      /\ ledger \in Nat /\ Cap \in Nat /\ Limit \in Nat /\ Call \in Nat
  BY <1>1, ConstantsAssumption DEF Typed, TurnType, CountType
<1>5. used \in Nat /\ used < turn[t].left + Call
  BY <1>3, <1>4
<1>6. cost[c] + used < Cap + Call + count.other
  BY <1>3, <1>4, <1>5
<1>7. alone => ledger + used < Limit + Call + count.other
  BY <1>3, <1>4, <1>5
<1> HIDE DEF used
<1>8. Spending'
  BY <1>2 DEF SpendInv, Spending
<1>9. WithinCap'
  BY <1>1, <1>2, <1>6 DEF SpendInv, WithinCap
<1>10. WithinLimit'
  BY <1>1, <1>2, <1>7 DEF SpendInv, WithinLimit
<1>11. CapKept' /\ LimitKept'
  BY <1>1 DEF SpendInv, CapKept, LimitKept
<1> QED BY <1>8, <1>9, <1>10, <1>11 DEF SpendInv

\* Recording a turn adds what it spent where no other turn counted on it.
LEMMA SpendRecorded ==
  ASSUME Typed, SpendInv, OneOpen, NEW t \in Turns, Finalize(t)
  PROVE  SpendInv'
<1> DEFINE c == ConvOf[t]
<1>1. PICK aside \in 0..Side :
        /\ ledger' = ledger + (turn[t].used + aside)
        /\ cost' = [cost EXCEPT ![c] = cost[c] + (turn[t].used + aside)]
  BY DEF Finalize, Recorded
<1>2. /\ turn[t].pc = "ended" /\ turn[t] \in TurnType /\ c \in Convs
      /\ alone' = alone /\ count' = count
  BY ConstantsAssumption DEF Finalize, Typed
<1>3. /\ turn'[t].pc = "closing" /\ turn'[t].used = 0
      /\ \A s \in Turns : s # t => turn'[s] = turn[s]
  BY <1>2 DEF Finalize, Typed, TurnType
<1>4. /\ cost[c] + turn[t].used < Cap + Call + count.other
      /\ alone => ledger + turn[t].used < Limit + Call + count.other
  BY <1>2 DEF SpendInv, WithinCap, WithinLimit
<1>5. /\ turn[t].used \in Nat /\ count.other \in Nat /\ ledger \in Nat /\ cost[c] \in Nat
      /\ Cap \in Nat /\ Limit \in Nat /\ Call \in Nat /\ Side \in Nat
  BY <1>2, ConstantsAssumption DEF Typed, TurnType, CountType
<1>6. cost'[c] < Cap + Call + Side + count.other
  <2>1. cost'[c] = cost[c] + (turn[t].used + aside)
    BY <1>1, <1>2 DEF Typed
  <2> QED BY <1>4, <1>5, <2>1
<1>7. alone => ledger' < Limit + Call + Side + count.other
  BY <1>1, <1>4, <1>5
<1>8. \A d \in Convs : d # c => cost'[d] = cost[d]
  BY <1>1 DEF Typed
<1>9. ASSUME NEW s \in Turns, s # t, turn[s].pc \in {"waiting", "admitted", "streams", "ended"}
      PROVE  ConvOf[s] # c /\ ~alone
  BY <1>2, <1>9 DEF OneOpen, Live
<1> HIDE DEF c
<1>10. Spending'
  BY <1>3 DEF SpendInv, Spending
<1>11. WithinCap'
  <2>1. \A s \in Turns : ConvOf[s] \in Convs
    BY ConstantsAssumption
  <2> QED BY <1>2, <1>3, <1>8, <1>9, <2>1 DEF SpendInv, WithinCap
<1>12. WithinLimit'
  BY <1>2, <1>3, <1>9 DEF WithinLimit
<1>13. CapKept'
  BY <1>2, <1>6, <1>8 DEF SpendInv, CapKept
<1>14. LimitKept'
  BY <1>2, <1>7 DEF LimitKept
<1> QED BY <1>10, <1>11, <1>12, <1>13, <1>14 DEF SpendInv

\* What is spent in the background is counted on both sides.
LEMMA SpendAside ==
  ASSUME Typed, SpendInv, NEW c \in Convs, OtherSpend(c)
  PROVE  SpendInv'
<1>1. /\ ledger' = ledger + 1 /\ turn' = turn /\ alone' = alone
      /\ count'.other = count.other + 1
      /\ \A d \in Convs : cost'[d] = IF d = c THEN cost[d] + 1 ELSE cost[d]
  BY DEF OtherSpend, Counted, Typed, CountType
<1>2. /\ ledger \in Nat /\ count.other \in Nat /\ Cap \in Nat /\ Limit \in Nat
      /\ Call \in Nat /\ Side \in Nat
      /\ \A d \in Convs : cost[d] \in Nat
  BY ConstantsAssumption DEF Typed, CountType
<1>3. \A t \in Turns : turn[t].left \in Nat /\ turn[t].used \in Nat /\ ConvOf[t] \in Convs
  BY ConstantsAssumption DEF Typed, TurnType
<1>4. Spending'
  BY <1>1 DEF SpendInv, Spending
<1>5. WithinCap'
  <2>1. ASSUME NEW t \in Turns, turn[t].pc \in {"waiting", "admitted", "streams"}
        PROVE  cost'[ConvOf[t]] + turn[t].left <= Cap + count'.other
    <3>1. cost[ConvOf[t]] + turn[t].left <= Cap + count.other
      BY <2>1 DEF SpendInv, WithinCap
    <3> QED BY <1>1, <1>2, <1>3, <3>1
  <2>2. ASSUME NEW t \in Turns, turn[t].pc = "ended"
        PROVE  cost'[ConvOf[t]] + turn[t].used < Cap + Call + count'.other
    <3>1. cost[ConvOf[t]] + turn[t].used < Cap + Call + count.other
      BY <2>2 DEF SpendInv, WithinCap
    <3> QED BY <1>1, <1>2, <1>3, <3>1
  <2> QED BY <1>1, <2>1, <2>2 DEF WithinCap
<1>6. WithinLimit'
  BY <1>1, <1>2, <1>3 DEF SpendInv, WithinLimit
<1>7. CapKept'
  BY <1>1, <1>2 DEF SpendInv, CapKept
<1>8. LimitKept'
  BY <1>1, <1>2 DEF SpendInv, LimitKept
<1> QED BY <1>4, <1>5, <1>6, <1>7, <1>8 DEF SpendInv

LEMMA SpendStep ==
  ASSUME Typed, Placed, OneOpen, SpendInv, [Next]_vars
  PROVE  SpendInv'
<1>1. ASSUME NEW t \in Turns, NEW p \in Procs, Ask(t, p) PROVE SpendInv'
  <2>1. CASE Allowed(ConvOf[t])
    BY <1>1, <2>1, SpendMaySpend
  <2>2. CASE ~Allowed(ConvOf[t])
    BY <1>1, <2>2, SpendKept, OverIs DEF Ask, Done, Typed
  <2> QED BY <2>1, <2>2
<1>2. ASSUME NEW t \in Turns, Busy(t) \/ Close(t) PROVE SpendInv'
  BY <1>2, SpendKept, OverIs DEF Busy, Close, Done, Typed
<1>3. ASSUME NEW t \in Turns, Raises(t) PROVE SpendInv'
  <2>1. count'.other = count.other
    BY <1>3 DEF Raises, Fault, Counted, Typed, CountType
  <2> QED BY <1>3, <2>1, SpendKept, OverIs DEF Raises, Done, Typed
<1>4. ASSUME NEW t \in Turns, Admit(t) \/ Register(t) PROVE SpendInv'
  <2>1. /\ turn[t].pc \in {"waiting", "admitted"} /\ turn'[t].pc \in {"admitted", "streams"}
        /\ turn'[t].left = turn[t].left /\ turn'[t].used = turn[t].used
        /\ \A s \in Turns : s # t => turn'[s] = turn[s]
    BY <1>4 DEF Admit, Register, Moved, Typed, TurnType
  <2>2. cost' = cost /\ ledger' = ledger /\ count' = count /\ alone' = alone
    BY <1>4 DEF Admit, Register, spend
  <2>3. Spending' /\ WithinCap' /\ WithinLimit'
    BY <2>1, <2>2 DEF SpendInv, Spending, WithinCap, WithinLimit
  <2>4. CapKept' /\ LimitKept'
    BY <2>2 DEF SpendInv, CapKept, LimitKept
  <2> QED BY <2>3, <2>4 DEF SpendInv
<1>5. ASSUME NEW t \in Turns, StreamEnds(t) PROVE SpendInv'
  <2>1. turn[t].used + 0 = turn[t].used /\ 0 \in 0..Call
    BY ConstantsAssumption DEF Typed, TurnType
  <2> QED BY <1>5, <2>1, SpendEnds DEF StreamEnds
<1>6. ASSUME NEW t \in Turns, NEW n \in 1..Call, SpendOn(t, n) PROVE SpendInv'
  <2>1. CASE Over(t, turn[t].used + n)
    <3>1. n \in 0..Call
      BY ConstantsAssumption
    <3> QED BY <1>6, <2>1, <3>1, SpendEnds DEF SpendOn
  <2>2. CASE ~Over(t, turn[t].used + n)
    <3>1. turn[t] \in TurnType /\ turn[t].used + n < turn[t].left
      BY <2>2, ConstantsAssumption DEF Over, Typed, TurnType
    <3>2. /\ turn[t].pc = "streams" /\ turn'[t].pc = "streams"
          /\ turn'[t].left = turn[t].left /\ turn'[t].used = turn[t].used + n
          /\ \A s \in Turns : s # t => turn'[s] = turn[s]
      BY <1>6, <2>2, <3>1 DEF SpendOn, Typed, TurnType
    <3>3. cost' = cost /\ ledger' = ledger /\ count' = count /\ alone' = alone
      BY <1>6 DEF SpendOn, spend
    <3>4. Spending' /\ WithinCap' /\ WithinLimit'
      BY <3>1, <3>2, <3>3 DEF SpendInv, Spending, WithinCap, WithinLimit
    <3>5. CapKept' /\ LimitKept'
      BY <3>3 DEF SpendInv, CapKept, LimitKept
    <3> QED BY <3>4, <3>5 DEF SpendInv
  <2> QED BY <2>1, <2>2
<1>7. ASSUME NEW t \in Turns, Finalize(t) PROVE SpendInv'
  BY <1>7, SpendRecorded
<1>8. ASSUME NEW c \in Convs, OtherSpend(c) PROVE SpendInv'
  BY <1>8, SpendAside
<1>9. ASSUME NEW p \in Procs, NEW c \in Convs, Stop(c, p) \/ StopUnpublished(c, p) \/ Deliver(p, c)
      PROVE SpendInv'
  <2>1. count'.other = count.other
    BY <1>9 DEF Stop, StopUnpublished, Deliver, Counted, Typed, CountType
  <2> QED BY <1>9, <2>1, SpendKept, Telling DEF Stop, StopUnpublished, Deliver
<1>10. ASSUME NEW p \in Procs, Dies(p) \/ Unsubscribed(p) PROVE SpendInv'
  <2>1. count'.other = count.other
    BY <1>10 DEF Dies, Unsubscribed, Fault, Counted, Typed, CountType
  <2> QED BY <1>10, <2>1, SpendKept, OverIs DEF Dies, Unsubscribed
<1>11. CASE UNCHANGED vars
  BY <1>11, SpendKept DEF vars, spend
<1> QED
  BY <1>1, <1>2, <1>3, <1>4, <1>5, <1>6, <1>7, <1>8, <1>9, <1>10, <1>11
  DEF Next, TurnSteps, ProcSteps, Idle

THEOREM SpendAlways == Spec => [](OneOpen /\ SpendInv)
<1>1. Init => OneOpen /\ SpendInv
  BY SpendInit
<1>2. Typed /\ Placed /\ OneOpen /\ SpendInv /\ [Next]_vars => (OneOpen /\ SpendInv)'
  BY OneOpenStep, SpendStep
<1> QED BY <1>1, <1>2, TypesAlways, PTL DEF Spec

\* A conversation goes over its cap by less than the last event of the turn that reaches
\* it, its routing and retrieval, and what was spent in the background.
THEOREM CapIsKept == Spec => []CapKept
<1>1. SpendInv => CapKept
  BY DEF SpendInv
<1> QED BY <1>1, SpendAlways, PTL

\* A budget goes over its limit by no more, as long as turns do not overlap.
THEOREM LimitIsKept == Spec => []LimitKept
<1>1. SpendInv => LimitKept
  BY DEF SpendInv
<1> QED BY <1>1, SpendAlways, PTL
=============================================================================
