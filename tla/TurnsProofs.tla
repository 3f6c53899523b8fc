---------------------------- MODULE TurnsProofs ----------------------------
(* What Turns guarantees for every value of its constants: the types, and, *)
(* while nothing but a process fails, that one turn runs, that a lost turn *)
(* is a dead one, and that a notice is for a turn that is over.            *)
EXTENDS Turns, FiniteSetTheorems, TLAPS

LEMMA PcType ==
  ASSUME NEW t \in TurnIds, turn \in [TurnIds -> TurnType],
         NEW p \in {"none", "running", "asked", "ending", "finished", "releasing",
                    "over", "dead"},
         NEW b \in BOOLEAN
  PROVE  /\ [turn EXCEPT ![t].pc = p] \in [TurnIds -> TurnType]
         /\ [turn EXCEPT ![t].beat = b] \in [TurnIds -> TurnType]
         /\ [turn EXCEPT ![t].pc = p, ![t].beat = b] \in [TurnIds -> TurnType]
<1>1. ASSUME NEW x \in TurnType
      PROVE  /\ [x EXCEPT !.pc = p] \in TurnType
             /\ [x EXCEPT !.beat = b] \in TurnType
             /\ [x EXCEPT !.pc = p, !.beat = b] \in TurnType
  BY DEF TurnType
<1>2. [turn EXCEPT ![t].pc = p] \in [TurnIds -> TurnType]
  BY <1>1
<1>3. [turn EXCEPT ![t].beat = b] \in [TurnIds -> TurnType]
  BY <1>1
<1>4. [turn EXCEPT ![t].pc = p, ![t].beat = b] \in [TurnIds -> TurnType]
  <2>1. [turn EXCEPT ![t].pc = p, ![t].beat = b]
          = [turn EXCEPT ![t] = [turn[t] EXCEPT !.pc = p, !.beat = b]]
    OBVIOUS
  <2>2. [turn[t] EXCEPT !.pc = p, !.beat = b] \in TurnType
    BY <1>1
  <2> QED BY <2>1, <2>2
<1> QED BY <1>2, <1>3, <1>4

LEMMA FaultType ==
  ASSUME NEW kind, Fault(kind), faults \in FaultsSoFar PROVE faults' \in FaultsSoFar
BY TimeAssumption DEF Fault, FaultsSoFar

LEMMA TypeInit == Init => TypeOK
<1> SUFFICES ASSUME Init PROVE TypeOK
  OBVIOUS
<1>1. turn \in [TurnIds -> TurnType]
  BY DEF Init, TurnType
<1>2. /\ key \in TurnIds \cup {None} /\ ttl \in 0..LiveTTL
      /\ outcomes \in 0..MaxOutcomes /\ faults \in FaultsSoFar
      /\ newest \in [of : TurnIds \cup {None}, age : 0..UnansweredAfter + 1]
  BY TimeAssumption DEF Init, FaultsSoFar
<1>3. /\ held \in [Processes -> TurnIds \cup {None}]
      /\ due \subseteq TurnIds /\ ended \subseteq TurnIds /\ noticed \subseteq TurnIds
      /\ saved \in [TurnIds -> {"nothing", "question", "reply"}]
      /\ sweep \in [pc : {"idle"}, found : {None}] \cup [pc : {"read", "dead"}, found : TurnIds]
      /\ watcher \in [Watchers -> [pc : {"idle", "reading", "suspecting", "ended", "lost"},
                                   of : TurnIds \cup {None}]]
  BY DEF Init
<1> QED BY <1>1, <1>2, <1>3 DEF TypeOK

LEMMA TypeStep == TypeOK /\ [Next]_vars => TypeOK'
<1> SUFFICES ASSUME TypeOK, [Next]_vars PROVE TypeOK'
  OBVIOUS
<1>0. /\ LiveTTL \in 0..LiveTTL /\ 0 \in 0..LiveTTL /\ LiveTTL \in Nat
      /\ 0 \in 0..UnansweredAfter + 1 /\ UnansweredAfter \in Nat
  BY TimeAssumption
<1>1. ASSUME NEW t \in TurnIds, NEW p \in Processes, Start(t, p) \/ StartInMemory(t, p)
      PROVE  TypeOK'
  <2>1. \A log \in {"redis", "memory"} :
          [pc |-> "running", at |-> p, log |-> log, beat |-> FALSE] \in TurnType
    BY DEF TurnType
  <2>2. turn' \in [TurnIds -> TurnType] /\ UNCHANGED <<ended, chat, sweep, watcher>>
    <3>1. PICK log \in {"redis", "memory"} : Started(t, p, log)
      BY <1>1 DEF Start, StartInMemory
    <3> DEFINE new == [pc |-> "running", at |-> p, log |-> log, beat |-> FALSE]
    <3>2. new \in TurnType
      BY <2>1
    <3>3. turn' = [turn EXCEPT ![t] = new] /\ UNCHANGED <<ended, chat, sweep, watcher>>
      BY <3>1 DEF Started
    <3> HIDE DEF new
    <3> QED BY <3>2, <3>3 DEF TypeOK
  <2>3. CASE Start(t, p)
    BY <1>0, <2>2, <2>3 DEF TypeOK, Start, chat
  <2>4. CASE StartInMemory(t, p)
    <3>1. faults' \in FaultsSoFar
      BY <2>4, FaultType DEF TypeOK, StartInMemory
    <3>2. key' \in TurnIds \cup {None} /\ ttl' \in 0..LiveTTL
      BY <1>0, <2>4 DEF TypeOK, StartInMemory
    <3>3. held' \in [Processes -> TurnIds \cup {None}] /\ UNCHANGED due
      BY <2>4 DEF TypeOK, StartInMemory
    <3> QED BY <2>2, <3>1, <3>2, <3>3 DEF TypeOK, chat
  <2> QED BY <1>1, <2>3, <2>4
<1>2. ASSUME NEW t \in TurnIds, TurnStep(t) \/ Beat(t) \/ Fail(t) \/ EndCallFails(t)
      PROVE  TypeOK'
  <2>1. CASE Ask(t)
    BY <1>0, <2>1, PcType DEF TypeOK, Ask, At
  <2>2. ASSUME EndsAs(t), faults' \in FaultsSoFar,
               saved' \in [TurnIds -> {"nothing", "question", "reply"}],
               newest' \in [of : TurnIds \cup {None}, age : 0..UnansweredAfter + 1]
        PROVE  TypeOK'
    BY <2>2, PcType DEF TypeOK, EndsAs
  <2>3. CASE Reply(t)
    BY <1>0, <2>2, <2>3 DEF TypeOK, Reply
  <2>4. CASE Refuse(t)
    BY <2>2, <2>4 DEF TypeOK, Refuse
  <2>5. CASE Fail(t)
    BY <2>2, <2>5, FaultType DEF TypeOK, Fail
  <2>6. CASE BeatGet(t)
    BY <2>6, PcType DEF TypeOK, BeatGet, chat
  <2>7. CASE BeatExpire(t)
    <3>1. turn' \in [TurnIds -> TurnType]
      BY <2>7, PcType DEF TypeOK, BeatExpire
    <3>2. ttl' \in 0..LiveTTL
      BY <1>0, <2>7 DEF TypeOK, BeatExpire, Extended
    <3> QED BY <2>7, <3>1, <3>2 DEF TypeOK, BeatExpire, chat
  <2>8. CASE Finish(t)
    BY <2>8, PcType DEF TypeOK, Finish, At, Marked, chat
  <2>9. CASE Release(t)
    <3>1. turn' \in [TurnIds -> TurnType]
      <4>1. PICK q \in {"releasing", "over"} : turn' = [turn EXCEPT ![t].pc = q]
        BY <2>9 DEF Release, At
      <4> QED BY <4>1, PcType DEF TypeOK
    <3>2. held' \in [Processes -> TurnIds \cup {None}]
      BY <2>9 DEF TypeOK, Release
    <3> QED BY <2>9, <3>1, <3>2 DEF TypeOK, Release, chat
  <2>10. CASE ReleaseDelete(t)
    BY <1>0, <2>10, PcType DEF TypeOK, ReleaseDelete, At, chat
  <2>11. CASE EndCallFails(t)
    <3>1. turn' \in [TurnIds -> TurnType]
      <4>1. PICK q \in {"finished", "over"} : turn' = [turn EXCEPT ![t].pc = q]
        BY <2>11 DEF EndCallFails, At
      <4> QED BY <4>1, PcType DEF TypeOK
    <3> QED BY <2>11, <3>1, FaultType DEF TypeOK, EndCallFails, chat
  <2> QED BY <1>2, <2>1, <2>3, <2>4, <2>5, <2>6, <2>7, <2>8, <2>9, <2>10, <2>11
       DEF TurnStep, Beat
<1>3. ASSUME NEW p \in Processes, ProcessDies(p) PROVE TypeOK'
  <2>1. \A t \in TurnIds : turn'[t] = turn[t]
                           \/ turn'[t] = [turn[t] EXCEPT !.pc = "dead", !.beat = FALSE]
    BY <1>3 DEF ProcessDies
  <2>2. ASSUME NEW x \in TurnType PROVE [x EXCEPT !.pc = "dead", !.beat = FALSE] \in TurnType
    BY DEF TurnType
  <2>3. turn' = [t \in TurnIds |-> turn'[t]]
    BY <1>3 DEF ProcessDies
  <2>4. \A t \in TurnIds : turn'[t] \in TurnType
    <3> TAKE t \in TurnIds
    <3>1. turn[t] \in TurnType
      BY DEF TypeOK
    <3>2. [turn[t] EXCEPT !.pc = "dead", !.beat = FALSE] \in TurnType
      BY <2>2, <3>1
    <3> QED BY <2>1, <3>1, <3>2
  <2>5. turn' \in [TurnIds -> TurnType]
    BY <2>3, <2>4
  <2>6. faults' \in FaultsSoFar /\ due' \subseteq TurnIds
    BY <1>3, FaultType DEF TypeOK, ProcessDies
  <2>7. held' \in [Processes -> TurnIds \cup {None}]
    BY <1>3 DEF TypeOK, ProcessDies
  <2> QED BY <1>3, <2>5, <2>6, <2>7 DEF TypeOK, ProcessDies, chat
<1>4. ASSUME NEW w \in Watchers, WatcherStep(w) \/ \E t \in TurnIds : Watch(w, t)
      PROVE  TypeOK'
  <2>1. watcher' \in [Watchers -> [pc : {"idle", "reading", "suspecting", "ended", "lost"},
                                   of : TurnIds \cup {None}]]
    <3>1. CASE \E t \in TurnIds : Watch(w, t)
      BY <3>1 DEF TypeOK, Watch
    <3>2. CASE WatcherStep(w)
      <4>1. PICK q \in {"reading", "suspecting", "ended", "lost"} :
              watcher' = [watcher EXCEPT ![w].pc = q]
        BY <3>2 DEF WatcherStep
      <4> QED BY <4>1 DEF TypeOK
    <3> QED BY <1>4, <3>1, <3>2
  <2>2. UNCHANGED <<key, ttl, held, turn, due, ended, chat, sweep, faults>>
    BY <1>4 DEF WatcherStep, Watch
  <2> QED BY <2>1, <2>2 DEF TypeOK, chat
<1>5. CASE SweepStep \/ SweepBlind
  <2>1. CASE SweepRead
    BY <2>1 DEF TypeOK, SweepRead, Swept, chat
  <2>2. CASE SweepLook
    BY <2>2 DEF TypeOK, SweepLook, Swept, chat
  <2>3. CASE SweepNotice
    <3>1. sweep.found \in TurnIds
      BY <2>3 DEF TypeOK, SweepNotice
    <3> QED BY <1>0, <2>3, <3>1 DEF TypeOK, SweepNotice, Swept
  <2>4. CASE SweepBlind
    BY <2>4, FaultType DEF TypeOK, SweepBlind, Swept, chat
  <2> QED BY <1>5, <2>1, <2>2, <2>3, <2>4 DEF SweepStep
<1>6. CASE PostOutcome
  BY <1>0, <1>6, TimeAssumption DEF TypeOK, PostOutcome
<1>7. CASE Tick
  <2>1. faults' \in FaultsSoFar
    BY <1>7, FaultType DEF TypeOK, Tick
  <2>2. key' \in TurnIds \cup {None}
    BY <1>7 DEF TypeOK, Tick
  <2>3. ttl' \in 0..LiveTTL
    <3>1. ttl \in 0..LiveTTL /\ ttl' = (IF ttl = 0 THEN 0 ELSE ttl - 1)
      BY <1>7 DEF TypeOK, Tick
    <3> QED BY <1>0, <3>1
  <2>4. newest' \in [of : TurnIds \cup {None}, age : 0..UnansweredAfter + 1]
    BY <1>0, <1>7 DEF TypeOK, Tick
  <2>5. due' \subseteq TurnIds
    BY <1>7 DEF Tick, Running
  <2> QED BY <1>7, <2>1, <2>2, <2>3, <2>4, <2>5 DEF TypeOK, Tick
<1>8. CASE UNCHANGED vars
  BY <1>8 DEF TypeOK, vars
<1> QED BY <1>1, <1>2, <1>3, <1>4, <1>5, <1>6, <1>7, <1>8 DEF Next, TurnNext

\* Every variable keeps its type, whatever fails.
THEOREM TypeCorrect == Spec => []TypeOK
BY TypeInit, TypeStep, PTL DEF Spec

-----------------------------------------------------------------------------
(* The claim, while nothing but a process fails.                           *)

Active == {"running", "asked"}
Closing == {"ending", "finished", "releasing"}

\* What ClaimHeld says of one turn.
Holds(u) ==
  /\ turn[u].pc \in Active \cup Closing => key = u /\ turn[u].log = "redis"
  /\ turn[u].pc \in Active =>
       ttl = LiveTTL \/ (ttl = LiveTTL - 1 /\ (u \in due \/ turn[u].beat))
  /\ turn[u].beat => turn[u].pc \in Active
  /\ u \in due => turn[u].pc \in Active

AllHold == \A u \in TurnIds : Holds(u)

LEMMA HoldsAll == TypeOK => (ClaimHeld <=> AllHold)
<1> SUFFICES ASSUME TypeOK PROVE ClaimHeld <=> \A u \in TurnIds : Holds(u)
  BY DEF AllHold
<1>1. ASSUME ClaimHeld, NEW u \in TurnIds PROVE Holds(u)
  BY <1>1 DEF ClaimHeld, Holds, Running, Ending, Active, Closing
<1>2. ASSUME \A u \in TurnIds : Holds(u) PROVE ClaimHeld
  BY <1>2 DEF TypeOK, ClaimHeld, Holds, Running, Ending, Active, Closing
<1> QED BY <1>1, <1>2

\* A step of t in its own record.
Changes(t, pc, beat) ==
  /\ turn'[t].pc = pc /\ turn'[t].beat = beat /\ turn'[t].log = turn[t].log
  /\ \A u \in TurnIds \ {t} : turn'[u] = turn[u]

LEMMA Changing ==
  ASSUME NEW t \in TurnIds, turn \in [TurnIds -> TurnType], NEW p, NEW b
  PROVE  /\ turn' = [turn EXCEPT ![t].pc = p] => Changes(t, p, turn[t].beat)
         /\ turn' = [turn EXCEPT ![t].beat = b] => Changes(t, turn[t].pc, b)
         /\ turn' = [turn EXCEPT ![t].pc = p, ![t].beat = b] => Changes(t, p, b)
<1>1. ASSUME NEW x \in TurnType
      PROVE  /\ LET y == [x EXCEPT !.pc = p] IN y.pc = p /\ y.beat = x.beat /\ y.log = x.log
             /\ LET y == [x EXCEPT !.beat = b] IN y.pc = x.pc /\ y.beat = b /\ y.log = x.log
             /\ LET y == [x EXCEPT !.pc = p, !.beat = b]
                IN y.pc = p /\ y.beat = b /\ y.log = x.log
  BY DEF TurnType
<1>2. turn[t] \in TurnType
  OBVIOUS
<1>3. ASSUME turn' = [turn EXCEPT ![t].pc = p] PROVE Changes(t, p, turn[t].beat)
  <2>1. turn'[t] = [turn[t] EXCEPT !.pc = p]
    BY <1>3
  <2> QED BY <1>1, <1>2, <1>3, <2>1 DEF Changes
<1>4. ASSUME turn' = [turn EXCEPT ![t].beat = b] PROVE Changes(t, turn[t].pc, b)
  <2>1. turn'[t] = [turn[t] EXCEPT !.beat = b]
    BY <1>4
  <2> QED BY <1>1, <1>2, <1>4, <2>1 DEF Changes
<1>5. ASSUME turn' = [turn EXCEPT ![t].pc = p, ![t].beat = b] PROVE Changes(t, p, b)
  <2>1. turn'[t] = [turn[t] EXCEPT !.pc = p, !.beat = b]
    BY <1>5
  <2> QED BY <1>1, <1>2, <1>5, <2>1 DEF Changes
<1> QED BY <1>3, <1>4, <1>5

\* The steps that are left when calls to Redis do not fail and turns are on time.
TimelyTurnStep(t) ==
  \/ \E p \in Processes : Start(t, p)
  \/ TurnStep(t) \/ Beat(t) \/ Fail(t)

LEMMA TimelySteps ==
  ASSUME TypeOK, Timely', Next
  PROVE  \/ \E t \in TurnIds : TimelyTurnStep(t)
         \/ \E p \in Processes : ProcessDies(p)
         \/ \E w \in Watchers : WatcherStep(w) \/ \E t \in TurnIds : Watch(w, t)
         \/ SweepStep
         \/ PostOutcome
         \/ Tick /\ OnTime
<1>1. ASSUME NEW kind, Fault(kind) PROVE kind = "die"
  <2>1. faults'.timely = (faults.timely /\ kind = "die")
    BY <1>1 DEF Fault
  <2> QED BY <2>1 DEF Timely
<1> QED BY <1>1 DEF Next, TurnNext, TimelyTurnStep, StartInMemory, EndCallFails,
       SweepBlind, Tick

\* What one turn does to the claim, to its record and to its end marker.
LEMMA TurnEffects ==
  ASSUME TypeOK, ClaimHeld, NEW t \in TurnIds, TimelyTurnStep(t)
  PROVE  \/ /\ turn[t].pc = "none" /\ key = None /\ key' = t /\ ttl' = LiveTTL
            /\ turn'[t].pc = "running" /\ ~turn'[t].beat /\ turn'[t].log = "redis"
            /\ \A u \in TurnIds \ {t} : turn'[u] = turn[u]
            /\ due' = due \cup {t} /\ ended' = ended
         \/ /\ turn[t].pc = "running" /\ Changes(t, "asked", turn[t].beat)
            /\ UNCHANGED <<key, ttl, due, ended>>
         \/ /\ turn[t].pc \in Active /\ Changes(t, "ending", FALSE)
            /\ due' = due \ {t} /\ UNCHANGED <<key, ttl, ended>>
         \/ /\ turn[t].pc \in Active /\ Changes(t, turn[t].pc, TRUE)
            /\ due' = due \ {t} /\ UNCHANGED <<key, ttl, ended>>
         \/ /\ turn[t].pc \in Active /\ Changes(t, turn[t].pc, FALSE)
            /\ ttl' = LiveTTL /\ UNCHANGED <<key, due, ended>>
         \/ /\ turn[t].pc = "ending" /\ Changes(t, "finished", turn[t].beat)
            /\ ended' = ended \cup {t} /\ UNCHANGED <<key, ttl, due>>
         \/ /\ turn[t].pc = "finished" /\ Changes(t, "releasing", turn[t].beat)
            /\ UNCHANGED <<key, ttl, due, ended>>
         \/ /\ turn[t].pc = "releasing" /\ Changes(t, "over", turn[t].beat)
            /\ key' = None /\ ttl' = 0 /\ UNCHANGED <<due, ended>>
<1>0. turn \in [TurnIds -> TurnType] /\ Holds(t)
  BY HoldsAll DEF AllHold, TypeOK
<1>1. ASSUME NEW p \in Processes, Start(t, p)
      PROVE  /\ turn[t].pc = "none" /\ key = None /\ key' = t /\ ttl' = LiveTTL
             /\ turn'[t].pc = "running" /\ ~turn'[t].beat /\ turn'[t].log = "redis"
             /\ \A u \in TurnIds \ {t} : turn'[u] = turn[u]
             /\ due' = due \cup {t} /\ ended' = ended
  BY <1>0, <1>1 DEF Start, Started
<1>2. CASE Ask(t)
  BY <1>0, <1>2, Changing DEF Ask, At
<1>3. ASSUME EndsAs(t), turn[t].pc \in Active
      PROVE  /\ turn[t].pc \in Active /\ Changes(t, "ending", FALSE)
             /\ due' = due \ {t} /\ UNCHANGED <<key, ttl, ended>>
  BY <1>0, <1>3, Changing DEF EndsAs
<1>4. CASE Reply(t) \/ Refuse(t) \/ Fail(t)
  BY <1>3, <1>4 DEF Reply, Refuse, Fail, Active
<1>5. CASE BeatGet(t)
  <2>1. turn[t].pc \in Active /\ key = t
    BY <1>0, <1>5 DEF BeatGet, Running, Holds, Active
  <2>2. turn' = [turn EXCEPT ![t].beat = TRUE]
    BY <1>5, <2>1 DEF BeatGet
  <2> QED BY <1>0, <1>5, <2>1, <2>2, Changing DEF BeatGet
<1>6. CASE BeatExpire(t)
  <2>1. turn[t].pc \in Active /\ key = t
    BY <1>0, <1>6 DEF BeatExpire, Running, Holds, Active
  <2>2. key # None
    BY <2>1, NoneAssumption
  <2> QED BY <1>0, <1>6, <2>1, <2>2, Changing DEF BeatExpire, Extended
<1>7. CASE Finish(t)
  BY <1>0, <1>7, Changing DEF Finish, At, Marked
<1>8. CASE Release(t)
  <2>1. key = t /\ turn[t].log = "redis"
    BY <1>0, <1>8 DEF Release, Holds, Closing
  <2>2. turn' = [turn EXCEPT ![t].pc = "releasing"]
    BY <1>8, <2>1 DEF Release, At
  <2> QED BY <1>0, <1>8, <2>2, Changing DEF Release
<1>9. CASE ReleaseDelete(t)
  BY <1>0, <1>9, Changing DEF ReleaseDelete, At
<1> QED BY <1>1, <1>2, <1>4, <1>5, <1>6, <1>7, <1>8, <1>9 DEF TimelyTurnStep, TurnStep, Beat

LEMMA ClaimInit == Init => ClaimHeld
BY DEF Init, ClaimHeld, Running, Ending

LEMMA ClaimStep ==
  TypeOK /\ TypeOK' /\ Timely' /\ ClaimHeld /\ [Next]_vars => ClaimHeld'
<1>p. TypeOK' /\ AllHold' => ClaimHeld'
  BY HoldsAll, PTL
<1> SUFFICES ASSUME TypeOK, TypeOK', Timely', ClaimHeld, [Next]_vars,
                    NEW u \in TurnIds
             PROVE  Holds(u)'
  BY <1>p DEF AllHold
<1>0. Holds(u) /\ u # None /\ LiveTTL \in Nat \ {0, 1}
  BY HoldsAll, NoneAssumption, TimeAssumption DEF AllHold
<1>1. ASSUME UNCHANGED <<key, ttl, turn, due>> PROVE Holds(u)'
  BY <1>0, <1>1 DEF Holds
<1>2. ASSUME NEW t \in TurnIds, TimelyTurnStep(t) PROVE Holds(u)'
  <2>1. Holds(t)
    BY HoldsAll DEF AllHold
  <2>2. CASE u = t
    BY <1>0, <1>2, <2>2, TurnEffects DEF Holds, Changes, Active, Closing
  <2>3. CASE u # t
    <3>1. turn'[u] = turn[u] /\ (u \in due' <=> u \in due)
      BY <1>2, <2>3, TurnEffects DEF Changes
    <3>2. CASE turn[t].pc = "none"
      BY <1>0, <1>2, <2>3, <3>1, <3>2, TurnEffects DEF Holds, Changes, Active, Closing
    <3>3. CASE turn[t].pc # "none"
      <4>1. turn[t].pc \in Active \cup Closing
        BY <1>2, <3>3, TurnEffects DEF Active, Closing
      <4>2. turn[u].pc \notin Active \cup Closing
        BY <1>0, <2>1, <2>3, <4>1 DEF Holds
      <4> QED BY <1>0, <3>1, <4>2 DEF Holds
    <3> QED BY <3>2, <3>3
  <2> QED BY <2>2, <2>3
<1>3. ASSUME NEW p \in Processes, ProcessDies(p) PROVE Holds(u)'
  <2> DEFINE gone == {t \in Running \cup Ending : turn[t].at = p}
  <2>2. CASE u \in gone
    <3>1. turn'[u] = [turn[u] EXCEPT !.pc = "dead", !.beat = FALSE] /\ u \notin due'
      BY <1>3, <2>2 DEF ProcessDies
    <3>2. turn[u] \in TurnType
      BY DEF TypeOK
    <3>3. turn'[u].pc = "dead" /\ ~turn'[u].beat
      BY <3>1, <3>2 DEF TurnType
    <3> QED BY <3>1, <3>3 DEF Holds, Active, Closing
  <2>3. CASE u \notin gone
    <3>1. turn'[u] = turn[u] /\ (u \in due' <=> u \in due) /\ UNCHANGED <<key, ttl>>
      BY <1>3, <2>3 DEF ProcessDies
    <3> QED BY <1>0, <3>1 DEF Holds
  <2> QED BY <2>2, <2>3
<1>4. CASE Tick /\ OnTime
  <2>1. /\ due = {} /\ turn[u].pc \notin Closing /\ ~turn[u].beat
        /\ UNCHANGED turn /\ due' = {t \in Running : turn[t].log = "redis"}
    BY <1>4 DEF Tick, OnTime, Ending, Closing
  <2>2. CASE turn[u].pc \in Active
    <3>1. ttl = LiveTTL /\ key = u /\ turn[u].log = "redis"
      BY <1>0, <2>1, <2>2 DEF Holds
    <3>2. key' = key /\ ttl' = LiveTTL - 1
      BY <1>0, <1>4, <3>1 DEF Tick, Lapsed
    <3>3. u \in due'
      BY <2>1, <2>2, <3>1 DEF Running, Active
    <3> QED BY <2>1, <2>2, <3>1, <3>2, <3>3 DEF Holds
  <2>3. CASE turn[u].pc \notin Active
    <3>1. u \notin due'
      BY <2>1, <2>3 DEF Running, Active
    <3> QED BY <2>1, <2>3, <3>1 DEF Holds
  <2> QED BY <2>2, <2>3
<1>5. CASE \/ \E w \in Watchers : WatcherStep(w) \/ \E t \in TurnIds : Watch(w, t)
           \/ SweepStep \/ PostOutcome
  BY <1>1, <1>5 DEF WatcherStep, Watch, SweepStep, SweepRead, SweepLook, SweepNotice,
       PostOutcome
<1>6. CASE UNCHANGED vars
  BY <1>1, <1>6 DEF vars
<1> QED BY <1>2, <1>3, <1>4, <1>5, <1>6, TimelySteps

\* What fails stays failed: turns that are timely were so before.
LEMMA TimelySoFar ==
  ASSUME TypeOK, [Next]_vars, Timely' PROVE Timely
<1>1. ASSUME NEW kind, Fault(kind) PROVE Timely
  BY <1>1 DEF Fault, Timely
<1>2. CASE faults' = faults
  BY <1>2 DEF Timely
<1> QED BY <1>1, <1>2 DEF Next, TurnNext, TurnStep, Beat, Start, StartInMemory, Ask, Reply,
       Refuse, Fail, EndCallFails, Finish, Release, ReleaseDelete, BeatGet, BeatExpire,
       ProcessDies, WatcherStep, Watch, SweepStep, SweepRead, SweepLook, SweepNotice,
       SweepBlind, PostOutcome, Tick, vars

TimelyClaim == TypeOK /\ (Timely => ClaimHeld)

\* "A conversation has at most one turn running": a turn that beats on time holds the
\* claim until it gives it back, and nobody starts beside it.
THEOREM OneTurnAtATime == Spec => []OneTurnRuns
<1>1. TimelyClaim => OneTurnRuns
  <2> SUFFICES ASSUME ClaimHeld PROVE Cardinality(Running) <= 1
    BY DEF OneTurnRuns, TimelyClaim
  <2>1. CASE Running = {}
    BY <2>1, FS_EmptySet
  <2>2. CASE Running # {}
    <3>1. Running = {key}
      BY <2>2 DEF ClaimHeld
    <3>2. Cardinality({key}) = 1
      BY FS_Singleton
    <3> QED BY <3>1, <3>2
  <2> QED BY <2>1, <2>2
<1>2. TimelyClaim /\ [Next]_vars => TimelyClaim'
  BY TypeStep, ClaimStep, TimelySoFar DEF TimelyClaim
<1>3. Init => TimelyClaim
  BY TypeInit, ClaimInit DEF TimelyClaim
<1> QED BY <1>1, <1>2, <1>3, PTL DEF Spec

-----------------------------------------------------------------------------
(* End markers and conclusions.                                            *)

\* Where a step may move a turn: it never starts over, and what is over stays so.
Onward(u) ==
  /\ turn'[u].pc = "none" => turn'[u] = turn[u]
  /\ turn[u].pc \in {"over", "dead"} => turn'[u].pc = turn[u].pc

LEMMA TurnsGoOnward ==
  ASSUME TypeOK, Timely', ClaimHeld, [Next]_vars, NEW u \in TurnIds PROVE Onward(u)
<1>1. ASSUME NEW t \in TurnIds, TimelyTurnStep(t) PROVE Onward(u)
  <2>1. CASE u = t
    BY <1>1, <2>1, TurnEffects DEF Onward, Changes, Active
  <2>2. CASE u # t
    BY <1>1, <2>2, TurnEffects DEF Onward, Changes
  <2> QED BY <2>1, <2>2
<1>2. ASSUME NEW p \in Processes, ProcessDies(p) PROVE Onward(u)
  <2> DEFINE gone == {t \in Running \cup Ending : turn[t].at = p}
  <2>1. CASE u \in gone
    <3>1. turn'[u] = [turn[u] EXCEPT !.pc = "dead", !.beat = FALSE] /\ turn[u] \in TurnType
      BY <1>2, <2>1 DEF ProcessDies, TypeOK
    <3>2. turn'[u].pc = "dead"
      BY <3>1 DEF TurnType
    <3>3. turn[u].pc \notin {"over", "dead"}
      BY <2>1 DEF Running, Ending
    <3> QED BY <3>2, <3>3 DEF Onward
  <2>2. CASE u \notin gone
    BY <1>2, <2>2 DEF ProcessDies, Onward
  <2> QED BY <2>1, <2>2
<1>3. CASE UNCHANGED turn
  BY <1>3 DEF Onward
<1> QED BY <1>1, <1>2, <1>3, TimelySteps DEF WatcherStep, Watch, SweepStep, SweepRead,
       SweepLook, SweepNotice, PostOutcome, Tick, vars

LEMMA MarkStep ==
  ASSUME TypeOK, Timely', ClaimHeld, EndMarked, [Next]_vars PROVE EndMarked'
<1> DEFINE Past == {"finished", "releasing", "over"}
<1> SUFFICES ASSUME NEW u \in TurnIds, turn'[u].pc \in Past PROVE u \in ended'
  BY DEF EndMarked
<1>0. turn[u].pc \in Past => u \in ended
  BY DEF EndMarked
<1>1. ASSUME NEW t \in TurnIds, TimelyTurnStep(t) PROVE u \in ended'
  <2>1. CASE u = t
    BY <1>0, <1>1, <2>1, TurnEffects DEF Changes, Active
  <2>2. CASE u # t
    BY <1>0, <1>1, <2>2, TurnEffects DEF Changes
  <2> QED BY <2>1, <2>2
<1>2. ASSUME NEW p \in Processes, ProcessDies(p) PROVE u \in ended'
  <2> DEFINE gone == {t \in Running \cup Ending : turn[t].at = p}
  <2>1. u \notin gone
    <3> SUFFICES ASSUME u \in gone PROVE turn'[u].pc = "dead"
      OBVIOUS
    <3>1. turn'[u] = [turn[u] EXCEPT !.pc = "dead", !.beat = FALSE] /\ turn[u] \in TurnType
      BY <1>2 DEF ProcessDies, TypeOK
    <3> QED BY <3>1 DEF TurnType
  <2>2. turn'[u] = turn[u] /\ ended' = ended
    BY <1>2, <2>1 DEF ProcessDies
  <2> QED BY <1>0, <2>2
<1>3. CASE UNCHANGED <<turn, ended>>
  BY <1>0, <1>3
<1> QED BY <1>1, <1>2, <1>3, TimelySteps DEF WatcherStep, Watch, SweepStep, SweepRead,
       SweepLook, SweepNotice, PostOutcome, Tick, chat, vars

\* A claim that is free, or another's, is of a turn that was never started or is over.
LEMMA NoClaimIsOver ==
  ASSUME TypeOK, ClaimHeld, NEW u \in TurnIds, turn[u].pc # "none", key # u
  PROVE  turn[u].pc \in {"over", "dead"}
<1>1. turn[u].pc \notin Active \cup Closing
  BY HoldsAll DEF AllHold, Holds
<1>2. turn[u] \in TurnType
  BY DEF TypeOK
<1> QED BY <1>1, <1>2 DEF TurnType, Active, Closing

\* The claim only ever passes to a turn that starts.
LEMMA ClaimPasses ==
  ASSUME TypeOK, Timely', ClaimHeld, [Next]_vars
  PROVE  key' = key \/ key' = None \/ \E t \in TurnIds : key' = t /\ turn[t].pc = "none"
<1>1. ASSUME NEW t \in TurnIds, TimelyTurnStep(t)
      PROVE  key' = key \/ key' = None \/ (key' = t /\ turn[t].pc = "none")
  BY <1>1, TurnEffects
<1>2. CASE ~ \E t \in TurnIds : TimelyTurnStep(t)
  BY <1>2, TimelySteps DEF ProcessDies, WatcherStep, Watch, SweepStep, SweepRead,
     SweepLook, SweepNotice, PostOutcome, Tick, vars
<1> QED BY <1>1, <1>2

\* The newest message is the question of a turn that was started.
LEMMA NewestStep ==
  ASSUME TypeOK, TypeOK', Timely', ClaimHeld, [Next]_vars,
         newest.of # None => turn[newest.of].pc # "none",
         newest'.of # None
  PROVE  turn'[newest'.of].pc # "none"
<1>0. newest.of \in TurnIds \cup {None} /\ newest'.of \in TurnIds /\ turn \in [TurnIds -> TurnType]
  BY DEF TypeOK
<1>1. ASSUME newest'.of = newest.of PROVE turn'[newest'.of].pc # "none"
  BY <1>0, <1>1, TurnsGoOnward DEF Onward
<1>2. ASSUME NEW t \in TurnIds, Ask(t) PROVE turn'[newest'.of].pc # "none"
  <2>1. newest'.of = t /\ turn[t].pc = "running"
    BY <1>2 DEF Ask
  <2> QED BY <2>1, TurnsGoOnward DEF Onward
<1>3. ASSUME NEW t \in TurnIds, TimelyTurnStep(t) PROVE turn'[newest'.of].pc # "none"
  <2>1. CASE Reply(t)
    BY <1>0, <2>1 DEF Reply
  <2>2. CASE ~Ask(t) /\ ~Reply(t)
    <3>1. newest' = newest
      BY <1>3, <2>2 DEF TimelyTurnStep, TurnStep, Beat, Start, Started, Refuse, Fail, Finish,
           Release, ReleaseDelete, BeatGet, BeatExpire, chat
    <3> QED BY <1>1, <3>1
  <2> QED BY <1>2, <2>1, <2>2
<1>4. CASE Tick
  <2>1. newest'.of = newest.of
    BY <1>4 DEF Tick, TypeOK
  <2> QED BY <1>1, <2>1
<1>5. CASE SweepNotice \/ PostOutcome
  BY <1>0, <1>5 DEF SweepNotice, PostOutcome
<1>6. CASE UNCHANGED newest
  BY <1>1, <1>6
<1> QED BY <1>3, <1>4, <1>5, <1>6, TimelySteps DEF ProcessDies, WatcherStep, Watch,
       SweepStep, SweepRead, SweepLook, chat, vars

LEMMA EndInit == Init => EndMarked /\ ConclusionsHold
<1> SUFFICES ASSUME Init PROVE EndMarked /\ ConclusionsHold
  OBVIOUS
<1>1. \A t \in TurnIds : turn[t].pc = "none" /\ turn[t].log = None
  BY DEF Init
<1>2. \A w \in Watchers : watcher[w].pc = "idle"
  BY DEF Init
<1>3. newest.of = None /\ sweep.pc = "idle" /\ noticed = {}
  BY DEF Init
<1> QED BY <1>1, <1>2, <1>3 DEF EndMarked, ConclusionsHold

\* What is concluded of a watcher's turn.
Watched(w) ==
  /\ watcher[w].pc # "idle" =>
       watcher[w].of \in TurnIds /\ turn[watcher[w].of].pc # "none"
  /\ watcher[w].pc = "suspecting" => key # watcher[w].of
  /\ watcher[w].pc = "lost" => turn[watcher[w].of].pc = "dead"

\* A step that leaves a watcher alone does not undo what it concluded.
LEMMA WatchedStays ==
  ASSUME TypeOK, Timely', ClaimHeld, [Next]_vars, NEW w \in Watchers,
         Watched(w), watcher'[w] = watcher[w]
  PROVE  Watched(w)'
<1>1. CASE watcher[w].pc = "idle"
  BY <1>1 DEF Watched
<1>2. CASE watcher[w].pc # "idle"
  <2> DEFINE u == watcher[w].of
  <2>1. u \in TurnIds /\ turn[u].pc # "none"
    BY <1>2 DEF Watched
  <2>2. turn'[u].pc # "none" /\ (turn[u].pc = "dead" => turn'[u].pc = "dead")
    BY <2>1, TurnsGoOnward DEF Onward
  <2>3. key # u => key' # u
    BY <2>1, ClaimPasses, NoneAssumption
  <2> QED BY <2>1, <2>2, <2>3 DEF Watched
<1> QED BY <1>1, <1>2

LEMMA WatchedStep ==
  ASSUME TypeOK, Timely', ClaimHeld, EndMarked, ConclusionsHold, [Next]_vars,
         NEW w \in Watchers
  PROVE  Watched(w)'
<1>0. /\ Watched(w)
      /\ watcher[w] \in [pc : {"idle", "reading", "suspecting", "ended", "lost"},
                         of : TurnIds \cup {None}]
      /\ watcher \in [Watchers -> [pc : {"idle", "reading", "suspecting", "ended", "lost"},
                                   of : TurnIds \cup {None}]]
  BY DEF ConclusionsHold, Watched, TypeOK
<1>1. ASSUME NEW v \in Watchers, NEW t \in TurnIds, Watch(v, t) PROVE Watched(w)'
  <2>1. CASE v # w
    BY <1>0, <1>1, <2>1, WatchedStays DEF Watch
  <2>2. CASE v = w
    <3>1. watcher'[w].pc = "reading" /\ watcher'[w].of = t /\ turn' = turn
      BY <1>0, <1>1, <2>2 DEF Watch
    <3>2. turn[t].pc # "none"
      BY <1>1, NoneAssumption DEF Watch, ConclusionsHold, TypeOK, TurnType
    <3> QED BY <3>1, <3>2 DEF Watched
  <2> QED BY <2>1, <2>2
<1>2. ASSUME NEW v \in Watchers, WatcherStep(v) PROVE Watched(w)'
  <2>1. CASE v # w
    BY <1>0, <1>2, <2>1, WatchedStays DEF WatcherStep
  <2>2. CASE v = w
    <3> DEFINE u == watcher[w].of
    <3>1. u \in TurnIds /\ turn[u].pc # "none"
      BY <1>0, <1>2, <2>2 DEF Watched, WatcherStep
    <3>2. turn' = turn /\ key' = key
      BY <1>2 DEF WatcherStep
    <3>3. CASE watcher'[w] = [watcher[w] EXCEPT !.pc = "suspecting"] /\ ClaimGone(u)
      BY <1>0, <3>1, <3>2, <3>3 DEF Watched, ClaimGone
    <3>4. CASE /\ watcher'[w] = [watcher[w] EXCEPT !.pc = "lost"]
               /\ watcher[w].pc = "suspecting" /\ u \notin ended
      <4>1. turn[u].pc \in {"over", "dead"}
        BY <1>0, <3>1, <3>4, NoClaimIsOver DEF Watched
      <4>2. turn[u].pc = "dead"
        BY <3>1, <3>4, <4>1 DEF EndMarked
      <4> QED BY <1>0, <3>1, <3>2, <3>4, <4>2 DEF Watched
    <3>5. CASE \/ watcher'[w] = [watcher[w] EXCEPT !.pc = "ended"]
               \/ watcher'[w] = [watcher[w] EXCEPT !.pc = "reading"]
      BY <1>0, <3>1, <3>2, <3>5 DEF Watched
    <3> QED BY <1>0, <1>2, <2>2, <3>3, <3>4, <3>5 DEF WatcherStep
  <2> QED BY <2>1, <2>2
<1>3. CASE watcher' = watcher
  BY <1>0, <1>3, WatchedStays
<1>4. ASSUME NEW t \in TurnIds, TimelyTurnStep(t) PROVE watcher' = watcher
  BY <1>4 DEF TimelyTurnStep, TurnStep, Beat, Start, Started, Ask, EndsAs, Reply, Refuse,
     Fail, Finish, Release, ReleaseDelete, BeatGet, BeatExpire
<1>5. CASE \E p \in Processes : ProcessDies(p)
  BY <1>3, <1>5 DEF ProcessDies
<1>6. CASE SweepStep \/ PostOutcome \/ Tick
  BY <1>3, <1>6 DEF SweepStep, SweepRead, SweepLook, SweepNotice, PostOutcome, Tick
<1>7. CASE UNCHANGED vars
  BY <1>3, <1>7 DEF vars
<1> QED BY <1>1, <1>2, <1>3, <1>4, <1>5, <1>6, <1>7, TimelySteps

\* What the sweep found, and what it noticed.
Found ==
  /\ sweep.pc # "idle" => turn[sweep.found].pc # "none"
  /\ sweep.pc = "dead" => sweep.found \in Over
  /\ noticed \subseteq Over

\* What is over stays over.
LEMMA OverStays ==
  ASSUME TypeOK, Timely', ClaimHeld, [Next]_vars PROVE Over \subseteq Over'
BY TurnsGoOnward DEF Onward, Over

LEMMA FoundStep ==
  ASSUME TypeOK, TypeOK', Timely', ClaimHeld, ConclusionsHold, [Next]_vars
  PROVE  Found'
<1>0. /\ Found /\ Over \subseteq Over'
      /\ sweep \in [pc : {"idle"}, found : {None}] \cup [pc : {"read", "dead"}, found : TurnIds]
  BY OverStays DEF ConclusionsHold, Found, TypeOK
<1>1. CASE sweep' = sweep /\ noticed' = noticed
  <2>1. sweep.pc # "idle" => sweep.found \in TurnIds
    BY <1>0
  <2>2. sweep.pc # "idle" => turn'[sweep.found].pc # "none"
    BY <1>0, <2>1, TurnsGoOnward DEF Onward, Found
  <2> QED BY <1>0, <1>1, <2>2 DEF Found
<1>2. CASE SweepRead
  BY <1>0, <1>2 DEF SweepRead, Swept, Found, ConclusionsHold, chat, Over
<1>3. CASE SweepLook
  <2>1. CASE AliveAnywhere
    BY <1>0, <1>3, <2>1 DEF SweepLook, Swept, Found, chat, Over
  <2>2. CASE ~AliveAnywhere
    <3>1. sweep.found \in TurnIds /\ turn[sweep.found].pc # "none" /\ key # sweep.found
      BY <1>0, <1>3, <2>2, NoneAssumption DEF SweepLook, Found, AliveAnywhere
    <3>2. sweep.found \in Over
      BY <3>1, NoClaimIsOver DEF Over
    <3>3. /\ sweep'.pc = "dead" /\ sweep'.found = sweep.found
          /\ noticed' = noticed /\ turn' = turn
      BY <1>3, <2>2 DEF SweepLook, Swept, chat
    <3> QED BY <1>0, <3>1, <3>2, <3>3 DEF Found
  <2> QED BY <2>1, <2>2
<1>4. CASE SweepNotice
  <2>1. noticed' \subseteq Over
    BY <1>0, <1>4 DEF SweepNotice, Found
  <2>2. sweep'.pc = "idle"
    BY <1>4 DEF SweepNotice, Swept
  <2> QED BY <1>0, <2>1, <2>2 DEF Found
<1>5. ASSUME NEW t \in TurnIds, TimelyTurnStep(t) PROVE sweep' = sweep /\ noticed' = noticed
  BY <1>5 DEF TimelyTurnStep, TurnStep, Beat, Start, Started, Ask, EndsAs, Reply, Refuse,
     Fail, Finish, Release, ReleaseDelete, BeatGet, BeatExpire, chat
<1>6. CASE \/ \E p \in Processes : ProcessDies(p)
           \/ \E w \in Watchers : WatcherStep(w) \/ \E t \in TurnIds : Watch(w, t)
           \/ PostOutcome \/ Tick
  BY <1>1, <1>6 DEF ProcessDies, WatcherStep, Watch, PostOutcome, Tick, chat
<1>7. CASE UNCHANGED vars
  BY <1>1, <1>7 DEF vars, chat
<1> QED BY <1>1, <1>2, <1>3, <1>4, <1>5, <1>6, <1>7, TimelySteps DEF SweepStep

LEMMA ConclusionStep ==
  TypeOK /\ TypeOK' /\ Timely' /\ ClaimHeld /\ EndMarked /\ ConclusionsHold /\ [Next]_vars
    => ConclusionsHold'
<1> SUFFICES ASSUME TypeOK, TypeOK', Timely', ClaimHeld, EndMarked, ConclusionsHold, [Next]_vars
             PROVE  ConclusionsHold'
  OBVIOUS
<1>1. \A w \in Watchers : Watched(w)'
  BY WatchedStep
<1>2. newest'.of # None => turn'[newest'.of].pc # "none"
  BY NewestStep DEF ConclusionsHold
<1>3. Found'
  BY FoundStep
<1>4. \A t \in TurnIds : turn'[t].pc = "none" => turn'[t].log = None
  BY TurnsGoOnward DEF Onward, ConclusionsHold
<1> QED BY <1>1, <1>2, <1>3, <1>4 DEF ConclusionsHold, Watched, Found, Over

LEMMA TimelyInvariance == Spec => []TimelyInv
<1>1. Init => TimelyInv
  BY TypeInit, ClaimInit, EndInit DEF TimelyInv
<1>2. TimelyInv /\ [Next]_vars => TimelyInv'
  <2> SUFFICES ASSUME TimelyInv, [Next]_vars, Timely'
               PROVE  ClaimHeld' /\ EndMarked' /\ ConclusionsHold'
    BY TypeStep DEF TimelyInv
  <2>1. TypeOK /\ TypeOK' /\ ClaimHeld /\ EndMarked /\ ConclusionsHold
    BY TypeStep, TimelySoFar DEF TimelyInv
  <2> QED BY <2>1, ClaimStep, MarkStep, ConclusionStep
<1> QED BY <1>1, <1>2, PTL DEF Spec

\* A watcher is told the server stopped only when it did: while a turn lives, a watcher
\* that finds the claim gone finds the end marker on its second look.
THEOREM LostTurnsAreDead == Spec => []LostMeansDead
<1>1. TimelyInv => LostMeansDead
  BY DEF TimelyInv, ConclusionsHold, LostMeansDead
<1> QED BY <1>1, TimelyInvariance, PTL

\* A notice is only ever left for a turn that is over: the claim that is gone was the
\* turn's, and nobody else can have it back.
THEOREM NoticedTurnsAreOver == Spec => []NoticedMeansStopped
<1>1. TimelyInv => NoticedMeansStopped
  BY DEF TimelyInv, ConclusionsHold, NoticedMeansStopped, Over, Running
<1> QED BY <1>1, TimelyInvariance, PTL
=============================================================================
