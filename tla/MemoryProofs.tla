---------------------------- MODULE MemoryProofs ----------------------------
(***************************************************************************)
(* What is proved of Memory for any number of turns, requests and          *)
(* messages, any threshold, and any number of faults: that the summary     *)
(* covers what it says, that the model knows what was said before it or is *)
(* told how much it does not, that a session matches its summary while     *)
(* nothing fails, that requests that ended are told, and that no cost is   *)
(* lost.                                                                   *)
(*                                                                         *)
(* All rest on what a turn under way may count on: the conversation it     *)
(* loaded names the same session as the row until the turn is recorded,    *)
(* since no other turn runs, while the summary of the row may be newer.    *)
(***************************************************************************)
EXTENDS Memory, FiniteSetTheorems, TLAPS

Sids == (1..MaxTurns) \cup {None}

RowType ==
  [sid : Sids, sver : Nat, ver : Nat, thru : Nat, folds : SUBSET Nat, cost : Nat,
   answered : BOOLEAN, title : {"default", "made", "own"}]

TurnType ==
  [pc : {"idle", "ask", "plan", "notes", "runs", "title"}, row : RowType, keeps : BOOLEAN,
   fresh : BOOLEAN, ask : Nat, resume : Sids, knows : SUBSET Nat, omits : SUBSET Nat,
   told : SUBSET Requests, names : BOOLEAN]

SessionType ==
  [there : BOOLEAN, base : Nat, knows : SUBSET Nat, omits : SUBSET Nat,
   told : SUBSET Requests]

RequestType == [status : {"none", "waits", "ended", "reported"}, post : Nat]
CountType == [turns : 0..MaxTurns, faults : Nat, changes : Nat]

\* The types, but for how many versions and messages there may be.
Typed ==
  /\ conv \in RowType /\ turn \in TurnType
  /\ last \in Nat /\ good \subseteq Messages /\ lost \subseteq Requests /\ ends \in Nat
  /\ sessions \in [1..MaxTurns -> SessionType]
  /\ req \in [Requests -> RequestType]
  /\ folding \in [ver : Nat \cup {None}, rows : SUBSET Nat]
  /\ count \in CountType
  /\ turn.pc # "idle" => count.turns > 0
  /\ turn.pc \in {"plan", "notes", "runs"} => turn.ask \in Messages

LEMMA NewIs ==
  /\ NewConversation \in RowType /\ NoTurn \in TurnType /\ NotFolding \in [ver : Nat \cup {None}, rows : SUBSET Nat]
  /\ NoTurn.pc = "idle" /\ NoTurn.row = NewConversation /\ NoTurn.told = {}
  /\ NewConversation.thru = 0 /\ NewConversation.sid = None
BY DEF NewConversation, NoTurn, NotFolding, RowType, TurnType, Sids

LEMMA TypedInit == ASSUME Init PROVE Typed
BY ConstantsAssumption, NewIs
DEF Init, Typed, SessionType, RequestType, CountType, Messages

-----------------------------------------------------------------------------
(* What each step of a turn does to the conversation and to itself.        *)

LEMMA BeginDoes ==
  ASSUME Typed, NEW keeps \in BOOLEAN, NEW fresh \in BOOLEAN, Begin(keeps, fresh)
  PROVE  /\ turn.pc = "idle"
         /\ conv' = IF fresh THEN [conv EXCEPT !.sid = None] ELSE conv
         /\ conv' \in RowType
         /\ turn' \in TurnType
         /\ turn'.pc = "ask" /\ turn'.row = conv' /\ turn'.keeps = keeps /\ turn'.fresh = fresh
         /\ turn'.told = {} /\ turn'.resume = None /\ turn'.ask = 0
         /\ good' = IF fresh THEN {} ELSE good
         /\ count' \in CountType /\ count'.turns = count.turns + 1 /\ count'.faults = count.faults
         /\ UNCHANGED <<last, sessions, req, folding, lost, ends>>
<1>1. conv' = IF fresh THEN [conv EXCEPT !.sid = None] ELSE conv
  BY DEF Begin
<1>2. conv' \in RowType
  BY <1>1 DEF Typed, RowType, Sids
<1>3. turn' = [NoTurn EXCEPT !.pc = "ask", !.row = conv', !.keeps = keeps, !.fresh = fresh]
  BY DEF Begin
<1>4. /\ turn' \in TurnType
      /\ turn'.pc = "ask" /\ turn'.row = conv' /\ turn'.keeps = keeps /\ turn'.fresh = fresh
      /\ turn'.told = {} /\ turn'.resume = None /\ turn'.ask = 0
  <2> HIDE DEF RowType
  <2> QED BY <1>2, <1>3 DEF NoTurn, TurnType, Sids
<1>5. count' \in CountType /\ count'.turns = count.turns + 1 /\ count'.faults = count.faults
  <2>1. PICK n \in {0, 1} : count' = [count EXCEPT !.turns = count.turns + 1, !.changes = count.changes + n]
    BY DEF Begin
  <2>2. count.turns + 1 \in 0..MaxTurns
    BY ConstantsAssumption DEF Begin, Typed, CountType
  <2>3. count.changes + n \in Nat
    BY DEF Typed, CountType
  <2> QED BY <2>1, <2>2, <2>3 DEF Typed, CountType
<1> QED BY <1>1, <1>2, <1>4, <1>5 DEF Begin, work

LEMMA AskDoes ==
  ASSUME Typed, Ask
  PROVE  /\ turn.pc = "ask" /\ last' = last + 1
         /\ turn' \in TurnType
         /\ turn'.pc = "plan" /\ turn'.ask = last + 1
         /\ turn'.row = turn.row /\ turn'.keeps = turn.keeps /\ turn'.fresh = turn.fresh
         /\ turn'.resume = turn.resume /\ turn'.told = turn.told
         /\ turn'.knows = turn.knows /\ turn'.omits = turn.omits
         /\ UNCHANGED <<conv, sessions, req, folding, good, lost, ends, count>>
<1>1. PICK b \in BOOLEAN : b = (~turn.row.answered /\ turn.row.title = "default")
  OBVIOUS
<1>2. turn' = [turn EXCEPT !.pc = "plan", !.ask = last + 1, !.names = b]
  BY <1>1 DEF Ask
<1>3. turn \in TurnType /\ last + 1 \in Nat
  BY DEF Typed
<1>4. turn' \in TurnType
  <2> HIDE DEF RowType
  <2> QED BY <1>2, <1>3 DEF TurnType
<1>5. /\ turn'.pc = "plan" /\ turn'.ask = last + 1
      /\ turn'.row = turn.row /\ turn'.keeps = turn.keeps /\ turn'.fresh = turn.fresh
      /\ turn'.resume = turn.resume /\ turn'.told = turn.told
      /\ turn'.knows = turn.knows /\ turn'.omits = turn.omits
  BY <1>2, <1>3 DEF TurnType
<1>6. /\ turn.pc = "ask" /\ last' = last + 1
      /\ UNCHANGED <<conv, sessions, req, folding, good, lost, ends, count>>
  BY DEF Ask, work, history
<1> QED BY <1>4, <1>5, <1>6

LEMMA PlanDoes ==
  ASSUME Typed, Plan
  PROVE  /\ turn.pc = "plan" /\ turn'.pc = "notes"
         /\ turn' \in TurnType
         /\ turn'.row = turn.row /\ turn'.keeps = turn.keeps /\ turn'.fresh = turn.fresh
         /\ turn'.ask = turn.ask /\ turn'.told = turn.told
         /\ IF Resumable(turn)
              THEN /\ turn'.resume = turn.row.sid
                   /\ turn'.knows = sessions[turn.row.sid].knows
                   /\ turn'.omits = sessions[turn.row.sid].omits
            ELSE turn.keeps /\ ~turn.fresh =>
                   /\ turn'.resume = turn.resume
                   /\ turn.row.folds \cup SinceSummary(turn) \subseteq turn'.knows \cup turn'.omits
         /\ ~Resumable(turn) => turn'.resume = turn.resume
         /\ UNCHANGED <<conv, last, sessions, req, folding, good, lost, ends, count>>
<1>1. turn \in TurnType /\ turn.row \in RowType
  BY DEF Typed, TurnType
<1>2. CASE Resumable(turn)
  <2>1. turn.row.sid \in 1..MaxTurns /\ sessions[turn.row.sid] \in SessionType
    BY <1>1, <1>2 DEF Resumable, RowType, Sids, Typed
  <2>2. turn' = [turn EXCEPT !.pc = "notes", !.resume = turn.row.sid,
                             !.knows = sessions[turn.row.sid].knows,
                             !.omits = sessions[turn.row.sid].omits]
    BY <1>2 DEF Plan
  <2>3. turn.row.sid \in Sids /\ sessions[turn.row.sid].knows \subseteq Nat
        /\ sessions[turn.row.sid].omits \subseteq Nat
    BY <2>1 DEF Sids, SessionType
  <2> QED BY <1>1, <1>2, <2>2, <2>3 DEF Plan, TurnType, work, history
<1>3. CASE ~Resumable(turn) /\ turn.keeps /\ ~turn.fresh
  <2> DEFINE since == SinceSummary(turn)
             old == Older(since)
  <2>1. turn' = [turn EXCEPT !.pc = "notes", !.knows = turn.row.folds \cup (since \ old), !.omits = old]
    BY <1>3 DEF Plan
  <2>2. since \subseteq Nat /\ old \subseteq since
    BY DEF SinceSummary, Messages, Older
  <2>3. turn.row.folds \subseteq Nat
    BY <1>1 DEF RowType
  <2> HIDE DEF old
  <2>4. turn.row.folds \cup (since \ old) \subseteq Nat /\ old \subseteq Nat
    BY <2>2, <2>3
  <2>5. turn'.knows = turn.row.folds \cup (since \ old) /\ turn'.omits = old
    BY <1>1, <2>1 DEF TurnType
  <2>6. turn.row.folds \cup since \subseteq turn'.knows \cup turn'.omits
    BY <2>5
  <2> HIDE DEF since
  <2>7. turn' \in TurnType
    <3> HIDE DEF RowType
    <3> QED BY <1>1, <2>1, <2>4 DEF TurnType
  <2>8. /\ turn'.pc = "notes" /\ turn'.row = turn.row /\ turn'.keeps = turn.keeps
        /\ turn'.fresh = turn.fresh /\ turn'.ask = turn.ask /\ turn'.told = turn.told
        /\ turn'.resume = turn.resume
    BY <1>1, <2>1 DEF TurnType
  <2> QED BY <1>3, <2>6, <2>7, <2>8 DEF Plan, work, history, since
<1>4. CASE ~Resumable(turn) /\ ~(turn.keeps /\ ~turn.fresh)
  <2>1. turn' = [turn EXCEPT !.pc = "notes"]
    BY <1>4 DEF Plan
  <2> QED BY <1>1, <1>4, <2>1 DEF Plan, TurnType, work, history
<1> QED BY <1>2, <1>3, <1>4

LEMMA NotesDoes ==
  ASSUME Typed, Notes
  PROVE  /\ turn.pc = "notes" /\ turn'.pc = "runs"
         /\ turn' \in TurnType
         /\ turn'.row = turn.row /\ turn'.keeps = turn.keeps /\ turn'.fresh = turn.fresh
         /\ turn'.ask = turn.ask /\ turn'.resume = turn.resume
         /\ turn'.knows = turn.knows /\ turn'.omits = turn.omits
         /\ turn'.told = Unreported
         /\ req' \in [Requests -> RequestType]
         /\ \A r \in Requests : r \notin Unreported => req'[r] = req[r]
         /\ UNCHANGED <<conv, last, sessions, folding, good, lost, ends, count>>
<1>1. turn' = [turn EXCEPT !.pc = "runs", !.told = Unreported]
  BY DEF Notes, Told
<1>2. Unreported \subseteq Requests
  BY DEF Unreported
<1>3. req' \in [Requests -> RequestType] /\ \A r \in Requests : r \notin Unreported => req'[r] = req[r]
  BY DEF Notes, Typed, RequestType
<1> HIDE DEF RowType, Unreported
<1> QED BY <1>1, <1>2, <1>3 DEF Notes, Typed, TurnType, work, history

\* The session a turn that is answered goes on in.
SessionOf(t) == IF t.resume # None THEN t.resume ELSE count.turns

LEMMA RecordedDoes ==
  ASSUME Typed, NEW sid \in Sids, Recorded(turn, sid)
  PROVE  /\ last' = last + 1 /\ ends' = ends + 1
         /\ conv' \in RowType
         /\ conv'.sid = sid /\ conv'.sver = turn.row.ver
         /\ conv'.ver = conv.ver /\ conv'.thru = conv.thru /\ conv'.folds = conv.folds
         /\ conv'.cost = conv.cost + 1 /\ conv'.title = conv.title
<1>1. conv' = [conv EXCEPT !.sid = sid, !.sver = turn.row.ver, !.cost = conv.cost + 1,
                           !.answered = TRUE]
  BY DEF Recorded, BuiltFrom, CostWith
<1>2. turn.row.ver \in Nat /\ conv.cost + 1 \in Nat /\ conv \in RowType
  BY DEF Typed, TurnType, RowType
<1>3. conv' \in RowType
  BY <1>1, <1>2 DEF RowType
<1> QED BY <1>1, <1>2, <1>3 DEF Recorded, RowType

LEMMA AnswerDoes ==
  ASSUME Typed, Answer
  PROVE  /\ turn.pc = "runs" /\ turn'.pc = "title" /\ turn' \in TurnType
         /\ turn'.row = turn.row /\ turn'.told = turn.told
         /\ turn'.fresh = turn.fresh /\ turn'.keeps = turn.keeps
         /\ last' = last + 1 /\ ends' = ends + 1
         /\ conv' \in RowType
         /\ conv'.sid = IF turn.keeps THEN SessionOf(turn) ELSE None
         /\ conv'.sver = turn.row.ver
         /\ conv'.ver = conv.ver /\ conv'.thru = conv.thru /\ conv'.folds = conv.folds
         /\ conv'.cost = conv.cost + 1 /\ conv'.title = conv.title
         /\ SessionOf(turn) \in 1..MaxTurns
         /\ sessions' \in [1..MaxTurns -> SessionType]
         /\ \A s \in 1..MaxTurns : s # SessionOf(turn) => sessions'[s] = sessions[s]
         /\ sessions'[SessionOf(turn)].base =
              IF turn.resume # None THEN sessions[SessionOf(turn)].base ELSE turn.row.ver
         /\ sessions'[SessionOf(turn)].knows = turn.knows \cup {turn.ask, last + 1}
         /\ sessions'[SessionOf(turn)].omits = turn.omits
         /\ sessions'[SessionOf(turn)].told =
              turn.told \cup (IF turn.resume # None THEN sessions[SessionOf(turn)].told ELSE {})
         /\ good' = good \cup {turn.ask, last + 1}
         /\ UNCHANGED <<req, folding, lost, count>>
<1> DEFINE sid == SessionOf(turn)
<1>1. turn \in TurnType /\ turn.row \in RowType /\ turn.pc = "runs"
  BY DEF Typed, TurnType, Answer
<1>2. sid \in 1..MaxTurns
  BY <1>1, ConstantsAssumption DEF SessionOf, Typed, CountType, TurnType, Sids
<1>3. Recorded(turn, IF turn.keeps THEN sid ELSE None)
  BY DEF Answer, SessionOf
<1>4. (IF turn.keeps THEN sid ELSE None) \in Sids
  BY <1>2 DEF Sids
<1>5. turn' = [turn EXCEPT !.pc = "title"]
  BY DEF Answer
<1>6. /\ turn'.pc = "title" /\ turn' \in TurnType /\ turn'.row = turn.row /\ turn'.told = turn.told
      /\ turn'.fresh = turn.fresh /\ turn'.keeps = turn.keeps
  <2> HIDE DEF RowType
  <2> QED BY <1>1, <1>5 DEF TurnType
<1> DEFINE base == IF turn.resume # None THEN sessions[sid].base ELSE turn.row.ver
           knows == turn.knows \cup {turn.ask, last + 1}
           told == turn.told \cup (IF turn.resume # None THEN sessions[sid].told ELSE {})
           new == [there |-> TRUE, base |-> base, knows |-> knows, omits |-> turn.omits,
                   told |-> told]
<1>7. sessions' = [sessions EXCEPT ![sid] = new]
  BY DEF Answer, SessionOf
<1>8. new \in SessionType
  <2>1. sessions[sid] \in SessionType
    BY <1>2 DEF Typed
  <2>2. base \in Nat
    BY <1>1, <2>1 DEF SessionType, RowType
  <2>3. knows \subseteq Nat /\ turn.omits \subseteq Nat
    BY <1>1 DEF TurnType, Typed
  <2>4. told \subseteq Requests
    BY <1>1, <2>1 DEF SessionType, TurnType
  <2> HIDE DEF base, knows, told
  <2> QED BY <2>2, <2>3, <2>4 DEF SessionType
<1>9. /\ sessions' \in [1..MaxTurns -> SessionType] /\ sessions'[sid] = new
      /\ \A s \in 1..MaxTurns : s # sid => sessions'[s] = sessions[s]
  <2> HIDE DEF new, sid
  <2> QED BY <1>2, <1>7, <1>8 DEF Typed
<1>10. new.base = base /\ new.knows = knows /\ new.omits = turn.omits /\ new.told = told
  OBVIOUS
<1>11. good' = good \cup {turn.ask, last + 1} /\ UNCHANGED <<req, folding, lost, count>>
  BY DEF Answer
<1> HIDE DEF new
<1> QED BY <1>1, <1>2, <1>3, <1>4, <1>6, <1>9, <1>10, <1>11, RecordedDoes

LEMMA FailTurnDoes ==
  ASSUME Typed, FailTurn
  PROVE  /\ turn.pc = "runs" /\ turn'.pc = "title" /\ turn' \in TurnType
         /\ turn'.row = turn.row /\ turn'.told = turn.told
         /\ turn'.fresh = turn.fresh /\ turn'.keeps = turn.keeps
         /\ last' = last + 1 /\ ends' = ends + 1
         /\ conv' \in RowType
         /\ conv'.sid \in {conv.sid, None}
         /\ conv'.ver = conv.ver /\ conv'.thru = conv.thru /\ conv'.folds = conv.folds
         /\ conv'.cost = conv.cost + 1 /\ conv'.title = conv.title
         /\ lost' = lost \cup turn.told
         /\ count' \in CountType /\ count'.faults > 0 /\ count'.turns = count.turns
         /\ UNCHANGED <<sessions, req, folding, good>>
<1>1. turn \in TurnType /\ conv \in RowType
  BY DEF Typed
<1>2. (IF turn.keeps THEN conv.sid ELSE None) \in Sids
  BY <1>1 DEF RowType, Sids
<1>3. Recorded(turn, IF turn.keeps THEN conv.sid ELSE None)
  BY DEF FailTurn
<1>4. turn' = [turn EXCEPT !.pc = "title"]
  BY DEF FailTurn
<1>5. /\ turn'.pc = "title" /\ turn' \in TurnType /\ turn'.row = turn.row /\ turn'.told = turn.told
      /\ turn'.fresh = turn.fresh /\ turn'.keeps = turn.keeps
  <2> HIDE DEF RowType
  <2> QED BY <1>1, <1>4 DEF TurnType
<1>6. count' \in CountType /\ count'.faults > 0 /\ count'.turns = count.turns
  BY DEF FailTurn, Fault, Counted, Typed, CountType
<1> QED BY <1>2, <1>3, <1>5, <1>6, RecordedDoes DEF FailTurn

\* A name for the conversation, made or chosen, changes nothing else of it.
LEMMA TitleDoes ==
  ASSUME Typed, Title \/ Rename
  PROVE  /\ conv' \in RowType
         /\ conv'.sid = conv.sid /\ conv'.sver = conv.sver /\ conv'.ver = conv.ver
         /\ conv'.thru = conv.thru /\ conv'.folds = conv.folds /\ conv'.cost = conv.cost
         /\ conv.title = "own" => conv'.title = "own"
         /\ (turn' = NoTurn /\ turn.pc = "title") \/ turn' = turn
         /\ UNCHANGED <<last, sessions, req, folding, good, lost, ends, count>>
<1>1. conv \in RowType
  BY DEF Typed
<1>2. \/ conv' = conv
      \/ conv' = [conv EXCEPT !.title = "made"] /\ conv.title = "default"
      \/ conv' = [conv EXCEPT !.title = "own"]
  BY DEF Title, Rename
<1>3. /\ conv' \in RowType
      /\ conv'.sid = conv.sid /\ conv'.sver = conv.sver /\ conv'.ver = conv.ver
      /\ conv'.thru = conv.thru /\ conv'.folds = conv.folds /\ conv'.cost = conv.cost
      /\ conv.title = "own" => conv'.title = "own"
  BY <1>1, <1>2 DEF RowType
<1> QED BY <1>3 DEF Title, Rename, work, history

LEMMA DiesDoes ==
  ASSUME Typed, TurnDies
  PROVE  /\ turn' = NoTurn /\ turn.pc # "idle"
         /\ lost' = IF turn.pc = "title" THEN lost ELSE lost \cup turn.told
         /\ count' \in CountType /\ count'.faults > 0 /\ count'.turns = count.turns
         /\ UNCHANGED <<conv, last, sessions, req, folding, good, ends>>
BY DEF TurnDies, Fault, Counted, Typed, CountType, work

LEMMA RequestsDo ==
  ASSUME Typed, NEW r \in Requests, Submit(r) \/ RequestEnds(r) \/ Post(r)
  PROVE  /\ req' \in [Requests -> RequestType]
         /\ \A q \in Requests : req'[q].status = "reported" => req[q].status = "reported"
         /\ last' \in {last, last + 1}
         /\ UNCHANGED <<conv, sessions, turn, folding, good, lost, ends, count>>
<1>1. last \in Nat /\ req[r] \in RequestType
  BY DEF Typed
<1>2. PICK x \in RequestType : /\ req' = [req EXCEPT ![r] = x]
                               /\ x.status = "reported" => req[r].status = "reported"
  <2>1. CASE Submit(r)
    <3>1. [req[r] EXCEPT !.status = "waits"] \in RequestType
      BY <1>1 DEF RequestType
    <3> QED BY <1>1, <2>1, <3>1 DEF Submit, RequestType
  <2>2. CASE RequestEnds(r)
    <3>1. [req[r] EXCEPT !.status = "ended"] \in RequestType
      BY <1>1 DEF RequestType
    <3> QED BY <1>1, <2>2, <3>1 DEF RequestEnds, RequestType
  <2>3. CASE Post(r)
    <3>1. [req[r] EXCEPT !.post = last + 1] \in RequestType
      BY <1>1 DEF RequestType
    <3> QED BY <1>1, <2>3, <3>1 DEF Post, RequestType
  <2> QED BY <2>1, <2>2, <2>3
<1>3. req' \in [Requests -> RequestType]
  <2> HIDE DEF RequestType
  <2> QED BY <1>2 DEF Typed
<1>4. \A q \in Requests : req'[q].status = "reported" => req[q].status = "reported"
  BY <1>2 DEF Typed
<1> QED BY <1>3, <1>4 DEF Submit, RequestEnds, Post, work, history

LEMMA TranscriptsDo ==
  ASSUME Typed, LoseTranscripts
  PROVE  /\ sessions' \in [1..MaxTurns -> SessionType]
         /\ \A s \in 1..MaxTurns :
              /\ sessions'[s].base = sessions[s].base /\ sessions'[s].knows = sessions[s].knows
              /\ sessions'[s].omits = sessions[s].omits /\ sessions'[s].told = sessions[s].told
         /\ count' \in CountType /\ count'.faults > 0 /\ count'.turns = count.turns
         /\ UNCHANGED <<conv, last, turn, req, folding, good, lost, ends>>
<1>1. DOMAIN sessions = 1..MaxTurns
  BY DEF Typed
<1>2. sessions' = [s \in 1..MaxTurns |-> [sessions[s] EXCEPT !.there = FALSE]]
  BY <1>1 DEF LoseTranscripts
<1>3. ASSUME NEW s \in 1..MaxTurns
      PROVE  /\ sessions'[s] \in SessionType
             /\ sessions'[s].base = sessions[s].base /\ sessions'[s].knows = sessions[s].knows
             /\ sessions'[s].omits = sessions[s].omits /\ sessions'[s].told = sessions[s].told
  <2>1. sessions[s] \in SessionType
    BY DEF Typed
  <2>2. sessions'[s] = [sessions[s] EXCEPT !.there = FALSE]
    BY <1>2
  <2> QED BY <2>1, <2>2 DEF SessionType
<1>4. sessions' \in [1..MaxTurns -> SessionType]
  <2> HIDE DEF SessionType
  <2> QED BY <1>2, <1>3
<1>5. count' \in CountType /\ count'.faults > 0 /\ count'.turns = count.turns
  BY DEF LoseTranscripts, Fault, Counted, Typed, CountType
<1> QED BY <1>3, <1>4, <1>5 DEF LoseTranscripts, work, history

-----------------------------------------------------------------------------
(* The summary.                                                            *)

\* Of an interval, all but the newest are an interval that begins where it did.
LEMMA OlderIs ==
  ASSUME NEW a \in Nat, NEW b \in Nat
  PROVE  Older({m \in 1..b : m > a}) = {m \in 1..b : m > a /\ m + Recent <= b}
<1> DEFINE rows == {m \in 1..b : m > a}
<1>1. ASSUME NEW m \in rows
      PROVE  Cardinality({n \in rows : n > m}) = b - m
  <2>1. {n \in rows : n > m} = (m + 1)..b
    OBVIOUS
  <2>2. m \in Nat /\ m <= b
    OBVIOUS
  <2>3. Cardinality((m + 1)..b) = IF m + 1 > b THEN 0 ELSE b - (m + 1) + 1
    BY <2>2, FS_Interval
  <2>4. (IF m + 1 > b THEN 0 ELSE b - (m + 1) + 1) = b - m
    BY <2>2
  <2> QED BY <2>1, <2>3, <2>4
<1>2. \A m \in rows : Cardinality({n \in rows : n > m}) >= Recent <=> m + Recent <= b
  BY <1>1, ConstantsAssumption
<1>3. Older(rows) = {m \in rows : m + Recent <= b}
  BY <1>2 DEF Older
<1> QED BY <1>3

LEMMA NewestIs ==
  ASSUME NEW a \in Nat, NEW k \in Nat, a < k
  PROVE  Newest((a + 1)..k) = k
<1>1. k \in (a + 1)..k /\ \A n \in (a + 1)..k : n <= k
  OBVIOUS
<1>2. \A m \in (a + 1)..k : (\A n \in (a + 1)..k : n <= m) => m = k
  OBVIOUS
<1> QED BY <1>1, <1>2 DEF Newest

\* The summary covers what it was made from, and what a job read of the version the
\* conversation still has begins where that one ends.
Folded ==
  /\ conv.thru <= last
  /\ NothingForgotten
  /\ folding.ver = conv.ver =>
       \E k \in Nat : conv.thru < k /\ k <= last /\ folding.rows = (conv.thru + 1)..k

LEMMA FoldReadDoes ==
  ASSUME Typed, Folded, NEW v \in Versions, FoldRead(v)
  PROVE  /\ Folded' /\ folding' \in [ver : Nat \cup {None}, rows : SUBSET Nat]
         /\ UNCHANGED <<conv, last, sessions, turn, req, good, lost, ends, count>>
<1>1. /\ UNCHANGED <<conv, last, sessions, turn, req, good, lost, ends, count>>
      /\ conv.ver \in Nat /\ conv.thru \in Nat /\ last \in Nat
  BY DEF FoldRead, history, Typed, RowType
<1> DEFINE rows == {m \in 1..last : m > conv.thru}
<1>2. CASE folding' = folding
  BY <1>1, <1>2 DEF Folded, NothingForgotten, Typed
<1>3. CASE folding' # folding
  <2>1. conv.ver = v /\ Older(rows) # {} /\ folding' = [ver |-> v, rows |-> Older(rows)]
    BY <1>3 DEF FoldRead, Messages
  <2> DEFINE k == last - Recent
  <2>2. Older(rows) = {m \in 1..last : m > conv.thru /\ m + Recent <= last}
    BY <1>1, OlderIs
  <2>3. k \in Nat /\ conv.thru < k /\ k <= last
    <3>1. PICK m \in 1..last : m > conv.thru /\ m + Recent <= last
      BY <2>1, <2>2
    <3> QED BY <1>1, <3>1, ConstantsAssumption
  <2>4. Older(rows) = (conv.thru + 1)..k
    <3>1. ASSUME NEW m \in Nat
          PROVE  m \in 1..last /\ m > conv.thru /\ m + Recent <= last <=> m \in (conv.thru + 1)..k
      BY <1>1, <2>3, ConstantsAssumption
    <3>2. \A m \in (conv.thru + 1)..k : m \in Nat
      BY <1>1
    <3>3. {m \in 1..last : m > conv.thru /\ m + Recent <= last} = (conv.thru + 1)..k
      <4> HIDE DEF k
      <4>1. \A m \in 1..last : m \in Nat
        OBVIOUS
      <4> QED BY <3>1, <3>2, <4>1
    <3> QED BY <2>2, <3>3
  <2> HIDE DEF k, rows
  <2>5. Folded'
    BY <1>1, <2>1, <2>3, <2>4 DEF Folded, NothingForgotten
  <2>6. Older(rows) \subseteq Nat
    BY <1>1, <2>3, <2>4
  <2>7. folding' \in [ver : Nat \cup {None}, rows : SUBSET Nat]
    BY <1>1, <2>1, <2>6
  <2> QED BY <1>1, <2>5, <2>7
<1> QED BY <1>2, <1>3

LEMMA FoldWriteDoes ==
  ASSUME Typed, Folded, FoldWrite
  PROVE  /\ Folded' /\ folding' = NotFolding
         /\ conv' \in RowType /\ conv'.sid = conv.sid /\ conv'.sver = conv.sver
         /\ conv'.title = conv.title
         /\ conv'.cost - conv'.ver = conv.cost - conv.ver
         /\ UNCHANGED <<last, sessions, turn, req, good, lost, ends, count>>
<1>1. /\ UNCHANGED <<last, sessions, turn, req, good, lost, ends, count>>
      /\ folding' = NotFolding /\ last \in Nat
      /\ conv \in RowType /\ conv.ver \in Nat /\ conv.thru \in Nat /\ conv.cost \in Nat
  BY DEF FoldWrite, history, Typed, RowType
<1>2. CASE conv.ver # folding.ver
  <2>1. conv' = conv
    BY <1>2 DEF FoldWrite
  <2>2. folding'.ver # conv'.ver
    BY <1>1, <2>1, ConstantsAssumption DEF NotFolding
  <2> QED BY <1>1, <2>1, <2>2 DEF Folded, NothingForgotten
<1>3. CASE conv.ver = folding.ver
  <2>1. PICK k \in Nat : conv.thru < k /\ k <= last /\ folding.rows = (conv.thru + 1)..k
    BY <1>3 DEF Folded
  <2>2. FoldedTo(folding.rows) = k
    BY <1>1, <2>1, NewestIs DEF FoldedTo
  <2> DEFINE folds == conv.folds \cup folding.rows
  <2>3. conv' = [conv EXCEPT !.folds = folds, !.ver = conv.ver + 1, !.thru = k, !.cost = conv.cost + 1]
    BY <1>3, <2>2 DEF FoldWrite
  <2>4. folds \subseteq Nat /\ conv.ver + 1 \in Nat /\ conv.cost + 1 \in Nat
    BY <1>1, <2>1 DEF RowType
  <2>5. 1..k \subseteq folds
    BY <1>1, <2>1 DEF Folded, NothingForgotten
  <2>9. k \in Nat
    BY <2>1
  <2> HIDE DEF folds
  <2>6. /\ conv' \in RowType /\ conv'.sid = conv.sid /\ conv'.sver = conv.sver
        /\ conv'.title = conv.title
        /\ conv'.ver = conv.ver + 1 /\ conv'.thru = k /\ conv'.folds = folds
        /\ conv'.cost = conv.cost + 1
    BY <1>1, <2>3, <2>4, <2>9 DEF RowType
  <2>7. folding'.ver # conv'.ver
    BY <1>1, <2>6, ConstantsAssumption DEF NotFolding
  <2>8. Folded'
    BY <1>1, <2>1, <2>5, <2>6, <2>7 DEF Folded, NothingForgotten
  <2> QED BY <1>1, <2>6, <2>8
<1> QED BY <1>2, <1>3

LEMMA FoldStopsDoes ==
  ASSUME Typed, Folded, FoldStops
  PROVE  /\ Folded' /\ folding' = NotFolding
         /\ count' \in CountType /\ count'.faults > 0 /\ count'.turns = count.turns
         /\ UNCHANGED <<conv, last, sessions, turn, req, good, lost, ends>>
<1>1. /\ folding' = NotFolding
      /\ count' \in CountType /\ count'.faults > 0 /\ count'.turns = count.turns
      /\ UNCHANGED <<conv, last, sessions, turn, req, good, lost, ends>>
  BY DEF FoldStops, Fault, Counted, history, Typed, CountType
<1>2. folding'.ver # conv'.ver
  BY <1>1, ConstantsAssumption DEF NotFolding, Typed, RowType
<1> QED BY <1>1, <1>2 DEF Folded, NothingForgotten

LEMMA FoldedInit == ASSUME Init PROVE Folded
BY ConstantsAssumption DEF Init, Folded, NothingForgotten, NewConversation, NotFolding

\* The summary goes on covering what it does while only messages are added.
LEMMA FoldedOn ==
  ASSUME Typed, Folded, folding' = folding, last' \in {last, last + 1},
         conv'.ver = conv.ver, conv'.thru = conv.thru, conv'.folds = conv.folds
  PROVE  Folded'
<1>1. last \in Nat /\ conv.thru \in Nat
  BY DEF Typed, RowType
<1>2. conv'.thru <= last' /\ NothingForgotten'
  BY <1>1 DEF Folded, NothingForgotten
<1>3. ASSUME folding'.ver = conv'.ver
      PROVE  \E k \in Nat : conv'.thru < k /\ k <= last' /\ folding'.rows = (conv'.thru + 1)..k
  <2>1. PICK k \in Nat : conv.thru < k /\ k <= last /\ folding.rows = (conv.thru + 1)..k
    BY <1>3 DEF Folded
  <2> QED BY <1>1, <2>1
<1> QED BY <1>2, <1>3 DEF Folded

-----------------------------------------------------------------------------
(* Types and the summary, together.                                        *)

LEMMA TypedStep ==
  ASSUME Typed, Folded, [Next]_vars
  PROVE  Typed' /\ Folded'
<1> USE DEF Typed, Messages
<1> HIDE DEF RowType, TurnType, SessionType, RequestType, CountType
<1>1. ASSUME NEW keeps \in BOOLEAN, NEW fresh \in BOOLEAN, Begin(keeps, fresh)
      PROVE  Typed' /\ Folded'
  <2>1. conv'.ver = conv.ver /\ conv'.thru = conv.thru /\ conv'.folds = conv.folds
    BY <1>1, BeginDoes DEF RowType
  <2>2. count'.turns > 0
    BY <1>1, BeginDoes DEF CountType
  <2> QED BY <1>1, <2>1, <2>2, BeginDoes, FoldedOn
<1>2. ASSUME Ask PROVE Typed' /\ Folded'
  <2>1. last' = last + 1 /\ turn'.ask = last + 1
        /\ UNCHANGED <<conv, sessions, req, folding, good, lost, ends, count>>
    BY <1>2, AskDoes
  <2>2. good' \subseteq 1..last' /\ last' \in Nat /\ turn'.ask \in 1..last'
    BY <2>1
  <2>3. turn.pc = "ask" /\ turn' \in TurnType
    BY <1>2, AskDoes
  <2> QED BY <2>1, <2>2, <2>3, FoldedOn
<1>3. ASSUME Plan PROVE Typed' /\ Folded'
  <2>1. /\ UNCHANGED <<conv, last, sessions, req, folding, good, lost, ends, count>>
        /\ turn' \in TurnType /\ turn.pc = "plan" /\ turn'.ask = turn.ask
    BY <1>3, PlanDoes
  <2> QED BY <2>1, FoldedOn
<1>4. ASSUME Notes PROVE Typed' /\ Folded'
  <2>1. /\ UNCHANGED <<conv, last, sessions, folding, good, lost, ends, count>>
        /\ turn' \in TurnType /\ turn.pc = "notes" /\ req' \in [Requests -> RequestType]
        /\ turn'.ask = turn.ask
    BY <1>4, NotesDoes
  <2> QED BY <2>1, FoldedOn
<1>5. ASSUME Answer PROVE Typed' /\ Folded'
  <2>1. /\ turn.pc = "runs" /\ turn' \in TurnType /\ conv' \in RowType
        /\ last' = last + 1 /\ ends' = ends + 1
        /\ conv'.ver = conv.ver /\ conv'.thru = conv.thru /\ conv'.folds = conv.folds
        /\ sessions' \in [1..MaxTurns -> SessionType]
        /\ good' = good \cup {turn.ask, last + 1}
        /\ UNCHANGED <<req, folding, lost, count>>
    BY <1>5, AnswerDoes
  <2>2. turn'.pc = "title" /\ turn.ask \in 1..last /\ last \in Nat
    BY <1>5, <2>1, AnswerDoes
  <2>3. good' \subseteq 1..last' /\ last' \in Nat /\ ends' \in Nat
    <3>1. good \subseteq 1..last /\ ends \in Nat
      OBVIOUS
    <3>2. 1..last \subseteq 1..(last + 1) /\ {turn.ask, last + 1} \subseteq 1..(last + 1)
      BY <2>2
    <3>3. ends' \in Nat /\ last' \in Nat
      BY <2>1, <2>2, <3>1
    <3>4. good' = good \cup {turn.ask, last + 1} /\ last' = last + 1
      BY <2>1
    <3>5. good' \subseteq 1..(last + 1)
      BY <3>1, <3>2, <3>4
    <3> QED BY <3>3, <3>4, <3>5
  <2>4. Folded'
    BY <2>1, FoldedOn
  <2> QED BY <2>1, <2>2, <2>3, <2>4
<1>6. ASSUME FailTurn PROVE Typed' /\ Folded'
  <2>1. /\ turn.pc = "runs" /\ turn'.pc = "title" /\ turn' \in TurnType /\ conv' \in RowType
        /\ last' = last + 1 /\ ends' = ends + 1
        /\ conv'.ver = conv.ver /\ conv'.thru = conv.thru /\ conv'.folds = conv.folds
        /\ lost' = lost \cup turn.told /\ count' \in CountType /\ count'.turns = count.turns
        /\ UNCHANGED <<sessions, req, folding, good>>
    BY <1>6, FailTurnDoes
  <2>2. lost' \subseteq Requests
    BY <2>1 DEF TurnType
  <2>3. good' \subseteq 1..last' /\ last' \in Nat
    BY <2>1
  <2> QED BY <2>1, <2>2, <2>3, FoldedOn
<1>7. ASSUME Title \/ Rename PROVE Typed' /\ Folded'
  BY <1>7, TitleDoes, NewIs, FoldedOn
<1>8. ASSUME TurnDies PROVE Typed' /\ Folded'
  <2>1. lost' \subseteq Requests
    BY <1>8, DiesDoes DEF TurnType
  <2> QED BY <1>8, <2>1, DiesDoes, NewIs, FoldedOn
<1>9. ASSUME NEW r \in Requests, Submit(r) \/ RequestEnds(r) \/ Post(r) PROVE Typed' /\ Folded'
  <2>1. last' \in Nat /\ 1..last \subseteq 1..last'
    BY <1>9, RequestsDo
  <2>2. UNCHANGED <<conv, sessions, turn, folding, good, lost, ends, count>>
    BY <1>9, RequestsDo
  <2>3. Folded'
    BY <1>9, <2>2, RequestsDo, FoldedOn
  <2> QED BY <1>9, <2>1, <2>2, <2>3, RequestsDo
<1>10. ASSUME LoseTranscripts PROVE Typed' /\ Folded'
  BY <1>10, TranscriptsDo, FoldedOn
<1>11. ASSUME NEW v \in Versions, FoldRead(v) PROVE Typed' /\ Folded'
  BY <1>11, FoldReadDoes
<1>12. ASSUME FoldWrite PROVE Typed' /\ Folded'
  BY <1>12, FoldWriteDoes, NewIs
<1>13. ASSUME FoldStops PROVE Typed' /\ Folded'
  BY <1>13, FoldStopsDoes, NewIs
<1>14. ASSUME UNCHANGED <<conv, last, sessions, turn, req, folding, good, lost, ends, count>>
       PROVE Typed' /\ Folded'
  BY <1>14, FoldedOn
<1>15. ASSUME NEW v \in Versions, Expire(v) PROVE Typed' /\ Folded'
  BY <1>14, <1>15 DEF Expire, history
<1>16. CASE UNCHANGED vars
  BY <1>14, <1>16 DEF vars, work, history
<1> QED
  BY <1>1, <1>2, <1>3, <1>4, <1>5, <1>6, <1>7, <1>8, <1>9, <1>10, <1>11, <1>12, <1>13, <1>15,
     <1>16
  DEF Next

THEOREM TypedAlways == Spec => [](Typed /\ Folded)
<1>1. Init => Typed /\ Folded
  BY TypedInit, FoldedInit
<1>2. Typed /\ Folded /\ [Next]_vars => (Typed /\ Folded)'
  BY TypedStep
<1> QED BY <1>1, <1>2, PTL DEF Spec

\* What the summary is taken to cover, it was made from, however summary jobs and turns
\* interleave, fail and are run again.
THEOREM NothingIsForgotten == Spec => []NothingForgotten
<1>1. Folded => NothingForgotten
  BY DEF Folded
<1> QED BY <1>1, TypedAlways, PTL

-----------------------------------------------------------------------------
(* Cost and title.                                                         *)

LEMMA CostStep ==
  ASSUME Typed, Folded, CostIsWhole, [Next]_vars
  PROVE  CostIsWhole'
<1>1. conv.cost \in Nat /\ conv.ver \in Nat /\ ends \in Nat /\ conv.cost = ends + conv.ver
  BY DEF Typed, RowType, CostIsWhole
<1>2. ASSUME UNCHANGED ends, conv'.cost = conv.cost, conv'.ver = conv.ver PROVE CostIsWhole'
  BY <1>1, <1>2 DEF CostIsWhole
<1>3. ASSUME NEW keeps \in BOOLEAN, NEW fresh \in BOOLEAN, Begin(keeps, fresh) PROVE CostIsWhole'
  <2>1. conv'.cost = conv.cost /\ conv'.ver = conv.ver
    BY <1>3, BeginDoes DEF Typed, RowType
  <2> QED BY <1>2, <1>3, <2>1, BeginDoes
<1>4. ASSUME Answer \/ FailTurn PROVE CostIsWhole'
  <2>1. conv'.cost = conv.cost + 1 /\ ends' = ends + 1 /\ conv'.ver = conv.ver
    BY <1>4, AnswerDoes, FailTurnDoes
  <2> QED BY <1>1, <2>1 DEF CostIsWhole
<1>5. ASSUME FoldWrite PROVE CostIsWhole'
  <2>1. conv'.cost - conv'.ver = conv.cost - conv.ver /\ ends' = ends /\ conv' \in RowType
    BY <1>5, FoldWriteDoes
  <2>2. conv'.cost \in Nat /\ conv'.ver \in Nat
    BY <2>1 DEF RowType
  <2> QED BY <1>1, <2>1, <2>2 DEF CostIsWhole
<1>6. ASSUME Title \/ Rename PROVE CostIsWhole'
  BY <1>2, <1>6, TitleDoes
<1>7. ASSUME UNCHANGED <<conv, ends>> PROVE CostIsWhole'
  BY <1>2, <1>7
<1> QED
  BY <1>3, <1>4, <1>5, <1>6, <1>7
  DEF Next, Ask, Plan, Notes, TurnDies, Submit, RequestEnds, Post, LoseTranscripts, FoldRead,
      FoldStops, Expire, work, history, vars

\* The cost of every turn and every summary is in the total, whoever adds it meanwhile.
THEOREM NoCostIsLost == Spec => []CostIsWhole
<1>1. Init => CostIsWhole
  BY DEF Init, CostIsWhole, NewConversation
<1>2. Typed /\ Folded /\ CostIsWhole /\ [Next]_vars => CostIsWhole'
  BY CostStep
<1> QED BY <1>1, <1>2, TypedAlways, PTL DEF Spec

LEMMA TitleStep ==
  ASSUME Typed, Folded, [Next]_vars, conv.title = "own"
  PROVE  conv'.title = "own"
<1>1. ASSUME NEW keeps \in BOOLEAN, NEW fresh \in BOOLEAN, Begin(keeps, fresh) PROVE conv'.title = "own"
  BY <1>1, BeginDoes DEF Typed, RowType
<1>2. ASSUME Answer \/ FailTurn \/ FoldWrite \/ Title \/ Rename PROVE conv'.title = "own"
  BY <1>2, AnswerDoes, FailTurnDoes, FoldWriteDoes, TitleDoes
<1>3. ASSUME UNCHANGED conv PROVE conv'.title = "own"
  BY <1>3
<1> QED
  BY <1>1, <1>2, <1>3
  DEF Next, Ask, Plan, Notes, TurnDies, Submit, RequestEnds, Post, LoseTranscripts, FoldRead,
      FoldStops, Expire, work, history, vars

\* A title somebody chose while a turn was making one is not replaced by it.
THEOREM OwnTitle == Spec => OwnTitleStays
<1>1. Typed /\ Folded /\ [Next]_vars => [conv.title = "own" => conv'.title = "own"]_vars
  BY TitleStep
<1> QED BY <1>1, TypedAlways, PTL DEF Spec, OwnTitleStays

-----------------------------------------------------------------------------
(* What is told of requests.                                               *)

\* A session that is named was begun by a turn that began.
Begun ==
  /\ conv.sid # None => conv.sid <= count.turns
  /\ turn.row.sid # None => turn.row.sid <= count.turns
  /\ turn.resume # None => turn.resume <= count.turns

LEMMA BegunStep ==
  ASSUME Typed, Folded, Begun, [Next]_vars
  PROVE  Begun'
<1>1. /\ count.turns \in Nat /\ turn \in TurnType /\ conv.sid \in Sids /\ turn.row.sid \in Sids
      /\ turn.resume \in Sids /\ None \notin Nat
  <2>1. turn \in TurnType /\ conv \in RowType /\ count \in CountType
    BY DEF Typed
  <2>2. turn.row \in RowType /\ turn.resume \in Sids
    BY <2>1 DEF TurnType
  <2>3. turn.row.sid \in Sids /\ conv.sid \in Sids /\ count.turns \in Nat
    BY <2>1, <2>2 DEF RowType, CountType
  <2> QED BY <2>1, <2>2, <2>3, ConstantsAssumption
<1>2. ASSUME NEW keeps \in BOOLEAN, NEW fresh \in BOOLEAN, Begin(keeps, fresh) PROVE Begun'
  <2>1. /\ conv'.sid \in {conv.sid, None} /\ turn'.row.sid = conv'.sid /\ turn'.resume = None
        /\ count'.turns = count.turns + 1
    BY <1>2, BeginDoes DEF Typed, RowType
  <2> QED BY <1>1, <2>1 DEF Begun, Sids
<1>3. ASSUME Ask PROVE Begun'
  BY <1>3, AskDoes DEF Begun
<1>4. ASSUME Plan PROVE Begun'
  <2>1. turn'.resume \in {turn.row.sid, turn.resume} /\ turn'.row = turn.row
        /\ UNCHANGED <<conv, count>>
    BY <1>4, PlanDoes
  <2> QED BY <2>1 DEF Begun
<1>5. ASSUME Notes PROVE Begun'
  BY <1>5, NotesDoes DEF Begun
<1>6. ASSUME Answer \/ FailTurn PROVE Begun'
  <2>1. /\ conv'.sid \in {conv.sid, turn.resume, count.turns, None} /\ turn'.row = turn.row
        /\ count'.turns = count.turns
    BY <1>6, AnswerDoes, FailTurnDoes DEF SessionOf
  <2>2. turn'.resume = turn.resume
    <3>1. turn' = [turn EXCEPT !.pc = "title"]
      BY <1>6 DEF Answer, FailTurn
    <3> QED BY <1>1, <3>1 DEF TurnType
  <2> QED BY <1>1, <2>1, <2>2 DEF Begun
<1>7. ASSUME Title \/ Rename PROVE Begun'
  BY <1>7, TitleDoes, NewIs DEF Begun, NoTurn
<1>8. ASSUME TurnDies PROVE Begun'
  BY <1>8, DiesDoes, NewIs DEF Begun, NoTurn
<1>9. ASSUME conv'.sid = conv.sid, UNCHANGED turn, count'.turns = count.turns PROVE Begun'
  BY <1>9 DEF Begun
<1>10. ASSUME FoldWrite PROVE Begun'
  BY <1>9, <1>10, FoldWriteDoes
<1>11. ASSUME FoldStops PROVE Begun'
  BY <1>9, <1>11, FoldStopsDoes
<1>12. ASSUME LoseTranscripts PROVE Begun'
  BY <1>9, <1>12, TranscriptsDo
<1> QED
  BY <1>2, <1>3, <1>4, <1>5, <1>6, <1>7, <1>8, <1>9, <1>10, <1>11, <1>12
  DEF Next, Submit, RequestEnds, Post, FoldRead, Expire, work, history, vars

THEOREM BegunAlways == Spec => []Begun
<1>1. Init => Begun
  BY NewIs DEF Init, Begun, NoTurn
<1>2. Typed /\ Folded /\ Begun /\ [Next]_vars => Begun'
  BY BegunStep
<1> QED BY <1>1, <1>2, TypedAlways, PTL DEF Spec

SaidBefore(r) == r \in lost \/ \E s \in 1..MaxTurns : r \in sessions[s].told

\* What was reported is with the turn under way, or was said; the session a turn would
\* begin has been told nothing yet.
Tells ==
  /\ \A r \in Requests : req[r].status = "reported" => r \in turn.told \/ SaidBefore(r)
  /\ turn.pc \in {"ask", "plan", "notes"} => turn.told = {}
  /\ turn.pc = "idle" => turn.told = {}
  /\ turn.pc = "title" => \A r \in turn.told : SaidBefore(r)
  /\ turn.pc \in {"ask", "plan"} => turn.resume = None
  /\ \A s \in 1..MaxTurns :
       s > count.turns \/ (s = count.turns /\ turn.pc \in {"ask", "plan", "notes", "runs"}
                           /\ turn.resume = None)
       => sessions[s].told = {}

LEMMA TellsStep ==
  ASSUME Typed, Folded, Begun, Tells, [Next]_vars
  PROVE  Tells'
<1>1. turn \in TurnType /\ count.turns \in Nat /\ turn.told \subseteq Requests
      /\ DOMAIN sessions = 1..MaxTurns
  BY DEF Typed, TurnType, CountType
<1>2. ASSUME NEW keeps \in BOOLEAN, NEW fresh \in BOOLEAN, Begin(keeps, fresh) PROVE Tells'
  <2>1. /\ turn.pc = "idle" /\ turn'.pc = "ask" /\ turn'.told = {} /\ turn'.resume = None
        /\ count'.turns = count.turns + 1
        /\ UNCHANGED <<sessions, req, lost>>
    BY <1>2, BeginDoes
  <2>2. \A s \in 1..MaxTurns : s >= count'.turns => s > count.turns
    BY <1>1, <2>1
  <2> QED BY <1>1, <2>1, <2>2 DEF Tells, SaidBefore
<1>3. ASSUME Ask PROVE Tells'
  <2>1. /\ turn.pc = "ask" /\ turn'.pc = "plan" /\ turn'.told = turn.told
        /\ turn'.resume = turn.resume
        /\ UNCHANGED <<sessions, req, lost, count>>
    BY <1>3, AskDoes
  <2> QED BY <2>1 DEF Tells, SaidBefore
<1>4. ASSUME Plan PROVE Tells'
  <2>1. /\ turn.pc = "plan" /\ turn'.pc = "notes" /\ turn'.told = turn.told
        /\ UNCHANGED <<sessions, req, lost, count>>
    BY <1>4, PlanDoes
  <2> QED BY <2>1 DEF Tells, SaidBefore
<1>5. ASSUME Notes PROVE Tells'
  <2>1. /\ turn.pc = "notes" /\ turn'.pc = "runs" /\ turn'.told = Unreported
        /\ turn'.resume = turn.resume
        /\ \A r \in Requests : r \notin Unreported => req'[r] = req[r]
        /\ UNCHANGED <<sessions, lost, count>>
    BY <1>5, NotesDoes
  <2> QED BY <2>1 DEF Tells, SaidBefore
<1>6. ASSUME Answer PROVE Tells'
  <2> DEFINE sid == SessionOf(turn)
  <2>1. /\ turn.pc = "runs" /\ turn'.pc = "title" /\ turn'.told = turn.told
        /\ sid \in 1..MaxTurns
        /\ \A s \in 1..MaxTurns : s # sid => sessions'[s] = sessions[s]
        /\ sessions'[sid].told =
              turn.told \cup (IF turn.resume # None THEN sessions[sid].told ELSE {})
        /\ UNCHANGED <<req, lost, count>>
    BY <1>6, AnswerDoes
  <2>2. turn.resume = None => sessions[sid].told = {}
    BY <2>1 DEF Tells, SessionOf
  <2>3. sessions'[sid].told = turn.told \cup sessions[sid].told
    BY <2>1, <2>2
  <2>4. sid > count.turns => sessions'[sid].told = {}
    <3>1. CASE turn.resume = None
      BY <1>1, <3>1 DEF SessionOf
    <3>2. CASE turn.resume # None
      BY <1>1, <2>1, <3>2 DEF Begun, SessionOf, TurnType, Sids
    <3> QED BY <3>1, <3>2
  <2> HIDE DEF sid
  <2>5. \A r \in turn.told : SaidBefore(r)'
    BY <2>1, <2>3 DEF SaidBefore
  <2>6. \A r \in Requests : SaidBefore(r) => SaidBefore(r)'
    BY <2>1, <2>3 DEF SaidBefore
  <2> QED BY <1>1, <2>1, <2>4, <2>5, <2>6 DEF Tells
<1>7. ASSUME FailTurn PROVE Tells'
  <2>1. /\ turn.pc = "runs" /\ turn'.pc = "title" /\ turn'.told = turn.told
        /\ lost' = lost \cup turn.told /\ count'.turns = count.turns
        /\ UNCHANGED <<sessions, req>>
    BY <1>7, FailTurnDoes
  <2> QED BY <2>1 DEF Tells, SaidBefore
<1>8. ASSUME Title \/ Rename PROVE Tells'
  <2>1. /\ (turn' = NoTurn /\ turn.pc = "title") \/ turn' = turn
        /\ UNCHANGED <<sessions, req, lost, count>>
    BY <1>8, TitleDoes
  <2> QED BY <2>1, NewIs DEF Tells, SaidBefore
<1>9. ASSUME TurnDies PROVE Tells'
  <2>1. /\ turn' = NoTurn /\ count'.turns = count.turns
        /\ lost' = IF turn.pc = "title" THEN lost ELSE lost \cup turn.told
        /\ UNCHANGED <<sessions, req>>
    BY <1>9, DiesDoes
  <2> QED BY <2>1, NewIs DEF Tells, SaidBefore
<1>10. ASSUME NEW r \in Requests, Submit(r) \/ RequestEnds(r) \/ Post(r) PROVE Tells'
  <2>1. /\ \A q \in Requests : req'[q].status = "reported" => req[q].status = "reported"
        /\ UNCHANGED <<sessions, turn, lost, count>>
    BY <1>10, RequestsDo
  <2> QED BY <2>1 DEF Tells, SaidBefore
<1>11. ASSUME LoseTranscripts PROVE Tells'
  <2>1. /\ \A s \in 1..MaxTurns : sessions'[s].told = sessions[s].told
        /\ count'.turns = count.turns
        /\ UNCHANGED <<turn, req, lost>>
    BY <1>11, TranscriptsDo
  <2> QED BY <2>1 DEF Tells, SaidBefore
<1>12. ASSUME UNCHANGED <<sessions, turn, req, lost>>, count'.turns = count.turns PROVE Tells'
  BY <1>12 DEF Tells, SaidBefore
<1>13. ASSUME FoldStops PROVE Tells'
  BY <1>12, <1>13, FoldStopsDoes
<1> QED
  BY <1>2, <1>3, <1>4, <1>5, <1>6, <1>7, <1>8, <1>9, <1>10, <1>11, <1>12, <1>13
  DEF Next, FoldRead, FoldWrite, Expire, work, history, vars

THEOREM TellsAlways == Spec => []Tells
<1>1. Init => Tells
  BY NewIs, ConstantsAssumption DEF Init, Tells, SaidBefore
<1>2. Typed /\ Folded /\ Begun /\ Tells /\ [Next]_vars => Tells'
  BY TellsStep
<1> QED BY <1>1, <1>2, TypedAlways, BegunAlways, PTL DEF Spec

\* A request marked as reported is told to a turn under way or was told to one that was
\* answered, for any number of requests; only a turn that fails loses it.
THEOREM EndingsAreTold == Spec => []EndingsTold
<1>1. Typed /\ Tells => EndingsTold
  BY DEF Typed, Tells, SaidBefore, EndingsTold
<1> QED BY <1>1, TypedAlways, TellsAlways, PTL

-----------------------------------------------------------------------------
(* What the model knows, and the summary its session was started from.     *)

\* A turn works on the session and the version of it that the row still names, and on a
\* summary that covers what it says.
Loaded ==
  /\ turn.pc \in {"ask", "plan", "notes", "runs"} =>
       turn.row.sid = conv.sid /\ turn.row.sver = conv.sver
  /\ 1..turn.row.thru \subseteq turn.row.folds

\* The session of the row knows the answered turns, and so does the turn under way.
Known ==
  /\ conv.sid # None => good \subseteq sessions[conv.sid].knows \cup sessions[conv.sid].omits
  /\ turn.pc \in {"notes", "runs"} /\ turn.keeps => good \subseteq turn.knows \cup turn.omits
  /\ turn.pc \in {"ask", "plan", "notes", "runs"} /\ turn.fresh => good = {}
  /\ turn.pc \in {"plan", "notes", "runs"} => turn.ask \notin good

Matches ==
  count.faults = 0 =>
    /\ SessionMatches
    /\ turn.pc \in {"notes", "runs"} /\ turn.resume # None =>
         sessions[turn.resume].base = turn.row.ver

Memorised == Loaded /\ Known /\ Matches

LEMMA MemorisedStep ==
  ASSUME Typed, Folded, Tells, Memorised, [Next]_vars
  PROVE  Memorised'
<1>1. /\ turn \in TurnType /\ conv \in RowType /\ turn.row \in RowType /\ last \in Nat
      /\ count.faults \in Nat /\ good \subseteq 1..last
      /\ conv.sid \in Sids /\ None \notin Nat
  BY ConstantsAssumption DEF Typed, RowType, TurnType, CountType, Messages
<1>2. ASSUME NEW keeps \in BOOLEAN, NEW fresh \in BOOLEAN, Begin(keeps, fresh) PROVE Memorised'
  <2>1. /\ conv' = IF fresh THEN [conv EXCEPT !.sid = None] ELSE conv
        /\ turn'.pc = "ask" /\ turn'.row = conv' /\ turn'.fresh = fresh
        /\ good' = IF fresh THEN {} ELSE good
        /\ count'.faults = count.faults /\ UNCHANGED sessions
    BY <1>2, BeginDoes
  <2>2. conv'.thru = conv.thru /\ conv'.folds = conv.folds /\ conv'.sver = conv.sver
        /\ conv'.sid = IF fresh THEN None ELSE conv.sid
    BY <1>1, <2>1 DEF RowType
  <2>3. Loaded'
    BY <2>1, <2>2 DEF Loaded, Folded, NothingForgotten
  <2>4. Known'
    BY <2>1, <2>2 DEF Memorised, Known
  <2>5. Matches'
    BY <2>1, <2>2 DEF Memorised, Matches, SessionMatches
  <2> QED BY <2>3, <2>4, <2>5 DEF Memorised
<1>3. ASSUME Ask PROVE Memorised'
  <2>1. /\ turn.pc = "ask" /\ turn'.pc = "plan" /\ turn'.ask = last + 1
        /\ turn'.row = turn.row /\ turn'.fresh = turn.fresh
        /\ UNCHANGED <<conv, sessions, good, count>>
    BY <1>3, AskDoes
  <2>2. last + 1 \notin good
    BY <1>1
  <2> QED BY <2>1, <2>2 DEF Memorised, Loaded, Known, Matches, SessionMatches
<1>4. ASSUME Plan PROVE Memorised'
  <2>1. /\ turn.pc = "plan" /\ turn'.pc = "notes"
        /\ turn'.row = turn.row /\ turn'.keeps = turn.keeps /\ turn'.fresh = turn.fresh
        /\ turn'.ask = turn.ask
        /\ UNCHANGED <<conv, sessions, good, count>>
    BY <1>4, PlanDoes
  <2>2. Loaded'
    BY <2>1 DEF Memorised, Loaded
  <2>3. turn.row.sid = conv.sid /\ turn.row.sver = conv.sver
    BY <2>1 DEF Memorised, Loaded
  <2>4. ASSUME turn.keeps PROVE good \subseteq turn'.knows \cup turn'.omits
    <3>1. CASE turn.fresh
      BY <2>1, <3>1 DEF Memorised, Known
    <3>2. CASE ~turn.fresh /\ Resumable(turn)
      <4>1. turn'.knows = sessions[turn.row.sid].knows /\ turn'.omits = sessions[turn.row.sid].omits
        BY <1>4, <3>2, PlanDoes
      <4>2. turn.row.sid # None
        BY <3>2 DEF Resumable
      <4> QED BY <2>3, <4>1, <4>2 DEF Memorised, Known
    <3>3. CASE ~turn.fresh /\ ~Resumable(turn)
      <4>1. turn.row.folds \cup SinceSummary(turn) \subseteq turn'.knows \cup turn'.omits
        BY <1>4, <2>4, <3>3, PlanDoes
      <4>2. turn.ask \notin good /\ 1..turn.row.thru \subseteq turn.row.folds
        BY <2>1 DEF Memorised, Known, Loaded
      <4>3. turn.row.thru \in Nat
        BY <1>1 DEF RowType
      <4>4. ASSUME NEW m \in good PROVE m \in turn.row.folds \cup SinceSummary(turn)
        <5>1. m \in 1..last /\ m # turn.ask
          BY <1>1, <4>2
        <5>2. m <= turn.row.thru \/ m > turn.row.thru
          BY <4>3, <5>1
        <5> QED BY <4>2, <4>3, <5>1, <5>2 DEF SinceSummary, Messages
      <4> QED BY <4>1, <4>4
    <3> QED BY <3>1, <3>2, <3>3
  <2>5. Known'
    BY <2>1, <2>4 DEF Memorised, Known
  <2>6. Matches'
    <3>1. CASE Resumable(turn)
      <4>1. turn'.resume = turn.row.sid /\ turn.row.sid # None /\ turn.row.sver = turn.row.ver
        BY <1>4, <3>1, PlanDoes DEF Resumable
      <4> QED BY <2>1, <2>3, <4>1 DEF Memorised, Matches, SessionMatches
    <3>2. CASE ~Resumable(turn)
      <4>1. turn'.resume = None
        BY <1>4, <2>1, <3>2, PlanDoes DEF Tells
      <4> QED BY <2>1, <4>1 DEF Memorised, Matches, SessionMatches
    <3> QED BY <3>1, <3>2
  <2> QED BY <2>2, <2>5, <2>6 DEF Memorised
<1>5. ASSUME Notes PROVE Memorised'
  <2>1. /\ turn.pc = "notes" /\ turn'.pc = "runs"
        /\ turn'.row = turn.row /\ turn'.keeps = turn.keeps /\ turn'.fresh = turn.fresh
        /\ turn'.ask = turn.ask /\ turn'.resume = turn.resume
        /\ turn'.knows = turn.knows /\ turn'.omits = turn.omits
        /\ UNCHANGED <<conv, sessions, good, count>>
    BY <1>5, NotesDoes
  <2> QED BY <2>1 DEF Memorised, Loaded, Known, Matches, SessionMatches
<1>6. ASSUME Answer PROVE Memorised'
  <2> DEFINE sid == SessionOf(turn)
  <2>1. /\ turn.pc = "runs" /\ turn'.pc = "title" /\ turn'.row = turn.row
        /\ conv'.sid = IF turn.keeps THEN sid ELSE None
        /\ conv'.sver = turn.row.ver
        /\ sessions'[sid].base = IF turn.resume # None THEN sessions[sid].base ELSE turn.row.ver
        /\ sessions'[sid].knows = turn.knows \cup {turn.ask, last + 1}
        /\ sessions'[sid].omits = turn.omits
        /\ good' = good \cup {turn.ask, last + 1}
        /\ UNCHANGED count
    BY <1>6, AnswerDoes
  <2>2. Loaded'
    BY <2>1 DEF Memorised, Loaded
  <2>3. turn.keeps => good \subseteq turn.knows \cup turn.omits
    BY <2>1 DEF Memorised, Known
  <2>4. turn.resume # None => sid = turn.resume
    BY DEF SessionOf
  <2> HIDE DEF sid
  <2>5. Known'
    BY <2>1, <2>3 DEF Known
  <2>6. Matches'
    BY <2>1, <2>4 DEF Memorised, Matches, SessionMatches
  <2> QED BY <2>2, <2>5, <2>6 DEF Memorised
<1>7. ASSUME FailTurn PROVE Memorised'
  <2>1. /\ turn'.pc = "title" /\ turn'.row = turn.row
        /\ conv'.sid \in {conv.sid, None} /\ count'.faults > 0
        /\ UNCHANGED <<sessions, good>>
    BY <1>7, FailTurnDoes
  <2>2. Matches'
    BY <2>1 DEF Matches
  <2> QED BY <2>1, <2>2 DEF Memorised, Loaded, Known
\* The turn goes on as it was, or is over.
<1>8. ASSUME conv'.sid = conv.sid, conv'.sver = conv.sver, turn' = turn \/ turn' = NoTurn,
             count'.faults = count.faults \/ count'.faults > 0, UNCHANGED <<sessions, good>>
      PROVE  Memorised'
  <2>1. NoTurn.pc = "idle" /\ NoTurn.row.thru = 0
    BY NewIs
  <2>2. Loaded'
    BY <1>8, <2>1 DEF Memorised, Loaded
  <2>3. Known'
    BY <1>8, <2>1 DEF Memorised, Known
  <2>4. Matches'
    BY <1>1, <1>8, <2>1 DEF Memorised, Matches, SessionMatches
  <2> QED BY <2>2, <2>3, <2>4 DEF Memorised
<1>9. ASSUME Title \/ Rename PROVE Memorised'
  BY <1>8, <1>9, TitleDoes
<1>10. ASSUME TurnDies PROVE Memorised'
  BY <1>8, <1>10, DiesDoes
<1>11. ASSUME FoldWrite PROVE Memorised'
  BY <1>8, <1>11, FoldWriteDoes
<1>12. ASSUME FoldStops PROVE Memorised'
  BY <1>8, <1>12, FoldStopsDoes
<1>13. ASSUME LoseTranscripts PROVE Memorised'
  <2>1. /\ \A s \in 1..MaxTurns :
             /\ sessions'[s].base = sessions[s].base /\ sessions'[s].knows = sessions[s].knows
             /\ sessions'[s].omits = sessions[s].omits
        /\ count'.faults > 0 /\ UNCHANGED <<conv, turn, good>>
    BY <1>13, TranscriptsDo
  <2>2. conv.sid # None => conv.sid \in 1..MaxTurns
    BY <1>1 DEF Sids
  <2> QED BY <2>1, <2>2 DEF Memorised, Loaded, Known, Matches
<1> QED
  BY <1>2, <1>3, <1>4, <1>5, <1>6, <1>7, <1>8, <1>9, <1>10, <1>11, <1>12, <1>13
  DEF Next, Submit, RequestEnds, Post, FoldRead, Expire, work, history, vars

THEOREM MemorisedAlways == Spec => []Memorised
<1>1. Init => Memorised
  BY NewIs
  DEF Init, Memorised, Loaded, Known, Matches, SessionMatches
<1>2. Typed /\ Folded /\ Tells /\ Memorised /\ [Next]_vars => Memorised'
  BY MemorisedStep
<1> QED BY <1>1, <1>2, TypedAlways, TellsAlways, PTL DEF Spec

\* A turn that runs knows every message of the turns answered before it, or is told how
\* many it does not, whatever was summarized since it loaded the conversation.
THEOREM PastIsKnown == Spec => []KnowsPast
<1>1. Memorised => KnowsPast
  BY DEF Memorised, Known, KnowsPast
<1> QED BY <1>1, MemorisedAlways, PTL

\* While nothing fails, the session of a conversation was started from the summary version
\* the row says, although summaries are written while turns run.
THEOREM SessionIsOfItsSummary == Spec => []SessionOfItsSummary
<1>1. Memorised => SessionOfItsSummary
  BY DEF Memorised, Matches, SessionOfItsSummary
<1> QED BY <1>1, MemorisedAlways, PTL
=============================================================================
