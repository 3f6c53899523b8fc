------------------------------ MODULE Memory ------------------------------
(***************************************************************************)
(* What the model knows of one conversation (services/chat.py,             *)
(* services/conversation_memory.py, agent/history.py): each turn resumes   *)
(* the agent session of the turn before, or starts a new one from the      *)
(* summary and the recent messages; a job in the worker folds what is old  *)
(* into the summary meanwhile; requests that ended are told before the     *)
(* next message.  A turn works on the conversation as it loaded it.        *)
(*                                                                         *)
(* Messages are numbered as they are stored; one stands for as many tokens *)
(* as any other.  Turns of a conversation run one at a time (Turns).       *)
(***************************************************************************)
EXTENDS Naturals, FiniteSets

CONSTANTS
  Requests, None,
  Threshold,  \* summarize_after_tokens, in messages
  Recent,     \* how many of the newest stay verbatim; at least MIN_RECENT_MESSAGES
  MaxTurns,   \* bound on the turns
  MaxFaults,  \* bound on turns that fail or die, summaries and posts that fail or are lost
  MaxChanges  \* bound on turns with access lost or with history off

ASSUME ConstantsAssumption ==
  /\ None \notin Nat
  /\ Threshold \in Nat /\ Recent \in Nat /\ Recent >= 2
  /\ MaxTurns \in Nat /\ MaxFaults \in Nat /\ MaxChanges \in Nat

VARIABLES
  conv,   \* the conversation's row; folds: the messages its summary was made from
  last,   \* number of messages stored
  good,   \* those of turns answered since the last fresh start (history)
  sessions, \* by the number of the turn that began it: what an agent session knows
  turn,   \* the turn under way
  req,    \* each request: its status, the message that tells its ending, if posted
  jobs,   \* the summary job of each version, as the queue keeps it
  folding,  \* the summary job that runs: what it read
  lost,   \* requests told to a turn that failed (history)
  ends,   \* turns recorded (history)
  count   \* turns, faults and changes so far

work == <<jobs, folding>>
history == <<good, lost, ends>>
vars == <<conv, last, sessions, turn, req, work, history, count>>

Messages == 1..last
Versions == 0..(2 * MaxTurns + Cardinality(Requests))

Counted(kind, most) == count[kind] < most /\ count' = [count EXCEPT ![kind] = @ + 1]
Fault == Counted("faults", MaxFaults)

\* split_recent: all but the newest.
Older(rows) == {m \in rows : Cardinality({n \in rows : n > m}) >= Recent}

NewConversation ==
  [sid |-> None, sver |-> 0, ver |-> 0, thru |-> 0, folds |-> {}, cost |-> 0,
   answered |-> FALSE, title |-> "default"]

NoTurn == [pc |-> "idle", row |-> NewConversation, keeps |-> TRUE, fresh |-> FALSE, ask |-> 0,
           resume |-> None, knows |-> {}, omits |-> {}, told |-> {}, names |-> FALSE]

-----------------------------------------------------------------------------
(* A turn (chat._run_message, _run_admitted).                              *)

\* The conversation as loaded.  Who may read less than at their last message starts
\* afresh, and the session is forgotten at once.
Begin(keeps, fresh) ==
  /\ turn.pc = "idle" /\ count.turns < MaxTurns
  /\ count' = [count EXCEPT !.turns = @ + 1,
                            !.changes = @ + (IF fresh \/ ~keeps THEN 1 ELSE 0)]
  /\ count'.changes <= MaxChanges
  /\ conv' = IF fresh THEN [conv EXCEPT !.sid = None] ELSE conv
  /\ turn' = [NoTurn EXCEPT !.pc = "ask", !.row = conv', !.keeps = keeps, !.fresh = fresh]
  /\ good' = IF fresh THEN {} ELSE good
  /\ UNCHANGED <<last, sessions, req, work, lost, ends>>

\* _keep_message; the first turn starts to name its conversation.
Ask ==
  /\ turn.pc = "ask"
  /\ last' = last + 1
  /\ turn' = [turn EXCEPT !.pc = "plan", !.ask = last + 1,
                !.names = ~turn.row.answered /\ turn.row.title = "default"]
  /\ UNCHANGED <<conv, sessions, req, work, history, count>>

\* Mutant of SinceSummary: as far as the summary reaches now, not as the turn loaded it.
SinceNewest(t) == {m \in Messages \ {t.ask} : m > conv.thru}

\* messages_since_summary, from the row the turn loaded.
SinceSummary(t) == {m \in Messages \ {t.ask} : m > t.row.thru}

Resumable(t) ==
  /\ t.keeps /\ ~t.fresh /\ t.row.sid # None
  /\ sessions[t.row.sid].there
  /\ t.row.sver = t.row.ver

\* plan_turn: resume, or replay what is stored, or neither.
Plan ==
  /\ turn.pc = "plan"
  /\ turn' =
       IF Resumable(turn)
         THEN [turn EXCEPT !.pc = "notes", !.resume = turn.row.sid,
                           !.knows = sessions[turn.row.sid].knows,
                           !.omits = sessions[turn.row.sid].omits]
       ELSE IF turn.keeps /\ ~turn.fresh
         THEN [turn EXCEPT !.pc = "notes",
                 !.knows = turn.row.folds \cup (SinceSummary(turn) \ Older(SinceSummary(turn))),
                 !.omits = Older(SinceSummary(turn))]
       ELSE [turn EXCEPT !.pc = "notes"]
  /\ UNCHANGED <<conv, last, sessions, req, work, history, count>>

Unreported == {r \in Requests : req[r].status = "ended"}

\* Mutant of Told: only a session that is resumed still thinks the requests are waiting.
ToldIfResumed(t) == IF t.resume # None THEN Unreported ELSE {}

Told(t) == Unreported

\* _request_notes: marked as reported in a commit of its own.
Notes ==
  /\ turn.pc = "notes"
  /\ turn' = [turn EXCEPT !.pc = "runs", !.told = Told(turn)]
  /\ req' = [r \in Requests |->
       IF r \in Unreported THEN [req[r] EXCEPT !.status = "reported"] ELSE req[r]]
  /\ UNCHANGED <<conv, last, sessions, work, history, count>>

\* While it runs, a turn may submit a request.
Submit(r) ==
  /\ turn.pc = "runs" /\ req[r].status = "none"
  /\ req' = [req EXCEPT ![r].status = "waits"]
  /\ UNCHANGED <<conv, last, sessions, turn, work, history, count>>

\* Mutant of BuiltFrom: the version the summary has when the turn is recorded.
VersionNow(t) == conv.ver

\* plan.summary_version, captured when the turn began.
BuiltFrom(t) == t.row.ver

\* Mutant of CostWith: the total is written as it was read, plus the turn's own.
CostFromRead(t) == t.row.cost + 1

\* Added in SQL.
CostWith(t) == conv.cost + 1

\* The reply and the columns of the row, in one commit.
Recorded(t, sid) ==
  /\ last' = last + 1
  /\ conv' = [conv EXCEPT !.sid = sid, !.sver = BuiltFrom(t), !.cost = CostWith(t),
                          !.answered = TRUE]
  /\ ends' = ends + 1

\* after_turn, on the row as loaded: over the threshold, and something to fold.
Crowded(t) ==
  LET rows == {m \in 1..last' : m > t.row.thru}
  IN t.keeps /\ Cardinality(rows) > Threshold /\ Older(rows) # {}

\* A job whose id is queued, or whose result is still kept, is not queued again.
QueueSummary(t) ==
  jobs' = IF Crowded(t) /\ jobs[t.row.ver] = "none"
            THEN [jobs EXCEPT ![t.row.ver] = "queued"] ELSE jobs

\* The turn ends with the agent's result, which names its session.
Answer ==
  LET sid == IF turn.resume # None THEN turn.resume ELSE count.turns
  IN /\ turn.pc = "runs"
     /\ Recorded(turn, IF turn.keeps THEN sid ELSE None)
     /\ sessions' = [sessions EXCEPT ![sid] =
          [there |-> TRUE, base |-> IF turn.resume # None THEN @.base ELSE turn.row.ver,
           knows |-> turn.knows \cup {turn.ask, last + 1}, omits |-> turn.omits,
           told |-> turn.told \cup (IF turn.resume # None THEN @.told ELSE {})]]
     /\ good' = good \cup {turn.ask, last + 1}
     /\ turn' = [turn EXCEPT !.pc = "title"]
     /\ QueueSummary(turn)
     /\ UNCHANGED <<req, folding, lost, count>>

\* It fails, or is stopped, before the result: recorded as it is, and without a session
\* of its own the one of the row stays.
FailTurn ==
  /\ turn.pc = "runs" /\ Fault
  /\ Recorded(turn, IF turn.keeps THEN conv.sid ELSE None)
  /\ lost' = lost \cup turn.told
  /\ turn' = [turn EXCEPT !.pc = "title"]
  /\ QueueSummary(turn)
  /\ UNCHANGED <<sessions, req, folding, good>>

\* apply_title: unless it was renamed meanwhile, or no title was made.  What it cost is
\* left out.
Title ==
  /\ turn.pc = "title"
  /\ \/ turn.names /\ conv.title = "default"
        /\ conv' = [conv EXCEPT !.title = "made"]
     \/ UNCHANGED conv
  /\ turn' = NoTurn
  /\ UNCHANGED <<last, sessions, req, work, history, count>>

Rename ==
  /\ conv.title # "own"
  /\ conv' = [conv EXCEPT !.title = "own"]
  /\ UNCHANGED <<last, sessions, turn, req, work, history, count>>

\* The process dies: nothing more is recorded.
TurnDies ==
  /\ turn.pc # "idle" /\ Fault
  /\ turn' = NoTurn
  /\ lost' = IF turn.pc = "title" THEN lost ELSE lost \cup turn.told
  /\ UNCHANGED <<conv, last, sessions, req, work, good, ends>>

-----------------------------------------------------------------------------
(* Requests end in other processes; the message that says so is posted     *)
(* after that, or never (approvals.finished swallows errors).              *)

RequestEnds(r) ==
  /\ req[r].status = "waits"
  /\ req' = [req EXCEPT ![r].status = "ended"]
  /\ UNCHANGED <<conv, last, sessions, turn, work, history, count>>

Post(r) ==
  /\ req[r].status \in {"ended", "reported"} /\ req[r].post = 0
  /\ last' = last + 1
  /\ req' = [req EXCEPT ![r].post = last + 1]
  /\ UNCHANGED <<conv, sessions, turn, work, history, count>>

\* The volume of transcripts is lost, or the CLI cleans up.
LoseTranscripts ==
  /\ \E s \in DOMAIN sessions : sessions[s].there
  /\ Fault
  /\ sessions' = [s \in DOMAIN sessions |-> [sessions[s] EXCEPT !.there = FALSE]]
  /\ UNCHANGED <<conv, last, turn, req, work, history>>

-----------------------------------------------------------------------------
(* The summary job (conversation_memory.summarize).                        *)

NotFolding == [ver |-> None, rows |-> {}]

Settle(v) == jobs' = [jobs EXCEPT ![v] = "kept"]

FoldRead(v) ==
  /\ jobs[v] = "queued" /\ folding = NotFolding
  /\ LET older == Older({m \in Messages : m > conv.thru})
     IN IF conv.ver = v /\ older # {}
          THEN folding' = [ver |-> v, rows |-> older] /\ jobs' = [jobs EXCEPT ![v] = "runs"]
          ELSE Settle(v) /\ UNCHANGED folding
  /\ UNCHANGED <<conv, last, sessions, turn, req, history, count>>

Newest(S) == CHOOSE m \in S : \A n \in S : n <= m

\* Mutant of FoldedTo: the first of those kept verbatim is taken for folded.
FoldedTo1(rows) == Newest(rows) + 1

FoldedTo(rows) == Newest(rows)

\* Written only on the version that was read.
FoldWrite ==
  /\ folding # NotFolding
  /\ conv' = IF conv.ver = folding.ver
               THEN [conv EXCEPT !.folds = @ \cup folding.rows, !.ver = @ + 1,
                                 !.thru = FoldedTo(folding.rows), !.cost = @ + 1]
               ELSE conv
  /\ Settle(folding.ver) /\ folding' = NotFolding
  /\ UNCHANGED <<last, sessions, turn, req, history, count>>

\* The model call fails and the job with it, or its worker dies and it is queued again.
FoldStops ==
  /\ folding # NotFolding /\ Fault
  /\ \/ Settle(folding.ver)
     \/ jobs' = [jobs EXCEPT ![folding.ver] = "queued"]
  /\ folding' = NotFolding
  /\ UNCHANGED <<conv, last, sessions, turn, req, history>>

\* arq keeps a result for a while.
Expire(v) ==
  /\ jobs[v] = "kept"
  /\ jobs' = [jobs EXCEPT ![v] = "none"]
  /\ UNCHANGED <<conv, last, sessions, turn, req, folding, history, count>>

-----------------------------------------------------------------------------
Init ==
  /\ conv = NewConversation
  /\ last = 0 /\ good = {} /\ lost = {} /\ ends = 0
  /\ sessions = [s \in 1..MaxTurns |->
       [there |-> FALSE, base |-> 0, knows |-> {}, omits |-> {}, told |-> {}]]
  /\ turn = NoTurn
  /\ req = [r \in Requests |-> [status |-> "none", post |-> 0]]
  /\ jobs = [v \in Versions |-> "none"] /\ folding = NotFolding
  /\ count = [turns |-> 0, faults |-> 0, changes |-> 0]

Next ==
  \/ \E keeps, fresh \in BOOLEAN : Begin(keeps, fresh)
  \/ Ask \/ Plan \/ Notes \/ Answer \/ FailTurn \/ Title \/ Rename \/ TurnDies
  \/ \E r \in Requests : Submit(r) \/ RequestEnds(r) \/ Post(r)
  \/ LoseTranscripts
  \/ \E v \in Versions : FoldRead(v) \/ Expire(v)
  \/ FoldWrite \/ FoldStops

Spec == Init /\ [][Next]_vars

-----------------------------------------------------------------------------
(* Properties.                                                             *)

Row ==
  [sid : (1..MaxTurns) \cup {None}, sver : Versions, ver : Versions, thru : 0..last,
   folds : SUBSET Messages, cost : Nat, answered : BOOLEAN,
   title : {"default", "made", "own"}]

\* Every variable has its type, and the newest messages are not in the summary.
TypeOK ==
  /\ conv \in Row /\ turn.row \in Row
  /\ conv.thru > 0 => conv.thru + Recent <= last
  /\ last \in Nat /\ good \subseteq Messages /\ lost \subseteq Requests /\ ends \in Nat
  /\ sessions \in [1..MaxTurns -> [there : BOOLEAN, base : Versions,
                                  knows : SUBSET Messages,
                                  omits : SUBSET Messages, told : SUBSET Requests]]
  /\ turn \in [pc : {"idle", "ask", "plan", "notes", "runs", "title"}, row : Row,
               keeps : BOOLEAN, fresh : BOOLEAN, ask : 0..last,
               resume : (1..MaxTurns) \cup {None}, knows : SUBSET Messages,
               omits : SUBSET Messages, told : SUBSET Requests, names : BOOLEAN]
  /\ req \in [Requests -> [status : {"none", "waits", "ended", "reported"}, post : 0..last]]
  /\ jobs \in [Versions -> {"none", "queued", "runs", "kept"}]
  /\ folding \in [ver : Versions \cup {None}, rows : SUBSET Messages]
  /\ count \in [turns : 0..MaxTurns, faults : 0..MaxFaults, changes : 0..MaxChanges]

\* "The summary version the current SDK session was started from": what the row says of
\* its session is so.
SessionMatches == conv.sid # None => sessions[conv.sid].base = conv.sver

\* It is, as long as nothing failed, although summaries are written while turns run.
SessionOfItsSummary == count.faults = 0 => SessionMatches

\* What the summary is taken to cover, it was made from.
NothingForgotten == 1..conv.thru \subseteq conv.folds

\* A turn that runs knows every message of the turns answered before it, or is told how
\* many it does not: whatever was summarized since the turn loaded the conversation.
KnowsPast ==
  turn.pc = "runs" /\ turn.keeps /\ ~turn.fresh => good \subseteq turn.knows \cup turn.omits

\* A request marked as reported is told to a turn that runs or was answered; only a turn
\* that fails loses it.
EndingsTold == \A r \in Requests :
  req[r].status = "reported" =>
    r \in turn.told \cup lost \/ \E s \in DOMAIN sessions : r \in sessions[s].told

\* The cost of every turn and of every summary is in the total.
CostIsWhole == conv.cost = ends + conv.ver

\* A title somebody chose is never replaced by one that was made.
OwnTitleStays == [][conv.title = "own" => conv'.title = "own"]_vars
=============================================================================
