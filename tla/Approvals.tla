----------------------------- MODULE Approvals -----------------------------
(***************************************************************************)
(* Requests that wait for a person, from the turn that raises one to the   *)
(* run of its sealed input and the message that says how it ended          *)
(* (services/approvals.py, services/executor.py, models/approval.py).      *)
(*                                                                         *)
(* Every action is one database transaction, or one call outside the       *)
(* database, of one of the processes that touch a request: an API handler  *)
(* deciding it, the job that runs it, the sweep of every minute, and the   *)
(* people and admins around it.  What a process read earlier and acts on   *)
(* later is kept in its own local record, and a process may die between    *)
(* any two of its steps.                                                   *)
(*                                                                         *)
(* Time is the age of a row in its present status, in abstract ticks:      *)
(* `expires_at > now' is age < TTL, `decided_at < now - UNCLAIMED_AFTER'   *)
(* is age > UnclaimedAfter.  Ages stop at MaxAge, where every comparison   *)
(* has its final value.                                                    *)
(***************************************************************************)
EXTENDS Naturals, Sequences, DecisionRights

CONSTANTS
  Requests, People, Inputs,
  Handlers,        \* API requests being served at one time
  Executors,       \* jobs or tasks running at one time
  None,
  ExecutorMode,    \* settings.executor_mode: "queue" or "inline"
  ConfirmTTL, ApproverTTL, StuckAfter, UnclaimedAfter,
  RunLimit,        \* longest a claimed run lives: the job's timeout
  MaxAge,          \* where ages stop counting
  MaxFaults,       \* bound on crashes and lost calls
  Role, Named, StandIn, SoleSwitch,  \* the organisation, apart from who left
  Askers, Leavers, \* the people who chat, and those an admin may deactivate
  Changes          \* what else may change: {"pause", "service"} or less

ASSUME NoneAssumption ==
  /\ None \notin Inputs
  /\ None \notin People
  /\ None \notin Requests

ASSUME TimeAssumption ==
  /\ {ConfirmTTL, ApproverTTL, UnclaimedAfter, RunLimit} \subseteq Nat \ {0}
  /\ StuckAfter \in Nat /\ RunLimit <= StuckAfter
  /\ MaxAge \in Nat
  /\ \A limit \in {ConfirmTTL, ApproverTTL, UnclaimedAfter, StuckAfter} : limit < MaxAge
  /\ MaxFaults \in Nat

ASSUME ModeAssumption == ExecutorMode \in {"queue", "inline"}

ASSUME PeopleAssumption == Askers \subseteq People /\ Leavers \subseteq People

VARIABLES
  row,        \* the approvals table
  audited,    \* the approval.* audit entries of each request
  effects,    \* what the systems outside were made to do, in order
  posts,      \* outcomes posted into the request's conversation
  job,        \* the hand-over of a request to an executor
  handler, exec, sweep,  \* local state of the three kinds of process
  turns,      \* the people with a turn running
  active,     \* the people active in the organisation
  paused, inService,     \* the assistant, and the version asked in
  faults

outside == <<turns, active, paused, inService>>
vars == <<row, audited, effects, posts, job, handler, exec, sweep,
          turns, active, paused, inService, faults>>

Open == {"pending", "approved", "executing"}
Final == {"denied", "expired", "cancelled", "succeeded", "failed"}
Status == {"none"} \cup Open \cup Final

TTL(tier) == IF tier = "asker" THEN ConfirmTTL ELSE ApproverTTL

Org == [role |-> Role, active |-> active, named |-> Named,
        standIn |-> StandIn, soleSwitch |-> SoleSwitch]

Blank == [status |-> "none", tier |-> "asker", asker |-> None, sealed |-> None,
          hash |-> None, decidedBy |-> None, age |-> 0]
IdleHandler == [pc |-> "idle", req |-> None, by |-> None, verdict |-> None,
                edit |-> None]
IdleExec == [pc |-> "idle", req |-> None, input |-> None, ok |-> FALSE]
IdleSweep == [pc |-> "idle", stuck |-> {}, unclaimed |-> {}, left |-> {}]

Entry(what, input) == [what |-> what, input |-> input]
Audit(R, what) ==
  audited' = [r \in Requests |-> IF r \in R
                THEN audited[r] \cup {Entry(what, row[r].hash)}
                ELSE audited[r]]

\* The rows R moved to a status in one UPDATE.  Reaching a final one wipes the
\* sealed input in the same statement.
Moved(rows, R, to) ==
  [r \in Requests |-> IF r \in R
     THEN [rows[r] EXCEPT !.status = to, !.age = 0,
                          !.sealed = IF to \in Final THEN None ELSE @]
     ELSE rows[r]]

InStatus(s) == {r \in Requests : row[r].status = s}

-----------------------------------------------------------------------------
(* Raising a request: a turn, running since its asker was let in.          *)

StartTurn(u) ==
  /\ u \in (Askers \cap active) \ turns
  /\ ~paused /\ inService
  /\ turns' = turns \cup {u}
  /\ UNCHANGED <<row, audited, effects, posts, job, handler, exec, sweep,
                 active, paused, inService, faults>>

EndTurn(u) ==
  /\ u \in turns
  /\ turns' = turns \ {u}
  /\ UNCHANGED <<row, audited, effects, posts, job, handler, exec, sweep,
                 active, paused, inService, faults>>

Submit(r, u, tier, i) ==
  /\ row[r].status = "none"
  /\ u \in turns
  /\ row' = [row EXCEPT ![r] =
       [status |-> "pending", tier |-> tier, asker |-> u, sealed |-> i,
        hash |-> i, decidedBy |-> None, age |-> 0]]
  /\ audited' = [audited EXCEPT ![r] = {Entry("submitted", i)}]
  /\ UNCHANGED <<effects, posts, job, handler, exec, sweep, outside, faults>>

-----------------------------------------------------------------------------
(* Deciding it: load and authorise, then one conditional UPDATE, then hand *)
(* over or post.                                                           *)

\* The route loads the row, checks who decides and that the hash the person was
\* shown is the row's.  A self-decision is given its note.
OpenDecision(h, u, r, verdict, edit) ==
  /\ handler[h].pc = "idle"
  /\ row[r].status # "none"
  /\ MayDecide(Org, row[r].tier, row[r].asker, u)
  /\ edit # None => verdict = "approved" /\ row[r].tier = "asker"
  /\ handler' = [handler EXCEPT ![h] =
       [pc |-> "checked", req |-> r, by |-> u, verdict |-> verdict, edit |-> edit]]
  /\ UNCHANGED <<row, audited, effects, posts, job, exec, sweep, outside, faults>>

\* Mutant of StillDecidable: the UPDATE looks at the expiry only.
InTime(r) == row[r].age < TTL(row[r].tier)

StillDecidable(r) ==
  row[r].status = "pending" /\ row[r].age < TTL(row[r].tier)

\* An edit replaces the sealed input and its hash; a no wipes the input.
Decided(r, by, verdict, edit) ==
  LET changed(old) == IF edit = None THEN old ELSE edit
  IN [row EXCEPT ![r] =
       [status |-> verdict, tier |-> row[r].tier, asker |-> row[r].asker,
        sealed |-> IF verdict = "denied" THEN None ELSE changed(row[r].sealed),
        hash |-> changed(row[r].hash), decidedBy |-> by, age |-> 0]]

\* Mutant of DecisionEntry: the audit keeps the hash from before the edit.
EntryBeforeEdit(r, verdict) == Entry(verdict, row[r].hash)

\* The row is refreshed after the UPDATE: the audit keeps the hash decided on.
DecisionEntry(r, verdict) == Entry(verdict, row'[r].hash)

CommitDecision(h) ==
  /\ handler[h].pc = "checked"
  /\ LET r == handler[h].req
         d == handler[h]
     IN \/ /\ StillDecidable(r)
           /\ row' = Decided(r, d.by, d.verdict, d.edit)
           /\ audited' = [audited EXCEPT ![r] =
                            @ \cup {DecisionEntry(r, d.verdict)}]
           /\ handler' = [handler EXCEPT ![h].pc =
                IF d.verdict = "approved" THEN "dispatch" ELSE "post"]
        \/ /\ ~StillDecidable(r)
           /\ handler' = [handler EXCEPT ![h] = IdleHandler]
           /\ UNCHANGED <<row, audited>>
  /\ UNCHANGED <<effects, posts, job, exec, sweep, outside, faults>>

\* The asker's, while a member.
Withdraw(h, r) ==
  /\ handler[h].pc = "idle"
  /\ row[r].status = "pending"
  /\ row[r].asker \in active
  /\ row' = Moved(row, {r}, "cancelled")
  /\ Audit({r}, "withdrawn")
  /\ handler' = [handler EXCEPT ![h] =
       [IdleHandler EXCEPT !.pc = "post", !.req = r, !.verdict = "cancelled"]]
  /\ UNCHANGED <<effects, posts, job, exec, sweep, outside, faults>>

\* The queue refuses a job whose id is queued, running, or kept as a result; in
\* the other mode a task is started in this process.
HandOver(r) ==
  IF ExecutorMode = "queue" /\ job[r] # "none"
    THEN UNCHANGED job
    ELSE job' = [job EXCEPT ![r] = "queued"]

HandlerDispatch(h) ==
  /\ handler[h].pc = "dispatch"
  /\ HandOver(handler[h].req)
  /\ handler' = [handler EXCEPT ![h] = IdleHandler]
  /\ UNCHANGED <<row, audited, effects, posts, exec, sweep, outside, faults>>

Posted(r, outcome) == posts' = [posts EXCEPT ![r] = @ \cup {outcome}]

HandlerPost(h) ==
  /\ handler[h].pc = "post"
  /\ Posted(handler[h].req, handler[h].verdict)
  /\ handler' = [handler EXCEPT ![h] = IdleHandler]
  /\ UNCHANGED <<row, audited, effects, job, exec, sweep, outside, faults>>

-----------------------------------------------------------------------------
(* Running it: claim, re-check, run once, record, post.                    *)

\* A job the queue has run is kept as a result under its id for a while; a
\* task of this process leaves nothing behind.
JobTaken == IF ExecutorMode = "queue" THEN "running" ELSE "none"
\* Mutant of JobOver: the job's id is never free again.
JobKeptForever(r) == UNCHANGED job

JobOver(r) == IF ExecutorMode = "queue"
                THEN job' = [job EXCEPT ![r] = "kept"] ELSE UNCHANGED job

StartJob(e, r) ==
  /\ exec[e].pc = "idle"
  /\ job[r] = "queued"
  /\ job' = [job EXCEPT ![r] = JobTaken]
  /\ exec' = [exec EXCEPT ![e] = [IdleExec EXCEPT !.pc = "start", !.req = r]]
  /\ UNCHANGED <<row, audited, effects, posts, handler, sweep, outside, faults>>

ResultExpires(r) ==
  /\ job[r] = "kept"
  /\ job' = [job EXCEPT ![r] = "none"]
  /\ UNCHANGED <<row, audited, effects, posts, handler, exec, sweep, outside, faults>>

\* Mutant of Claimable: a run given up on may be claimed again.
ClaimableAgain(r) == row[r].status \in {"approved", "executing"}

Claimable(r) == row[r].status = "approved"

Claim(e) ==
  /\ exec[e].pc = "start"
  /\ LET r == exec[e].req
     IN \/ /\ Claimable(r)
           /\ row' = Moved(row, {r}, "executing")
           /\ exec' = [exec EXCEPT ![e].pc = "claimed"]
           /\ UNCHANGED job
        \/ /\ ~Claimable(r)
           /\ exec' = [exec EXCEPT ![e] = IdleExec]
           /\ JobOver(r)
           /\ UNCHANGED row
  /\ UNCHANGED <<audited, effects, posts, handler, sweep, outside, faults>>

\* why_not is empty: the assistant answers, the asker is still here, and the
\* version it was asked in is still in service.
MayStillRun(r) == ~paused /\ row[r].asker \in active /\ inService

Unseals(r) == row[r].sealed # None /\ row[r].sealed = row[r].hash

Recheck(e) ==
  /\ exec[e].pc = "claimed"
  /\ LET r == exec[e].req
     IN exec' = [exec EXCEPT ![e] =
          IF Unseals(r) /\ MayStillRun(r)
            THEN [@ EXCEPT !.pc = "ready", !.input = row[r].sealed]
            ELSE [@ EXCEPT !.pc = "done", !.ok = FALSE]]
  /\ UNCHANGED <<row, audited, effects, posts, job, handler, sweep, outside, faults>>

\* The tool may do it and answer, do it and answer with an error, or do nothing.
RunTool(e) ==
  /\ exec[e].pc = "ready"
  /\ \E ok \in BOOLEAN, did \in BOOLEAN :
       /\ ok => did
       /\ effects' = IF did
            THEN [effects EXCEPT ![exec[e].req] = Append(@, exec[e].input)]
            ELSE effects
       /\ exec' = [exec EXCEPT ![e].pc = "done", ![e].ok = ok]
  /\ UNCHANGED <<row, audited, posts, job, handler, sweep, outside, faults>>

Outcome(e) == IF exec[e].ok THEN "succeeded" ELSE "failed"

\* The UPDATE moves only a row still executing; the audit entry and the message
\* follow whether it moved one or not.
Record(e) ==
  /\ exec[e].pc = "done"
  /\ LET r == exec[e].req
     IN /\ row' = Moved(row, {r} \cap InStatus("executing"), Outcome(e))
        /\ Audit({r}, IF exec[e].ok THEN "executed" ELSE "failed")
  /\ exec' = [exec EXCEPT ![e].pc = "post"]
  /\ UNCHANGED <<effects, posts, job, handler, sweep, outside, faults>>

ExecPost(e) ==
  /\ exec[e].pc = "post"
  /\ Posted(exec[e].req, Outcome(e))
  /\ JobOver(exec[e].req)
  /\ exec' = [exec EXCEPT ![e] = IdleExec]
  /\ UNCHANGED <<row, audited, effects, handler, sweep, outside, faults>>

-----------------------------------------------------------------------------
(* The sweep of every minute: expire, fail what a dead process left        *)
(* running, hand over what nobody picked up.  Its one `now' is read first: *)
(* `stuck' and `unclaimed' are the rows that are old enough by then.       *)

\* Mutant of Older: no cut-off.
AnyAge(s, limit) == InStatus(s)

Older(s, limit) == {r \in InStatus(s) : row[r].age > limit}

SweepExpire ==
  LET expired == {r \in InStatus("pending") : row[r].age > TTL(row[r].tier)}
  IN /\ sweep.pc = "idle"
     /\ row' = Moved(row, expired, "expired")
     /\ Audit(expired, "expired")
     /\ sweep' = [pc |-> "expired", stuck |-> Older("executing", StuckAfter),
                  unclaimed |-> Older("approved", UnclaimedAfter), left |-> expired]
     /\ UNCHANGED <<effects, posts, job, handler, exec, outside, faults>>

SweepStuck ==
  LET stuck == sweep.stuck \cap InStatus("executing")
  IN /\ sweep.pc = "expired" /\ sweep.left = {}
     /\ row' = Moved(row, stuck, "failed")
     /\ Audit(stuck, "failed")
     /\ sweep' = [sweep EXCEPT !.pc = "failed", !.left = stuck]
     /\ UNCHANGED <<effects, posts, job, handler, exec, outside, faults>>

SweepPost(r) ==
  /\ sweep.pc \in {"expired", "failed"} /\ r \in sweep.left
  /\ Posted(r, sweep.pc)
  /\ sweep' = [sweep EXCEPT !.left = @ \ {r}]
  /\ UNCHANGED <<row, audited, effects, job, handler, exec, outside, faults>>

SweepUnclaimed ==
  /\ sweep.pc = "failed" /\ sweep.left = {}
  /\ sweep' = [sweep EXCEPT !.pc = "unclaimed",
                            !.left = sweep.unclaimed \cap InStatus("approved")]
  /\ UNCHANGED <<row, audited, effects, posts, job, handler, exec, outside, faults>>

SweepHandOver(r) ==
  /\ sweep.pc = "unclaimed" /\ r \in sweep.left
  /\ HandOver(r)
  /\ sweep' = [sweep EXCEPT !.left = @ \ {r}]
  /\ UNCHANGED <<row, audited, effects, posts, handler, exec, outside, faults>>

SweepEnd ==
  /\ sweep.pc = "unclaimed" /\ sweep.left = {}
  /\ sweep' = IdleSweep
  /\ UNCHANGED <<row, audited, effects, posts, job, handler, exec, outside, faults>>

-----------------------------------------------------------------------------
(* What happens around a request.                                          *)

\* assistants.archive and unarchive, on the rows they touch.
Pause ==
  /\ "pause" \in Changes
  /\ ~paused
  /\ paused' = TRUE
  /\ row' = Moved(row, InStatus("pending"), "expired")
  /\ UNCHANGED <<audited, effects, posts, job, handler, exec, sweep, turns,
                 active, inService, faults>>

Unpause ==
  /\ paused
  /\ paused' = FALSE
  /\ UNCHANGED <<row, audited, effects, posts, job, handler, exec, sweep, turns,
                 active, inService, faults>>

\* The version asked in is taken out of service, or put back.
ChangeService ==
  /\ "service" \in Changes
  /\ inService' = ~inService
  /\ UNCHANGED <<row, audited, effects, posts, job, handler, exec, sweep, turns,
                 active, paused, faults>>

Deactivate(u) ==
  /\ u \in Leavers \cap active
  /\ active' = active \ {u}
  /\ row' = Moved(row, {r \in InStatus("pending") : row[r].asker = u}, "cancelled")
  /\ UNCHANGED <<audited, effects, posts, job, handler, exec, sweep, turns,
                 paused, inService, faults>>

Reactivate(u) ==
  /\ u \in People \ active
  /\ active' = active \cup {u}
  /\ UNCHANGED <<row, audited, effects, posts, job, handler, exec, sweep, turns,
                 paused, inService, faults>>

\* A run past the claim is over within RunLimit of it: the worker cancels the
\* job, and its tools give up long before.
HoldsClaim(e) == exec[e].pc \in {"claimed", "ready", "done"}

Tick ==
  /\ \A e \in Executors : HoldsClaim(e) => row[exec[e].req].age < RunLimit
  /\ row' = [r \in Requests |->
       IF row[r].status \in Open /\ row[r].age < MaxAge
         THEN [row[r] EXCEPT !.age = @ + 1] ELSE row[r]]
  /\ UNCHANGED <<audited, effects, posts, job, handler, exec, sweep, outside, faults>>

-----------------------------------------------------------------------------
(* Processes that die, calls that fail.                                    *)

JobTimesOut(e) ==
  /\ HoldsClaim(e) /\ row[exec[e].req].age >= RunLimit
  /\ JobOver(exec[e].req)
  /\ exec' = [exec EXCEPT ![e] = IdleExec]
  /\ UNCHANGED <<row, audited, effects, posts, handler, sweep, outside, faults>>

Fault == faults < MaxFaults /\ faults' = faults + 1

\* Also a post or an enqueue that fails and is only logged.
HandlerDies(h) ==
  /\ handler[h].pc # "idle" /\ Fault
  /\ handler' = [handler EXCEPT ![h] = IdleHandler]
  /\ UNCHANGED <<row, audited, effects, posts, job, exec, sweep, outside>>

\* The queue gives a job whose worker died no second try.
ExecDies(e) ==
  /\ exec[e].pc # "idle" /\ Fault
  /\ JobOver(exec[e].req)
  /\ exec' = [exec EXCEPT ![e] = IdleExec]
  /\ UNCHANGED <<row, audited, effects, posts, handler, sweep, outside>>

HandOverLost(r) ==
  /\ job[r] = "queued" /\ Fault
  /\ job' = [job EXCEPT ![r] = "none"]
  /\ UNCHANGED <<row, audited, effects, posts, handler, exec, sweep, outside>>

SweepDies ==
  /\ sweep.pc # "idle" /\ Fault
  /\ sweep' = IdleSweep
  /\ UNCHANGED <<row, audited, effects, posts, job, handler, exec, outside>>

\* One post or one hand-over of the sweep fails, and the sweep goes on.
SweepSkips(r) ==
  /\ r \in sweep.left /\ Fault
  /\ sweep' = [sweep EXCEPT !.left = @ \ {r}]
  /\ UNCHANGED <<row, audited, effects, posts, job, handler, exec, outside>>

-----------------------------------------------------------------------------
Init ==
  /\ row = [r \in Requests |-> Blank]
  /\ audited = [r \in Requests |-> {}]
  /\ effects = [r \in Requests |-> << >>]
  /\ posts = [r \in Requests |-> {}]
  /\ job = [r \in Requests |-> "none"]
  /\ handler = [h \in Handlers |-> IdleHandler]
  /\ exec = [e \in Executors |-> IdleExec]
  /\ sweep = IdleSweep
  /\ turns = {} /\ active = People
  /\ paused = FALSE /\ inService = TRUE
  /\ faults = 0

HandlerNext(h) ==
  \/ \E u \in People, r \in Requests, verdict \in {"approved", "denied"},
        edit \in Inputs \cup {None} : OpenDecision(h, u, r, verdict, edit)
  \/ CommitDecision(h)
  \/ \E r \in Requests : Withdraw(h, r)
  \/ HandlerDispatch(h)
  \/ HandlerPost(h)
  \/ HandlerDies(h)

ExecNext(e) ==
  \/ \E r \in Requests : StartJob(e, r)
  \/ Claim(e)
  \/ Recheck(e)
  \/ RunTool(e)
  \/ Record(e)
  \/ ExecPost(e)
  \/ JobTimesOut(e)
  \/ ExecDies(e)

SweepNext ==
  \/ SweepExpire
  \/ SweepStuck
  \/ SweepUnclaimed
  \/ SweepEnd
  \/ SweepDies
  \/ \E r \in Requests : SweepPost(r) \/ SweepHandOver(r) \/ SweepSkips(r)

OutsideNext ==
  \/ \E u \in People : StartTurn(u) \/ EndTurn(u) \/ Deactivate(u) \/ Reactivate(u)
  \/ Pause
  \/ Unpause
  \/ ChangeService
  \/ Tick

Next ==
  \/ \E r \in Requests, u \in People, tier \in {"asker", "approver"}, i \in Inputs :
       Submit(r, u, tier, i)
  \/ \E h \in Handlers : HandlerNext(h)
  \/ \E e \in Executors : ExecNext(e)
  \/ SweepNext
  \/ OutsideNext
  \/ \E r \in Requests : ResultExpires(r) \/ HandOverLost(r)

Spec == Init /\ [][Next]_vars

\* The processes that take their next step while they live: the sweep comes back
\* every minute, a worker takes the next job, time passes.
SweepStep ==
  \/ SweepExpire \/ SweepStuck \/ SweepUnclaimed \/ SweepEnd
  \/ \E r \in Requests : SweepPost(r) \/ SweepHandOver(r)
ExecStep(e) ==
  Claim(e) \/ Recheck(e) \/ RunTool(e) \/ Record(e) \/ ExecPost(e) \/ JobTimesOut(e)

Fairness ==
  /\ WF_vars(Tick)
  /\ WF_vars(SweepStep)
  /\ \A e \in Executors : WF_vars(ExecStep(e))
  /\ \A r \in Requests : /\ WF_vars(\E e \in Executors : StartJob(e, r))
                         /\ WF_vars(ResultExpires(r))

FairSpec == Spec /\ Fairness

-----------------------------------------------------------------------------
(* Properties.                                                             *)

RowType == [status : Status, tier : {"asker", "approver"},
            asker : People \cup {None}, sealed : Inputs \cup {None},
            hash : Inputs \cup {None}, decidedBy : People \cup {None},
            age : 0..MaxAge]
HandlerType == [pc : {"idle", "checked", "dispatch", "post"},
                req : Requests \cup {None}, by : People \cup {None},
                verdict : {"approved", "denied", "cancelled", None},
                edit : Inputs \cup {None}]
ExecType == [pc : {"idle", "start", "claimed", "ready", "done", "post"},
             req : Requests \cup {None}, input : Inputs \cup {None}, ok : BOOLEAN]
SweepType == [pc : {"idle", "expired", "failed", "unclaimed"},
              stuck : SUBSET Requests, unclaimed : SUBSET Requests,
              left : SUBSET Requests]
AuditType == [what : {"submitted", "approved", "denied", "withdrawn", "expired",
                      "executed", "failed"}, input : Inputs \cup {None}]

\* Every variable has its type.
TypeOK ==
  /\ row \in [Requests -> RowType]
  /\ audited \in [Requests -> SUBSET AuditType]
  /\ effects \in [Requests -> Seq(Inputs)]
  /\ posts \in [Requests -> SUBSET Final]
  /\ job \in [Requests -> {"none", "queued", "running", "kept"}]
  /\ handler \in [Handlers -> HandlerType]
  /\ exec \in [Executors -> ExecType]
  /\ sweep \in SweepType
  /\ turns \subseteq People /\ active \subseteq People
  /\ paused \in BOOLEAN /\ inService \in BOOLEAN
  /\ faults \in 0..MaxFaults

\* A request does to the system outside what it does at most once, whatever was
\* handed over twice, retried or swept: the claim in executor.execute.
RunsAtMostOnce == \A r \in Requests : Len(effects[r]) <= 1

\* What ran is the input whose hash the approval was audited with, the asker's own
\* edits included: resolve and unseal.
RunsOnlyWhatWasApproved ==
  \A r \in Requests : effects[r] # << >> =>
    Entry("approved", effects[r][1]) \in audited[r]

\* The sealed input is on the row exactly while the request is open: WIPED in every
\* UPDATE that ends one, and in none other.
SealedWhileOpen ==
  \A r \in Requests : row[r].sealed # None <=> row[r].status \in Open

\* The audit entries of a request tell one story, and the one its row tells: no run
\* without an approval, one ending, nothing decided twice.
Told(r) == {x.what : x \in audited[r]}
OneStory ==
  \A r \in Requests :
    /\ \A x, y \in audited[r] : x.what = y.what => x = y
    /\ "approved" \in Told(r) <=>
         row[r].status \in {"approved", "executing", "succeeded", "failed"}
    /\ "executed" \in Told(r) <=> row[r].status = "succeeded"
    /\ "failed" \in Told(r) <=> row[r].status = "failed"
    /\ "denied" \in Told(r) <=> row[r].status = "denied"

\* The conversation is never told an ending that is not the request's: a run that
\* outlived its claim would post one beside the sweep's.
PostsAgree == \A r \in Requests : posts[r] \subseteq {row[r].status}

\* A row moves only along the state machine of models/approval.py, one move at a
\* time, and an ending is never undone.
Moves ==
  {<<"none", "pending">>, <<"approved", "executing">>,
   <<"executing", "succeeded">>, <<"executing", "failed">>}
  \cup ({"pending"} \X {"approved", "denied", "expired", "cancelled"})
StatusMoves ==
  [][\A r \in Requests : row'[r].status # row[r].status =>
       <<row[r].status, row'[r].status>> \in Moves]_vars

\* Nothing reaches the outside for a request that is not executing at that moment:
\* a run the sweep has given up on (and told the asker to check) is really over.
RunsOnlyWhileExecuting ==
  [][\A r \in Requests : effects'[r] # effects[r] => row[r].status = "executing"]_vars

\* Every request ends: an undecided one expires, an approved one is run or given up
\* on, whichever process dies on the way.
EveryRequestEnds ==
  \A r \in Requests : row[r].status \in Open ~> row[r].status \in Final

\* A request keeps the promise of ApprovalContract, whatever processes, crashes and
\* clocks do: the mapping reads the row alone.
Phase(s) == CASE s = "none" -> "none"
              [] s = "pending" -> "asked"
              [] s \in {"approved", "executing"} -> "agreed"
              [] s \in Final -> "ended"
WasAgreed(r) == row[r].status \in {"approved", "executing", "succeeded", "failed"}

Contract == INSTANCE ApprovalContract WITH
  phase <- [r \in Requests |-> Phase(row[r].status)],
  agreedOn <- [r \in Requests |-> IF WasAgreed(r) THEN row[r].hash ELSE None],
  performed <- effects

KeepsContract == Contract!Spec

-----------------------------------------------------------------------------
(* The inductive invariant behind the safety properties.                   *)

\* One live claim per request, held only while the row executes and no longer than
\* RunLimit; what it is about to run is what the row was approved with.
ClaimsHold ==
  \A e \in Executors :
    /\ exec[e].pc # "idle" => exec[e].req \in Requests
    /\ HoldsClaim(e) =>
         /\ row[exec[e].req].status = "executing"
         /\ row[exec[e].req].age <= RunLimit
         /\ \A f \in Executors \ {e} : HoldsClaim(f) => exec[f].req # exec[e].req
    /\ exec[e].pc \in {"claimed", "ready"} => effects[exec[e].req] = << >>
    /\ exec[e].pc = "ready" => exec[e].input = row[exec[e].req].hash
    /\ exec[e].pc = "post" => row[exec[e].req].status = Outcome(e)

\* What was done was agreed to, and what was agreed to was audited.
EffectsHold ==
  \A r \in Requests :
    /\ effects[r] # << >> =>
         /\ row[r].status \in {"executing", "succeeded", "failed"}
         /\ effects[r] = <<row[r].hash>>
    /\ WasAgreed(r) => Entry("approved", row[r].hash) \in audited[r]
    /\ row[r].status # "none" => row[r].hash \in Inputs
    /\ row[r].status \in Open => row[r].sealed = row[r].hash

\* What the sweep and a handler remember of a row still holds when they act on it.
MemoryHolds ==
  /\ \A r \in sweep.stuck :
       /\ row[r].status \in {"executing", "succeeded", "failed"}
       /\ \A e \in Executors : HoldsClaim(e) => exec[e].req # r
  /\ \A r \in sweep.left :
       sweep.pc \in {"expired", "failed"} => row[r].status = sweep.pc
  /\ \A h \in Handlers :
       /\ handler[h].pc # "idle" => handler[h].req \in Requests
       /\ handler[h].pc = "checked" =>
            /\ handler[h].verdict \in {"approved", "denied"}
            /\ row[handler[h].req].status # "none"
            /\ handler[h].by \in People
       /\ handler[h].pc = "post" =>
            /\ handler[h].verdict \in {"denied", "cancelled"}
            /\ row[handler[h].req].status = handler[h].verdict

IInv ==
  /\ TypeOK
  /\ ClaimsHold
  /\ EffectsHold
  /\ MemoryHolds
  /\ SealedWhileOpen
  /\ PostsAgree
=============================================================================
