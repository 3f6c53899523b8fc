# A verification project for the assistant platform

The repository is a platform on which an organisation builds chat assistants that
read its documents, query its databases and ask for actions on its systems. Its
backend is an asynchronous Python service (`src/apps/api/app`: FastAPI, SQLAlchemy,
Postgres), with a job worker (Arq on Redis), and a web client (`src/apps/web`). This
directory holds TLA+ models of the backend's own protocols, the TLC runs that check
them on small instances, and TLAPS proofs that hold for every instance.

All paths below are relative to `src/apps/api/app` unless they say otherwise.

## 1. Inventory

### 1.1 The parts, their state, and how they interact

| Part | State it keeps | Operations | Talks to |
|---|---|---|---|
| **Approval requests** (`services/approvals.py`, `models/approval.py`, `api/routes/approvals.py`) | the `approvals` table: status, sealed input, hash, expiry, decision; `approval.*` audit entries; outcome messages | submit, resolve, withdraw, sweep (expire, fail stuck, hand over), report | executor, chat, people, assistants, notify, audit |
| **Executor** (`services/executor.py`, `worker.py`) | nothing of its own: the row's `executing` status is its claim; the queue's job ids | dispatch, execute (claim, re-check, run, record, post) | approvals, tools, queue |
| **Who decides** (`services/approvals.py`, `services/duties.py`, `security/access.py`) | memberships, roles, the approvers an assistant names, delegations, the organisation's switches | assert_can_decide, deciders, delegate, may_approve_version | people, assistants |
| **Assistants and versions** (`services/assistants.py`) | the assistant row (status, draft, `current_version_id`), its versions | save draft, submit, approve, reject, withdraw, roll back, archive, unarchive | duties, evals, chat |
| **Turns** (`services/turns.py`) | Redis: the claim of a conversation (expires), the event stream; the fall-back in memory | start, heartbeat, append, finish, release, follow | chat, recovery |
| **Chat** (`services/chat.py`) | conversations, messages, runs; the turn slots | run_message, submit a request, request notes, finalize | turns, budgets, agent, approvals |
| **Stop** (`agent/interrupts.py`) | flags in this process, a Redis channel | interrupt, publish | chat |
| **Recovery** (`services/recovery.py`) | none | notice on questions a dead turn never answered | turns, approvals |
| **Budgets** (`services/budgets.py`) | spending per organisation, person, assistant; the alerts sent | gate, note | chat |
| **People** (`services/people.py`, `services/orgs.py`) | memberships, roles, invitations | deactivate, reactivate, change role, invite, accept | approvals, assistants, auth |
| **Authentication** (`services/auth.py`, `services/two_factor.py`) | users, refresh tokens, second factors | sign in, rotate, revoke | people |
| **Mail** (`services/mail.py`) | the outbox and its attempts | queue, deliver, retry | worker |
| **Audit chain** (`services/audit_chain.py`) | audit rows and their seals | seal, verify | worker |
| **Retention, privacy** (`services/retention.py`, `services/privacy.py`, `deploy/backup`, `scripts/reapply_erasures.py`) | holds, periods, records of erasures; transcripts on disk | purge by rule, erase a person, restore and erase again, export | conversations, worker |
| **Knowledge** (`rag/`, `services/data_sources.py`, `services/manifest.py`) | sources, documents, chunks, vectors | ingest, refresh, keep what versions name, delete, sweep, search | worker, assistants |
| **Conversation memory** (`services/conversation_memory.py`, `agent/history.py`) | the columns of a conversation: its session, its summary, its title; the model's sessions on disk | resume or replay, summarise, title, tell what ended | chat, worker |
| **Evals** (`evals/`, `services/evals.py`) | suites, runs, results | run, score, gate | assistants |
| **Handoffs, review queue, shares, alerts, notify, analytics** (`services/`) | one table each | | chat |
| **MCP, data sources, HTTP actions** (`mcp/`, `datasources/`, `agent/http_actions.py`) | connection pools, discovered tools | discover, call, query | agent, executor |
| **Agent run-time** (`agent/`) | a model session per conversation | classify a tool call, run the loop | chat |
| **Graph compiler** (`graph/`, the saving in `services/assistants.py`) | the draft of an assistant, as a graph and as a config | validate, fix, compile, project, save either | assistants |
| **Guardrails, SQL guard** (`guardrails/`, `datasources/sql_guard.py`) | none: pure | check | agent |
| **Web client** (`src/apps/web`) | browser state | pages | API |

A request crosses most of them: a **turn** of a conversation raises it
(`chat._submit_request`); a **person** with the right decides it
(`approvals.resolve`); the **executor** runs it from a queue or in the API process;
the **sweep** of every minute (`worker.recovery_sweep`) repairs what died on the way;
an admin may **pause** the assistant or **deactivate** the asker at any point. A turn also
reads what three jobs of the worker change behind it: the **summary** of its own
conversation, the **documents** its version answers from, and the **erasure** of
conversations nobody needs.

### 1.2 Which behaviours are hard

- **Several processes, one row.** API handlers, workers and the sweep act on the same
  row with no lock, each through conditional `UPDATE`s, with reads, calls and other
  commits in between. What a process read can be stale when it acts.
- **Work outside the database.** A tool call cannot be rolled back; the commit that
  records it comes later, and the process can die in between.
- **At-least-once hand-over.** Jobs are queued, lost, refused as duplicates and
  handed over again.
- **Time.** Expiries, a stuck threshold, a job timeout, a lease with a heartbeat:
  each compares a clock with a row another process is changing.
- **People change under a request.** Roles, approvers, stand-ins and memberships move
  between asking, deciding and running.
- **Stale ORM state.** A row loaded at the start of an HTTP request and locked later
  keeps the attribute values it was loaded with, and writes only those it changed.
- **Long transactions.** An ingestion reads what must be kept, embeds for minutes, and
  commits deletions decided by what it read.
- **Two copies of one thing.** A draft is a graph and a config, an answer is in a
  conversation's messages and in the model's session, a conversation is in the database,
  in the files and in the backup.
- **Slots, stops and money.** A turn passes the budget before it waits for a slot; a stop
  must reach the one process that runs the turn; whatever happens the slot comes back.

### 1.3 What makes each part correct

- *Requests*: run at most once, only what was approved, never after being given up;
  end once and eventually; the input is sealed exactly while open; the audit and the
  conversation tell the row's story.
- *Who decides*: never the asker while somebody else can; everybody asked may answer.
- *Versions*: one live version, the newest approved or the one rolled back to; a
  pause outlasts reviews; nobody reviews their own work while another may.
- *Turns*: at most one turn per conversation; a lost turn is noticed; a watcher ends.
- *Chat*: slots come back however a turn ends; a conversation and a budget are passed by
  at most what was already under way; a stopped turn ends wherever it runs.
- *Memory*: the model knows, or is told it does not know, what was said before; no
  message is taken for summarised that was not; the total has every cost; the ending of a
  request is told.
- *Retention*: what is erased is on record and stays erased after a restore; what is quiet
  is erased in the end, and nothing of it is left on disk.
- *Knowledge*: what versions need is kept; a source has one current document and never a
  window without one; a source that waits says how its indexing ended.
- *Drafts*: the graph and the config say the same; a fix clears what it is for; nothing
  drawn is ignored without a word; the panels leave the user's wiring alone.
- *People*: an active owner remains; nothing of a leaver goes on.
- *Mail, audit, evals*: at-least-once without duplicates that matter; chains without
  gaps; a finished run's score is of the version it names.

## 2. The modules, and the code they stand for

| Module | Stands for | Proofs |
|---|---|---|
| `DecisionRights` | the rules of who decides, over a snapshot of the organisation; no state | used by the two below |
| `Approvals` | requests, handlers, executors, the sweep | `ApprovalsProofs` |
| `ApprovalContract` | what a request promises to those who read only `models/approval.py`: the abstract specification `Approvals` implements | `ApprovalsProofs` |
| `Assistant` | the requests to the API about one assistant, which the next two share | |
| `VersionReview` | one assistant, its versions, its review, the conversations on it | `AssistantProofs` |
| `OrgRights` | the people of one organisation, their requests, and the rights these leave | `OrgRightsProofs` |
| `Turns` | the turns of one conversation, its watchers, the notice on a dead one | `TurnsProofs` |
| `Chat` | admission, spend, slots and stops of turns, over several processes | `ChatProofs` |
| `Memory` | what the model knows of one conversation: sessions, summary, notes, costs | `MemoryProofs` |
| `Retention` | erasing conversations: the nightly rule, a person, a restore; the files | `RetentionProofs` |
| `Knowledge` | the index of one source and the versions that answer from it | `KnowledgeProofs` |
| `Canvas` | the draft of one assistant as a graph and as a config | `AssistantProofs` |
| `MC...` | constants and symmetry of the small instances | |

`Approvals` and `OrgRights` both extend `DecisionRights`: the first fixes the
organisation (except for who is active) and lets a request run through it, the second
moves the organisation and asks what the rules then give. `Approvals` INSTANCEs
`ApprovalContract`. `VersionReview` and `Canvas` extend `Assistant`, but move different
columns of its row, so each has a specification of its own; a submission, which reads the
one and writes both, is an action of each (`Submit`, `SubmitDraft`). The others stand alone. Where two of them meet, each keeps what it
sees of the other as actions of its own, free to happen whenever the other allows them:
the version a request was asked in (`ChangeService` in `Approvals`), the outcome a request
posts (`PostOutcome` in `Turns`, `RequestEnds` and `Post` in `Memory`), the turn that runs
(`BeginTurn`, `EndTurn` in `Retention`), and the review of versions while a source is
indexed (`Review` in `Knowledge`, `VersionReview` restated in what the documents depend
on). `Chat` and `Memory` take from `Turns` that the turns of a conversation run one at a
time.

### 2.1 `Approvals`

One action is one database transaction, or one call outside the database. `row` is the
`approvals` table, `audited` the `approval.*` entries written in the same transactions,
`effects` what a tool did, in order, `posts` the outcomes posted, `job` the entry the
queue holds under the id of the request.

- *A turn*: `StartTurn`, `Submit`, `EndTurn`. A turn is let in once and goes on while
  its asker is deactivated or the assistant paused: a request can be raised after both.
- *A decision*: `OpenDecision` (load, authorise, compare the hash shown),
  `CommitDecision` (one conditional `UPDATE`: still `pending`, still before
  `expires_at`; then the audit entry with the refreshed hash), then `HandlerDispatch`
  or `HandlerPost`. `Withdraw` moves and audits in one step.
- *A run*: `StartJob`, `Claim` (approved to executing, committed before anything else),
  `Recheck` (unseal, `why_not`), `RunTool`, `Record` (a conditional `UPDATE` from
  `executing`; the audit entry and the message follow whether it moved a row or not),
  `ExecPost`. `JobTimesOut` is the worker cancelling the job.
- *The sweep*: `SweepExpire`, `SweepStuck`, `SweepUnclaimed`, each in its own commit,
  with one `SweepPost` or `SweepHandOver` for each row; the `now` of the whole sweep is
  read first, which is why `sweep.stuck` and `sweep.unclaimed` are kept.
- *Around*: `Pause`, `Deactivate`, `ChangeService`, and `Tick`.
- *Faults*: a handler, an executor or the sweep dies at any point; a queued job is lost;
  one post or hand-over of the sweep fails and the sweep goes on.

**Time.** A row carries its age in its present status. `expires_at > now` is
`age < TTL`; `decided_at < now - UNCLAIMED_AFTER` is `age > UnclaimedAfter`. Ages stop
at `MaxAge`, beyond every limit. The one assumption is `RunLimit <= StuckAfter`: a run
past its claim is over before the sweep may give up on it. The code's numbers are a job
timeout of 120 s (`worker.py:252`) and tool timeouts far below it, against
`STUCK_AFTER` of 10 minutes (`services/approvals.py:75`). `Tick` is disabled while a
claim is `RunLimit` old, and `JobTimesOut` is then enabled: an inline task has no job
timeout, and there the assumption rests on the tools' timeouts alone.

### 2.2 `VersionReview`

The assistant's row is loaded when a request is authorised and locked later
(`_locked`, `services/assistants.py:246`). The lock is a `SELECT ... FOR UPDATE` in a
session that holds the row already, so SQLAlchemy does not refresh its attributes. A
handler therefore keeps the `status` and `current` it loaded, and the operation goes on
with these; versions are loaded after the lock and are current. `Archive` and
`Unarchive` take no lock of their own but their `UPDATE` waits for it (`RowFree`).
`Drift` is anything a version names changing after its submission. A conversation
reads the assistant and then its version (`OpenTurn`, `Answer`), with commits between.

### 2.3 `OrgRights`

A request of an admin reads, checks and writes in one transaction with no row locked,
so it is two steps: `Ask` (all that is checked) and the one that commits, which writes
only the target's column. Requests whose check may as well be made at the commit
(nothing it reads is what another such request could make wrong) are one step:
`RevokeInvite`, `UseAsMember`, `SetApprovers`, `SetSwitch`, `Delegate`,
`EndDelegation`. `Abandon` is a request that fails, also the insert that a unique index
refuses (`models/invite.py:24-35`, one open invite for an address). The organisation is
its people's only one, so an account is switched off and on with the membership.

### 2.4 `Turns`

`key` and `ttl` are `turn:live:<conversation>` in Redis and its time to live, `held`
the claim in the memory of each process, `turn` where each turn is. One tick is
`HEARTBEAT_S`. `BeatGet`/`BeatExpire` and `Release`/`ReleaseDelete` are the two Redis
calls each of the heartbeat and of the release: another turn may start between them.
The stream is abstracted to whether it has its end marker, the conversation to its
newest message. A turn that is *on time* beats once in every tick and finishes its
ending within one; a late one (`"stall"` in `Faults`) may lose its claim. A fault
`"redis"` is one call that fails: the claim (and the turn falls back to memory), the
end marker, the release, or the sweep's reading of the claims.

### 2.5 `Chat`

`free` is each process's semaphore, `ledger` the sum of `usage_events`, `cost` the total
on a conversation. `Ask` is the gate: what is left of the conversation's cap and of the
tightest budget is read once, before the wait, and is what the turn may spend (`left`).
`Admit` or `Busy` end the wait. An admitted turn holds its slot, keeps its message and
settles its session, its routing and its notes before `Register`, from where it streams
and can be stopped. `SpendOn` is an event that costs, `StreamEnds` any other
end of the stream; `Finalize` is the commit that records the turn, with what routing and
retrieval spent unwatched; `Close` releases the slot, `Raises` is an error on the way. A
stop (`Stop`) is tried on the turns that stream on the process it arrives at and published
to all (`inbox`); one that finds a turn not yet registered calls nothing; `Deliver` is its arrival elsewhere, `StopUnpublished` and `Unsubscribed` lose
it, `Dies` ends a process with its turns and slots. `told`, `alone` are kept for the
properties.

### 2.6 `Memory`

`conv` is the conversation's row, with two additions: `folds`, the messages its summary
was made from, and `cost`, counted in turns and summaries. `sessions` is what each session
of the model knows, is told it lacks (`omits`) and was told of requests. A turn goes
through `Begin` (the row as loaded, which is what it works on), `Ask`, `Plan` (resume the
session, replay the summary with the recent messages, or neither), `Notes` (what ended is
marked reported, in its own commit), then `Answer` or `FailTurn`, which write the row's
columns, then `Title`. The summary job reads (`FoldRead`), asks a model, and writes on the
version it read (`FoldWrite`); `jobs` is what the queue keeps under each job id.
`RequestEnds` and `Post` are other processes'; `TurnDies`, `FoldStops`, `LoseTranscripts`
are the faults.

### 2.7 `Retention`

`purge` is four steps for each of the three jobs that use it: `PurgeRead` (what is held or
waits for a decision is spared), `PurgeLook` (what is being answered is spared),
`PurgeDelete` (one commit, which cascades), `PurgeClean` (files, which may fail). The
record of what it erased is a later commit: the night's for each batch (`NightRecord`),
the owner's at the end (`EraseCommit`). A restore saves the records (`SaveErasures`),
replaces the database by the backup with everything stopped (`Replace`), then loads the
records and erases again (`LoadErasures`, `ReapplyEnds`). `db` is what a backup holds, and
`files` what is on disk, which `FilesSweep` compares. `JobDies` cuts a job off anywhere,
and `count.lost` remembers what it had erased and not yet recorded (history).

### 2.8 `Knowledge`

`job` holds the transaction of each worker slot: what it read (`Read`: the documents to
delete and to keep as superseded), what it flushed (`Flush`: the rows, which stay locked,
and the sweep of copies no version needs), what becomes true when it commits after
embedding (`Commit`). `Reindex` commits the status and then `Queue` hands the job over, or
`NotQueued`, or `RequestDies`. A job can be held back, fail, be stopped by a shutdown that
it records, or be killed, which it cannot. The queue runs one that was stopped or killed
again, or gives it up after its last try: tries are not counted, either may happen at any
of them. Submitting, approving and rolling back a version are two steps
each, as they hold the assistant's row from their reads to their commit; so is the
deletion of the source, and the nightly sweep. The id of a document is derived from its
content, so documents are contents: ingesting what was there before takes its place.
`met` is history and guards nothing: whether a review met a writer, whether two writers
met, and which version was live before the live one was approved.

### 2.9 `Canvas`

A node is its type, what it refers to, and a number that orders nodes of one identity.
`Errors`, `Warnings` and `FixOf` are `validate_graph` with its fixes, `Compile` is
`compile_graph`, `Project` is `project_config` with `_keep_user_wiring`. A config is who
may use each capability (nobody, the main agent, subagents), which subagents are on,
whether there is a router, which sources, and whether guardrails and memory have settings
of their own. These last stand for all node data that is copied as it is; `sources` stands
also for the settings a config keeps of what is off. A save loads the row (`SaveGraph`,
`SaveConfig`), computes from what it loaded, and `Commit` writes the columns it changed:
two saves can meet. A submission writes the draft too, compiled anew from the graph it
loaded (`SubmitDraft`). The user's step is one node, one edge, one setting, or one fix.
`Graphs` and `Configs` are all that may be drawn or set, without a bound: the proofs are
about these, `Starts` and `MaxSaves` are of the small instance.

## 3. What the runs check

The abstract time limits are small numbers that keep the order of the code's own.

| Run | Instance | States | Shows |
|---|---|---|---|
| `approvals_race` | 1 request, 2 handlers, 2 inputs, 2 executors, inline, 1 fault | 426k | runs at most once, only what was approved; the audit tells one story |
| `approvals_outside` | 1 request, 1 handler, 1 executor, queue, 1 fault, pause, service, leaver, fair | 195k | posts agree; nothing runs late; implements `ApprovalContract`; every request ends |
| `version_review` | 2 versions, 2 handlers, 2 conversations | 854k | live is approved; the newest waits; a review is decided once; who answers |
| `turns` | 2 turns, 1 process, 1 watcher, 1 fault of any kind, 1 outcome, fair | 142k | one turn at a time; a lost turn is a dead one; a notice is for a stopped one; watchers return; the newest question is settled |
| `org` | 3 people, 1 request at a time, approvers, stand-ins, switch | 297k | nobody takes the organisation from a passive owner; somebody can always decide |
| `chat` | 3 turns of 2 conversations, 2 processes of 1 slot, 1 stop, 1 fault, 1 other spend, fair | 436k | slots come back; the cap and the budget are passed by no more than what was under way; a stopped turn ends |
| `memory` | 4 turns, 1 request, 1 summary job at a time, 1 fault, 1 change of access | 3.9M | the session is of the summary the row says; nothing is forgotten; the past is known; endings are told; costs add up |
| `retention` | 3 quiet conversations of 2 people, batches of 2, 1 fault, 1 of: turns, holds, requests, erasures; a restore, fair | 359k | erasures are recorded but for what a dying job had in hand, and applied again after a restore; what is quiet goes; no file is left |
| `knowledge` | 2 contents, 2 worker slots, 2 versions, 2 events, fair | 424k | what versions need is kept; one current document; no window without an index; a source settles |
| `canvas` | 2 saves by 2 requests, a knowledge base with a source, a database, 2 subagents | 26k | graph and config agree; fixes clear; nothing is ignored silently; the wiring is kept |
| `org_owners` | 2 owners, 2 requests at once | | a disagreement: section 4 |
| `knowledge_kept` | as `knowledge` | | a disagreement: section 4 |

**Why these bounds.** Requests never read each other's rows (every `UPDATE` is by id or
by a condition on the row itself), so one request with its actors shows every
interleaving that can hurt it; batches of the sweep matter only for the row in them. Two
handlers give decide/decide, decide/withdraw and stale/fresh; two executors give the
double hand-over; two inputs tell an edited input from the shown one. One fault at a
time is what each repair in the code is for; what holds under any number of faults is
proved instead (section 5). Two versions are the least with a rollback, and a third
adds no new relation of old, replaced and new. Two turns give the claim that lapses and is
taken by the next; one watcher, as watchers do not see each other. Three people are an
owner, the actor and the one acted on. In `Chat`, two turns of one conversation are a turn
and the next, which a late stop may meet, and the third competes for the slot and the
budget; `Limit` is above `Cap`, so that each is the tighter one at some time, and a call
of two passes a limit by more than nothing. In `Memory`, four turns are eight messages,
against a threshold of three and two kept: the summary is written twice, also between the
beginning and the end of a turn. `Retention` has three quiet
conversations and batches of two, so that one or both of the oldest spared leave the third
behind them, and a batch erased whole takes another in the same night; `MAX_BATCHES` only
ends a night, and the next one carries on. One turn, hold, request or erasure comes
meanwhile: what combinations of them do to the two invariants is proved. In
`Knowledge` the second ingestion may bring new content or the old content back, which are
the two cases of `_drop_previous_index`, and two slots let ingestions overlap. `Canvas`
begins with a bare and a full draft, drawn in agreement or left by saves that met, and the
second save works on everything the first may have made; two subagents show what is given
to one and used by the other.

**Deadlock** is checked except in `turns`, `memory`, `knowledge`, `canvas` and the two
runs of section 4: there the turns, events or saves of the instance may be used up with
nothing left to do. `Chat` has an explicit step for that (`Idle`).

**Symmetry** is used in the runs without liveness (`approvals_race`, `org`,
`version_review`, `canvas`, `knowledge_kept`), over sets whose members the modules treat
alike; the others use none.

**Types.** Each module but `DecisionRights` and `ApprovalContract` says the type of its
variables. It is proved (section 5) rather than run.

### 3.1 Fairness

Weak fairness only, and only of what runs by itself:

- *the sweep*: a cron job of every minute, `run_at_startup` (`worker.py:276`), so a
  sweep that died is followed by another one;
- *workers*: a queued job is taken by some executor, and an executor that lives goes on
  to its next step (a job that dies is a fault, and is given no second try:
  `max_tries=1`);
- *the queue* forgets the result it keeps (`ResultExpires`);
- *time* passes;
- *a turn* goes on until it ends (its model calls and tools are timed out), and beats;
- *a stopped turn* ends, by the driver or by cancellation after the grace, and what has
  ended is recorded and closed; a process delivers what was published to it. Nothing says
  that a model answers: a turn nobody stops may stream for ever in `Chat`;
- *the nightly jobs* of retention run every night and go on, a turn in a conversation
  ends, and a restore that replaced the database is finished by who began it;
- *an ingestion*: the request that committed "pending" goes on (or dies), a worker takes
  what is queued, and each job makes its next step within its time limit.

Nothing is assumed of people, handlers, new turns or faults: an admin need never
decide, which is why requests expire.

## 4. Where the code and its own words differ

Two runs are expected to fail: each shows a statement of the repository that the code
does not keep.

| Run | What is said | What happens |
|---|---|---|
| `org_owners` | `services/people.py:67` "An organisation keeps at least one active owner" | In an organisation with two owners, two requests each remove one of them; both count the other one before either commits, and none is left |
| `knowledge_kept` | `services/manifest.py:11-14` "A reindex keeps the old document (marked superseded) while a version still names it, so Chat goes on answering from the copy that was approved" | An ingestion reads what versions keep and deletes minutes later (`rag/ingest.py:252`). A version naming the current document is submitted in between; its approval still finds the document stored and commits after the deletion: the live version has lost the document it was approved with, and its source is still there |

Others were met while modelling and follow from the same models, without a run of their
own. Where a property of section 3 has a premise, it is there for one of these.

*Approvals, versions, people, turns*

- `services/assistants.py:480-481`: "A paused assistant stays paused: approving is not
  reopening." An approval that loaded the assistant as a draft, and waited while an admin
  paused it, publishes it. `make_live` (`:595-604`) and `unarchive` (`:702-706`) act on the
  same stale row: a rollback can leave the version it really replaced `approved`, and a
  reopening can make an assistant with a live version a draft.
- `services/approvals.py:338-339`: "Never the person who asked, unless nobody else at all
  can." When the asker is the only named approver, `deciders` is empty and they may decide,
  though every admin could.
- `services/people.py:17-18` says nothing a leaver asked for runs after they have gone.
  The executor looks at the asker once (`services/executor.py:213`); a deactivation
  between that and the tool's call does not stop it.
- `services/recovery.py:36-37`: "Reply to each question a dead turn left unanswered with a
  notice saying so." Only the newest message is looked at: the outcome of a request posted
  after the question hides it for good. It also reads the questions and then the claims
  (`:73`): a turn that replies and releases between the two is given the notice "This
  message wasn't answered" (`:31`) after its reply.
- `services/turns.py:16` says a conversation has at most one turn running. A turn that
  falls back to memory (`:370`) knows nothing of a claim in Redis; `OneTurnRuns` is for
  runs without a failed call to Redis, and for turns that beat on time, which is what a
  lease is.

*Chat and memory*

- `services/budgets.py:14` says that nothing new that spends is started once a budget is
  used up. The gate is read before the wait for a slot: turns that waited together start
  with the same amount left, and their sum is not bounded by it (`alone` in `LimitKept`).
- A turn can be stopped "for exactly as long as it is streaming"
  (`services/chat.py:1053-1054`): it has its slot before (`:751`), and a stop that arrives
  between that and its registration (`:1056`) is lost on it. `StopEnds` is about turns told
  while they stream.
- A stop that Redis delivers late stops whatever then streams in that conversation, which
  may be the next turn.
- A request is marked reported before the turn that tells the model runs
  (`services/chat.py:548`); when that turn fails, nobody tells it again (`lost`).
- `models/conversation.py:101-103` says `session_summary_version` is the version the
  current session was started from. A fresh turn that fails before its result records the
  summary's new version for the session of the row, which it did not resume
  (`services/chat.py:1385-1390`); hence `count.faults = 0` in `SessionOfItsSummary`.

*Retention*

- A hold placed after the purge read what is held (`services/retention.py:153`) and before
  it deletes does not save the conversation, nor does a request raised in between.
- Each purge is recorded in a commit of its own: a job that dies before it has erased
  without a record, and a restore brings the conversation back (`count.lost` in
  `RecordedUnlessDied`, which says that no more than that is lost). The backup also brings back the holds and the records as they
  were: the script saves the records alone.
- The rule gives up for the night when a batch was not erased as a whole; a full batch of
  the oldest that stays spared keeps younger ones for as long (`QuietAreErased`).

*Knowledge and drafts*

- Two ingestions of a source that overlap each leave their document current
  (`rag/ingest.py:111`); the nightly sweep deletes by the ids it read
  (`services/manifest.py:488`), also one that an ingestion made current again meanwhile
  (`met.writers`).
- An API process that dies between committing "pending" and queueing leaves the source
  waiting for good, and so does a job killed at its last try (`count.lost` in
  `SourceSettles`).
- `models/assistant.py:65-66`: "`draft_config` is always the compiled result of
  `draft_graph` when the graph is valid." Two saves that meet, one through the canvas and
  one through the panels, each write the columns they changed: the graph of the one is
  left with the config of the other, until the next save (`lone` in `InSync`). So can a submission that loaded the
  graph before another save of it (`services/assistants.py:408`).
- The panels keep the settings of a tool that is off
  (`src/apps/web/components/config/tool-settings.tsx:244-245` patches only `enabled`), and
  a graph has no node for it: the config is not what the graph compiles to (`InUse` in
  `InSync`), the next save of the graph drops them, and until then every save of the
  panels redraws the canonical wiring over the user's, as the candidate that keeps it does
  not compile to that config (`graph/project.py:416-423`; `AsDrawn` in `WiringKept`).

## 5. What is proved

TLAPS proves the following for every value of the constants (any number of requests,
handlers, executors, people, versions, conversations, faults), from the assumptions
named in the modules, which TLC evaluates in every run.

**`ApprovalsProofs`.** `IInv` is type correctness with four parts. *ClaimsHold*: an
executor past its claim works on a row that is `executing` and at most `RunLimit` old,
and no two executors hold one request. *EffectsHold*: what was done is exactly the
approved hash and was audited. *MemoryHolds*: what the sweep and handlers remember of a
row still holds when they act on it. And the two properties `SealedWhileOpen` and
`PostsAgree`. `RunsAtMostOnce` alone is not inductive: from a row `approved` with an effect it would be
violated, and that such a row cannot exist is *EffectsHold*; that an executor about to
run is alone with its row, and that the row did not move on, is *ClaimsHold*. The place where the time
assumption enters is *MemoryHolds*: a row older than `StuckAfter` has no live claim,
as a claim is at most `RunLimit <= StuckAfter` old, so when the sweep fails it no one will run
it or post for it. Theorems: `Invariance`, `TypeCorrect`, `AtMostOnce`,
`OnlyWhatWasApproved`, `Sealed`, `PostsTellTheEnding`, `NothingRunsLate`.

Its second part builds on `IInv`. Every action is first put down as one of a few
kinds of step (a request is raised, decided, passed on by a worker or the sweep, or
performed, or rests), and the three theorems there argue by kind only. `OnlyLegalMoves` is the
action property `StatusMoves`. `AuditTellsTheRow` is `OneStory`: the conditional
updates let one ending through, and the entry written without looking at what the
update moved (`executor.py` `record`) tells the same one because, by *ClaimsHold*, the
row is still the executor's. `Implements` is `KeepsContract`: initial states map to
initial states of `ApprovalContract`, and every step to one of its steps or a stutter.

**`AssistantProofs`** has two parts. *The review*: `LiveIsApproved` needs that a
rollback's target is still approved when it commits although the pointer was read stale:
`LockHolds` says that whoever is past the lock holds it alone and that what it checked
there still holds. `SeenWasLive` carries what a turn read through a rollback. Theorems:
`Invariance`, `LiveApproved`, `WaitingNewest`, `ChatsReviewed`, `ReviewsStand`,
`InService`.

*The draft*, for any sources, databases, tools and servers, any graph over them (with any
number of nodes, also of one identity, and any edges, allowed or not), any config and any
number of requests at once. What is hard is said of graphs and configs, not of steps:

- `ReachingIs`: the edges that are allowed lead from one rank of types to a later one, so
  the three rounds of `Reaching` are its fixpoint: who reaches the agent is the agent, or
  has an edge to who does. `ErrorIs` and `WarningIs` say when each issue is raised.
- *Compiling undoes projecting.* `Keys(c)` is what a config has nodes for and `Drawn` which
  of them it connects; `CanonicalNode` and `CanonicalEdges` show the projected graph to be
  that and no more, whatever ids the user's nodes have. From it `CanonicalValid`,
  `CanonicalCompiles` (the config again, but for the settings of what is off) and, with the
  test in `_keep_user_wiring`, `ProjectIs`.
- *Fixes.* `Works(g, i)` is what is asked of one fix; there is a lemma for each code
  (`FixIllegal` ... `FixUnread`), for a graph with anything else wrong with it. They rest
  on `WireWorks`, `DropWorks` and `AddWorks`: a fix adds no error by wiring nodes that may
  be wired, removing what is not the last of its kind, or adding what is missing.
- *Nothing ignored.* `Unignored`: a node that is not on the way to the agent has a
  warning, and all parts of `Compile` look at such nodes only.
- *Wiring.* `CandidateNodes`: if the graph already means the config, all new nodes are a
  guardrail or memory, and between the others the candidate's edges are the user's;
  `CandidateScopes` and `CandidateWired` show that scopes and what reaches the agent stay,
  and `CandidateCompiles` that the test passes, so that the candidate is what is saved.

The invariant of the steps, `DraftInv`, is typing (`DraftTypeOK`), `InSync` and
`SavesHold`: what a save loaded is what is still there unless another was committed
meanwhile, and what it will write was compiled, or projected, from what it loaded.
`InSync` alone says nothing of a save under way. Theorems: `DraftInvariance`,
`GraphAndConfigAgree`, `FixesClearIssues`, `NothingDrawnIgnored`, `WiringStays`. The run
`canvas` checks the part of it that is promised (`InSync`); with `DraftInv` in its place
TLC finds no violation either.

**`OrgRightsProofs`.** `FounderStays`: where the organisation begins with one owner, the
founder (`SoleFounder`), and for any number of requests served at once, with
everything they checked gone stale, the others neither make an owner nor remove the
founder. The strengthening is `FounderReigns`: no invite and no request under way
carries the owner's role, and none aims at the founder; ranks are compared strictly for
removals and with `<=` for grants, and the proof shows that to be enough.
`OwnerKept`: with requests served one at a time (`OneAtATime`) an owner remains, by
`LeavesAnOwner`; the run `org_owners` shows the assumption cannot be dropped.
`AskedMay` and `SomebodyDecides` (from the definition of the rights and typing).
`TypeCorrect`.

**`TurnsProofs`.** `TypeCorrect` holds whatever fails. The safety theorems are for runs in
which only processes fail (`Timely`: no call to Redis fails and turns beat on time), and
for any number of turns, processes, watchers and deaths. `ClaimHeld` is the argument
of the lease: whoever runs holds the claim, and the claim has its whole time left, or all but one
tick while its holder still owes a beat; as `LIVE_TTL` is at least two beats
(`TimeAssumption`) it does not lapse. `OneTurnRuns` alone says nothing of the time left
and is not inductive. `EndMarked` orders the end marker before the release, and
`ConclusionsHold` keeps what a watcher or the sweep found between its two looks: a claim
that was gone cannot come back, as it only passes to a turn that starts. Theorems:
`OneTurnAtATime`, `LostTurnsAreDead`, `NoticedTurnsAreOver`. That `Timely` is needed is
in section 4: with `"redis"` or `"stall"` two turns may run.

**`ChatProofs`.** `TypeCorrect` and `SlotsComeBack`: for any number of turns, processes,
faults and stops, a process's free slots and the turns that hold one (`On(p)`) are all it
has; the proof is about the cardinality of `On(p)` as one turn enters or leaves it
(`SlotsHold`). `CapIsKept` and `LimitIsKept`, the bounds on spend, are not inductive: what
is promised of the total says nothing of what the turns under way may still add.
`OneOpen` says that there is one turn for each conversation, and one at all while `alone`;
`Spending` that a turn has spent less than it may, until the event that ends it;
`WithinCap` and `WithinLimit` that what is recorded and what such a turn may still spend
are together within the limit, plus what was spent in the background meanwhile.

**`MemoryProofs`.** For any number of messages, turns and requests. `Typed` is the typing
(that versions stay below the bound of the instance is left to the size of the instance).
`NothingIsForgotten` rests on `Folded`: as long as the summary job's version is the row's,
what it read is exactly the messages from the end of the summary on, without a gap.
`NoCostIsLost`: each commit adds one to both sides. `EndingsAreTold` by `Tells`, of what a
turn under way was told. `PastIsKnown` and `SessionIsOfItsSummary` share `Memorised`:
`Loaded` (nobody else writes the
session of a row a turn has loaded, and the summary it loaded covers what it is taken to),
`Known` (the session of the row, and the turn under way, know or are told they lack every
answered message), `Matches` (a session that is resumed was started from the summary the
turn loaded). `SessionOfItsSummary` alone says nothing of the turn that is about to write
the row. `OwnTitle` is `OwnTitleStays`.

**`RetentionProofs`.** `TypeCorrect`; `ErasuresAreRecorded` and `ErasuresAreReapplied`,
for any conversations, batches and interleavings of the three jobs. `Gone` says that what a
job has in hand is no longer there; `Orderly` which job runs at which stage of a restore;
`Pending` that while erasures are applied again, all of them that are still there are in
what the job has yet to do, in the batch it has, or among what it spared.

**`KnowledgeProofs`.** For any number of contents, slots, versions and failures. A job
deletes, minutes later, what it decided to delete when it read, so neither `OneCurrent`
nor `NeededAreKept` is inductive: both say only what is committed. Each action is put
down once as what it does (`ReadDoes`, `FlushDoes`, `CommitDoes`, ...), and the invariants
say that what is decided still fits. *Apart*: one job writes at a time, and what is current
is among what it will delete, supersede or bring; from it `OneIsCurrent`, and with
*Single*, that a job brings one document, `NoWindow`. *Spares*: what a job, the sweep or a
deletion is about to take is nothing versions keep, and what a review found stored is
stored; with *Orderly*, that a review works on the version it found (it holds the
assistant's row), it gives `NeededKept`. What versions keep shrinks while a job runs
(`KeepsLess`) and grows only as a review ends, which `met.reviews` keeps apart from jobs.
The version a rollback returns to is covered because its documents were there when it was
replaced (`met.before`). Theorems: `TypeCorrect`, `OneIsCurrent`, `NoWindow`, `NeededKept`.

**Only model-checked**: liveness (`EveryRequestEnds`, `WatchersReturn`, `NewestIsSettled`,
`QuietAreErased`, `ErasedLeaveNothing`, `StopEnds`, `SourceSettles`), as the prover has no
ENABLED. Every invariant and every other action property the runs check is proved. **Only
proved**: the inductive invariants, the typing, `SealedWhileOpen`, `StatusMoves`, `KeepsAnOwner`, `AskedMayAnswer` and
`OwnTitleStays`.

## 6. What is not modelled

- *Data*: formatting, wording, mail, notifications, listings, counts, and everything the
  model or a tool says. A request's input is a member of a small set; its hash is the
  value itself, so two inputs never collide.
- *The database* gives each transaction as one step, in the isolation the code asks for,
  except where a module splits it; Postgres and Redis do not lose what they acknowledged.
- *Approvals*: reminders and notes of a request change `reminded_at` and mail only.
- *Turns*: the events between start and end marker, and the watchers of a log in memory.
- *Assistants*: deletion, diffs, groups. *People*: creating and archiving an
  organisation, handing assistants on, people of two organisations; employees who join by
  their address, without an invite (`services/google_accounts.py:180`), and the second
  factor an admin must pass before acting as one (`security/access.py:37`).
- *Chat*: one budget stands for the tightest one; the gate is read in one step; a waiting
  turn cannot be stopped, as in the code, but leaves when the wait runs out. Attachments,
  the router and the tools are in what a turn costs.
- *Memory*: one message is as long as any other; the order of stamps is the order of
  commits; the cost of a title is left out; a fresh start is of one turn, the code's
  reasons for it are an input; memories of a person across conversations.
- *Retention*: a person's memories, feedback and usage, and the export (`privacy.py`);
  `FilesSweep` is one step, though the code lists the files and then the conversations.
  A turn that begins between the look and the deletion loses its conversation, as in the
  code; its answer is then not recorded.
- *Knowledge*: one source; parsing, chunking, embedding, search, and who may read it. The
  confirmation of a source that was held back, and a change of its access, ask for a
  reindex and are that. Versions submitted before manifests existed are left out.
- *Canvas*: positions and layout, malformed references, duplicate ids and dangling edges
  (both are errors of `validate_graph`, `graph/validate.py:193-213`, and the models' graphs have
  neither), warnings of HTTP tools, references to what does
  not exist (`services/graph_refs`), and the tracing of a turn. A cycle cannot come from
  allowed edges, and the others are errors already.
- Whole parts (see `PROJECT.json`): the agent's run-time, the guardrails, connections to
  outside systems and the web client are I/O or pure functions over text; mail, the audit
  chain, authentication, evals and handoffs are left for later.

## 7. The plan

Done: `DecisionRights`, `Approvals` with its contract and proofs, `VersionReview`,
`OrgRights`, `Turns`, `Chat`, `Memory`, `Retention`, `Knowledge` and `Canvas` with theirs.

Next, in this order:

1. `Chat` composed with `Turns`: a turn as the steps of both, the slot and the claim
   released in the order of the code. With it, an abstract conversation: a sequence of
   questions, each settled once.
2. `RefreshTokens` (`services/auth.py`): rotation, reuse after a lost answer, and
   sign-out meanwhile.
3. `Outbox` (`services/mail.py`) and `AuditChain` (`services/audit_chain.py`):
   at-least-once delivery; sealing against rows that commit late.
4. `EvalRun` (`services/evals.py`): a run whose worker died, and its score.

## 8. Running it

    tlc -workers 2 -config ApprovalsRace.cfg MCApprovals.tla
    tlapm ApprovalsProofs.tla

Each configuration names its module's instance by its prefix: `Approvals*` run
`MCApprovals`, `Version*` `MCVersionReview`, `Turns*` `MCTurns`, `Org*` `MCOrgRights`,
`Chat*` `MCChat`, `Memory*` `MCMemory`, `Retention*` `MCRetention`, `Knowledge*`
`MCKnowledge`, `Canvas*` `MCCanvas`. Every leaf of the proofs is found within the provers'
default time limits or the one its pragma names. `PROJECT.json` lists the components, the
runs, the source lines of every definition, for every property a plausible bug of the code
that breaks it, the hazards and the theorems.
