----------------------------- MODULE Knowledge -----------------------------
(***************************************************************************)
(* One knowledge source of an assistant, and the versions that answer from *)
(* it.  Ingestion jobs (rag/ingest.py) index the source again; the copies  *)
(* a version names are kept beside the new one (services/manifest.py); the *)
(* versions are submitted, approved and rolled back meanwhile              *)
(* (services/assistants.py), the source may be deleted                     *)
(* (services/data_sources.py), and a nightly job sweeps (worker.py).       *)
(*                                                                         *)
(* The id of a document follows its content, so a document is the content. *)
(* What a job writes, its sweep included, is one transaction: read, flushed*)
(* (which locks the rows), and committed when the embeddings are made,     *)
(* minutes later.                                                          *)
(***************************************************************************)
EXTENDS Naturals, FiniteSets, FiniteSetsExt

CONSTANTS
  Contents,
  Jobs,        \* the worker's slots
  MaxVersions, \* bound on the versions submitted
  MaxEvents    \* bound on the reindexings asked for, the jobs interrupted, the calls to
               \* the queue that fail and the requests that die, together

ASSUME ConstantsAssumption ==
  /\ IsFiniteSet(Contents) /\ Contents # {} /\ IsFiniteSet(Jobs) /\ Jobs \subseteq Nat
  /\ MaxVersions \in Nat /\ MaxEvents \in Nat

Versions == 1..MaxVersions

VARIABLES
  doc,      \* what is committed of each document: none, current or superseded
  status,   \* of the source; "gone" once deleted
  asking,   \* a request that has committed "pending" and has yet to queue the job
  queued,   \* jobs on the queue
  job,      \* what each job is doing, and what it will have removed and superseded
  version,  \* each version: its status, and the documents its manifest names
  live,     \* the live version, 0 for none
  review,   \* the submission, approval or rollback that holds the assistant's row
  sweep,    \* the nightly sweep: the documents it is to delete
  removal,  \* TRUE once a deletion of the source was found to be allowed
  count,    \* for the bounds, and whether a job was lost: never queued, or given up (history)
  met       \* what has overlapped, and the version that was live before the live one was
            \* approved, 0 after a rollback (history)

indexing == <<asking, queued, job>>
reviewing == <<version, live, review>>
removing == <<sweep, removal, met>>
vars == <<doc, status, indexing, reviewing, removing, count>>

None == [step |-> "idle", content |-> {}, gone |-> {}, sup |-> {}]
NoReview == [op |-> "idle", v |-> 0, docs |-> {}, uses |-> FALSE]
NoVersion == [status |-> "none", docs |-> {}, uses |-> FALSE]

Stored == {d \in Contents : doc[d] # "none"}
Current == {d \in Contents : doc[d] = "current"}

\* Mutant of Superseded: the current copies are not left out.
EveryCopy == Stored

Superseded == Stored \ Current

Event == count.events < MaxEvents /\ count' = [count EXCEPT !.events = @ + 1]
EventLosesJob ==
  count.events < MaxEvents /\ count' = [count EXCEPT !.events = @ + 1, !.lost = TRUE]

\* Jobs between reading the documents and committing what becomes of them.
Writing == {j \in Jobs : job[j].step \in {"read", "flushed"}}

\* As one of them begins, or a sweep, a deletion or a review: whether a review met one
\* of the others, and whether two that write met.
Meets ==
  met' = [met EXCEPT
            !.reviews = @ \/ (review'.op # "idle" /\ (Writing' # {} \/ sweep' # {} \/ removal')),
            !.writers = @ \/ Cardinality(Writing') > 1 \/ (Writing' # {} /\ sweep' # {})]

-----------------------------------------------------------------------------
(* What versions keep: kept_documents and versions_using_source.           *)

With(s) == {v \in Versions : version[v].status = s}

\* The approved version a rollback returns to.
Previous == LET others == With("approved") \ {live}
            IN  {v \in others : \A u \in others : u <= v}

\* Mutant of Keeping: the version a rollback returns to keeps nothing.
KeepingNow == With("submitted") \cup (With("approved") \cap {live})

Keeping == With("submitted") \cup (With("approved") \cap {live}) \cup Previous

Kept == UNION {version[v].docs : v \in Keeping}

Using == {v \in With("submitted") \cup (With("approved") \cap {live}) : version[v].uses}

-----------------------------------------------------------------------------
(* Asking for an index: the status is committed, then the job is queued.   *)

\* A reindex, or the builder's answer to a source that was held back.
Reindex ==
  /\ status # "gone" /\ ~asking /\ Event
  /\ status' = "pending" /\ asking' = TRUE
  /\ UNCHANGED <<doc, queued, job, reviewing, removing>>

Queue ==
  /\ asking /\ asking' = FALSE /\ queued' = queued + 1
  /\ UNCHANGED <<doc, status, job, reviewing, removing, count>>

Unless(s) == IF status = "gone" THEN "gone" ELSE s

NotQueued ==
  /\ asking /\ Event /\ asking' = FALSE
  /\ status' = Unless("error")
  /\ UNCHANGED <<doc, queued, job, reviewing, removing>>

\* The API dies between the commit and the queue: nothing indexes the source.
RequestDies ==
  /\ asking /\ EventLosesJob /\ asking' = FALSE
  /\ UNCHANGED <<doc, status, queued, job, reviewing, removing>>

-----------------------------------------------------------------------------
(* One ingestion: ingest_data_source.                                      *)

\* The worker's slots are alike: the first that is free takes it.
Start(j) ==
  /\ j = Min({i \in Jobs : job[i].step = "idle"} \cup {j}) /\ job[j].step = "idle"
  /\ queued > 0 /\ queued' = queued - 1
  /\ IF status = "gone"
       THEN UNCHANGED <<status, job>>
       ELSE status' = "processing" /\ job' = [job EXCEPT ![j].step = "fetch"]
  /\ UNCHANGED <<doc, asking, reviewing, removing, count>>

\* Credentials or identity numbers in it, and everyone could read it.
HoldBack(j) ==
  /\ job[j].step = "fetch"
  /\ status' = Unless("held") /\ job' = [job EXCEPT ![j] = None]
  /\ UNCHANGED <<doc, asking, queued, reviewing, removing, count>>

\* _drop_previous_index: what it deletes, and what it marks superseded.
Dropped(c) == ({c} \cap Stored) \cup (Current \ Kept)

\* Mutant of KeptBeside: the copy versions need stays current.
KeptAsIs(c) == {}

KeptBeside(c) == (Current \cap Kept) \ {c}

Read(j) ==
  /\ job[j].step = "fetch"
  /\ \E c \in Contents :
       job' = [job EXCEPT ![j] = [step |-> "read", content |-> {c},
                                  gone |-> Dropped(c), sup |-> KeptBeside(c)]]
  /\ UNCHANGED <<doc, status, asking, queued, reviewing, sweep, removal, count>> /\ Meets

\* The rows a job's transaction has written, and others wait for.
Locked(j) == IF job[j].step = "flushed"
               THEN job[j].gone \cup job[j].sup \cup job[j].content ELSE {}
LockedBy(js) == UNION {Locked(j) : j \in js}

\* The rows are written, and with them the sweep of superseded copies: of those
\* committed and those this job superseded, the ones no version needs now.  A row
\* to mark that is gone, one to insert that is there, or a source that is gone, and
\* the job fails.
Flush(j) ==
  LET w == job[j]
      swept == ((Superseded \cup w.sup) \ w.gone) \ Kept
  IN  /\ w.step = "read" /\ status # "gone"
      /\ (w.gone \cup w.sup \cup w.content \cup swept) \cap LockedBy(Jobs \ {j}) = {}
      /\ w.sup \subseteq Stored /\ w.content \cap Stored \subseteq w.gone
      /\ job' = [job EXCEPT ![j].step = "flushed", ![j].gone = @ \cup swept, ![j].sup = @ \ swept]
      /\ UNCHANGED <<doc, status, asking, queued, reviewing, removing, count>>

\* The chunks are embedded and written.
Commit(j) ==
  LET w == job[j]
  IN  /\ w.step = "flushed"
      /\ doc' = [d \in Contents |-> IF d \in w.content THEN "current"
                                   ELSE IF d \in w.gone THEN "none"
                                   ELSE IF d \in w.sup THEN "superseded" ELSE doc[d]]
      /\ status' = "ready" /\ job' = [job EXCEPT ![j] = None]
      /\ UNCHANGED <<asking, queued, reviewing, removing, count>>

\* Mutant of Failed: a job that is stopped leaves the status as it set it.
Unrecorded == status

Failed == Unless("error")

\* It fails, or runs past its time limit: rolled back, and the status says so.
Fail(j) ==
  /\ job[j].step # "idle"
  /\ status' = Failed /\ job' = [job EXCEPT ![j] = None]
  /\ UNCHANGED <<doc, asking, queued, reviewing, removing, count>>

\* The queue runs a job again that did not end, or gives it up after its last try: the
\* tries of each are not counted here.
RunAgain == queued' = queued + 1

\* The worker shuts down: the job records that.
Shutdown(j) ==
  /\ job[j].step # "idle" /\ Event
  /\ status' = Failed /\ job' = [job EXCEPT ![j] = None] /\ (RunAgain \/ UNCHANGED queued)
  /\ UNCHANGED <<doc, asking, reviewing, removing>>

\* The worker is killed: nothing is recorded.
Kill(j) ==
  /\ job[j].step # "idle" /\ job' = [job EXCEPT ![j] = None]
  /\ (Event /\ RunAgain) \/ (EventLosesJob /\ UNCHANGED queued)
  /\ UNCHANGED <<doc, status, asking, reviewing, removing>>

-----------------------------------------------------------------------------
(* Versions: each holds the assistant's row from its reads to its commit.  *)

\* The next version is the first that is not there yet.
SubmitReads(v) ==
  /\ review.op = "idle" /\ \A u \in 1..v : version[u].status = "none" <=> u = v
  /\ \E uses \in {FALSE, status # "gone"} :
       review' = [op |-> "submit", v |-> v,
                  docs |-> IF uses THEN Current ELSE {}, uses |-> uses]
  /\ UNCHANGED <<doc, status, indexing, version, live, sweep, removal, count>> /\ Meets

SubmitCommits ==
  /\ review.op = "submit" /\ review' = NoReview
  /\ version' = [v \in Versions |->
       IF v = review.v THEN [status |-> "submitted", docs |-> review.docs, uses |-> review.uses]
       ELSE IF version[v].status = "submitted" THEN [version[v] EXCEPT !.status = "closed"]
       ELSE version[v]]
  /\ UNCHANGED <<doc, status, indexing, live, removing, count>>

\* manifest.check, of the documents.
NoDrift(v) == version[v].docs \subseteq Stored

ApproveChecks(v) ==
  /\ review.op = "idle" /\ version[v].status = "submitted" /\ NoDrift(v)
  /\ review' = [NoReview EXCEPT !.op = "approve", !.v = v]
  /\ UNCHANGED <<doc, status, indexing, version, live, sweep, removal, count>> /\ Meets

\* Refused when it was rejected or withdrawn since.
ApproveCommits ==
  /\ review.op = "approve" /\ review' = NoReview
  /\ IF version[review.v].status = "submitted"
       THEN /\ version' = [version EXCEPT ![review.v].status = "approved"]
            /\ live' = review.v /\ met' = [met EXCEPT !.before = live]
       ELSE UNCHANGED <<version, live, met>>
  /\ UNCHANGED <<doc, status, indexing, sweep, removal, count>>

\* Rejected or withdrawn: one conditional update.  A submission holds the rows of
\* the versions it supersedes.
Close(v) ==
  /\ version[v].status = "submitted" /\ review.op # "submit"
  /\ version' = [version EXCEPT ![v].status = "closed"]
  /\ UNCHANGED <<doc, status, indexing, live, review, removing, count>>

\* make_live.
RollbackChecks(v) ==
  /\ review.op = "idle" /\ version[v].status = "approved" /\ v # live /\ NoDrift(v)
  /\ review' = [NoReview EXCEPT !.op = "rollback", !.v = v]
  /\ UNCHANGED <<doc, status, indexing, version, live, sweep, removal, count>> /\ Meets

RolledBack == {live} \ {0}

RollbackCommits ==
  /\ review.op = "rollback" /\ review' = NoReview
  /\ live' = review.v /\ met' = [met EXCEPT !.before = 0]
  /\ version' = [v \in Versions |->
       IF v \in RolledBack THEN [version[v] EXCEPT !.status = "rolled_back"] ELSE version[v]]
  /\ UNCHANGED <<doc, status, indexing, sweep, removal, count>>

-----------------------------------------------------------------------------
(* Deleting the source, and the nightly sweep.                             *)

RemoveChecks ==
  /\ status # "gone" /\ ~removal /\ Using = {}
  /\ removal' = TRUE
  /\ UNCHANGED <<doc, status, indexing, reviewing, sweep, count>> /\ Meets

\* The insert of a document holds the row of its source.
RemoveCommits ==
  /\ removal /\ removal' = FALSE /\ \A j \in Jobs : job[j].step # "flushed"
  /\ status' = "gone" /\ doc' = [d \in Contents |-> "none"]
  /\ UNCHANGED <<indexing, reviewing, sweep, count, met>>

SweepReads ==
  /\ sweep = {} /\ sweep' = Superseded \ Kept /\ sweep' # {}
  /\ UNCHANGED <<doc, status, indexing, reviewing, removal, count>> /\ Meets

SweepDeletes ==
  /\ sweep # {} /\ sweep \cap LockedBy(Jobs) = {}
  /\ doc' = [d \in Contents |-> IF d \in sweep THEN "none" ELSE doc[d]] /\ sweep' = {}
  /\ UNCHANGED <<status, indexing, reviewing, removal, count, met>>

-----------------------------------------------------------------------------
Init ==
  /\ doc = [d \in Contents |-> "none"] /\ status = "pending" /\ asking = TRUE
  /\ queued = 0 /\ job = [j \in Jobs |-> None]
  /\ version = [v \in Versions |-> NoVersion] /\ live = 0 /\ review = NoReview
  /\ sweep = {} /\ removal = FALSE
  /\ count = [events |-> 0, lost |-> FALSE]
  /\ met = [reviews |-> FALSE, writers |-> FALSE, before |-> 0]

Ask == Reindex \/ Queue \/ NotQueued \/ RequestDies
Ends(j) == Commit(j) \/ Fail(j)
Step(j) == Start(j) \/ HoldBack(j) \/ Read(j) \/ Flush(j) \/ Ends(j)
Interrupt(j) == Shutdown(j) \/ Kill(j)
Review ==
  \/ SubmitCommits \/ ApproveCommits \/ RollbackCommits
  \/ \E v \in Versions : SubmitReads(v) \/ ApproveChecks(v) \/ Close(v) \/ RollbackChecks(v)
Remove == RemoveChecks \/ RemoveCommits
Sweep == SweepReads \/ SweepDeletes

Next ==
  \/ Ask \/ Review \/ Remove \/ Sweep
  \/ \E j \in Jobs : Step(j) \/ Interrupt(j)

Spec == Init /\ [][Next]_vars

\* A worker takes what is queued and carries on with what it took; what waits for a
\* row waits for a job that ends within its time limit.
FairSpec ==
  /\ Spec /\ WF_vars(Queue \/ NotQueued \/ RequestDies) /\ \A j \in Jobs : WF_vars(Step(j))

-----------------------------------------------------------------------------
(* Properties.                                                             *)

\* Every variable has its type.
TypeOK ==
  /\ doc \in [Contents -> {"none", "current", "superseded"}]
  /\ status \in {"pending", "processing", "ready", "error", "held", "gone"}
  /\ asking \in BOOLEAN /\ queued \in Nat
  /\ job \in [Jobs -> [step : {"idle", "fetch", "read", "flushed"}, content : SUBSET Contents,
                       gone : SUBSET Contents, sup : SUBSET Contents]]
  /\ version \in [Versions -> [status : {"none", "submitted", "closed", "approved", "rolled_back"},
                               docs : SUBSET Contents, uses : BOOLEAN]]
  /\ live \in Versions \cup {0}
  /\ review \in [op : {"idle", "submit", "approve", "rollback"}, v : Versions \cup {0},
                 docs : SUBSET Contents, uses : BOOLEAN]
  /\ sweep \subseteq Contents /\ removal \in BOOLEAN
  /\ count \in [events : 0..MaxEvents, lost : BOOLEAN]
  /\ met \in [reviews : BOOLEAN, writers : BOOLEAN, before : Versions \cup {0}]

\* While its source is there, the live version has every document it was approved with,
\* however often the source is indexed again: "Chat goes on answering from the copy that
\* was approved" (manifest.py).  Not kept by the code: a job reads what versions keep
\* minutes before its deletions are committed.
LiveKeepsItsDocs == status # "gone" /\ live # 0 => version[live].docs \subseteq Stored

\* Unless a review met an ingestion, a sweep or a deletion half-way, the documents of
\* the live version and of the one waiting for review are there, and so are those of
\* the version a rollback returns to, if the source is and that version was live when the
\* present one was approved (kept_documents).
NeededAreKept ==
  ~met.reviews =>
    /\ \A v \in With("submitted") \cup ({live} \ {0}) : version[v].docs \subseteq Stored
    /\ status # "gone" /\ met.before \in Previous =>
         version[met.before].docs \subseteq Stored

\* Unless two ingestions, or one and the sweep, met, the source has one current
\* document at most ("One source produces one current document", document_id_for).
OneCurrent == ~met.writers => Cardinality(Current) <= 1

\* Until the source is deleted, and unless an ingestion and the sweep met, there is no
\* window without an index: what answered goes on answering until the next has been
\* committed, whatever fails (ingest_data_source).
IndexStays == [][Current # {} => Current' # {} \/ status' = "gone" \/ met'.writers]_vars

\* A source that is waiting or being indexed comes to say how that ended, also when its
\* jobs are stopped, killed or never queued; unless the API died before it queued one, or
\* the queue gave up one that was killed again and again.
SourceSettles ==
  status \in {"pending", "processing"} ~>
    status \in {"ready", "error", "held", "gone"} \/ count.lost
=============================================================================
