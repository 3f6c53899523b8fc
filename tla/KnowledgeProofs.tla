-------------------------- MODULE KnowledgeProofs --------------------------
(***************************************************************************)
(* What is proved of Knowledge for any contents, worker slots, versions    *)
(* and failures: what versions need is kept unless a review met an         *)
(* ingestion, a sweep or a deletion half-way, and the source has one       *)
(* current document and no window without it unless writers met.           *)
(*                                                                         *)
(* A job deletes what it decided to delete long before.  The invariants    *)
(* say that what it has decided still fits: what versions keep, and which  *)
(* documents are current, when it commits.                                 *)
(***************************************************************************)
EXTENDS Knowledge, FiniteSetTheorems, TLAPS

JobType ==
  [step : {"idle", "fetch", "read", "flushed"}, content : SUBSET Contents,
   gone : SUBSET Contents, sup : SUBSET Contents]
VersionType ==
  [status : {"none", "submitted", "closed", "approved", "rolled_back"},
   docs : SUBSET Contents, uses : BOOLEAN]
ReviewType ==
  [op : {"idle", "submit", "approve", "rollback"}, v : Versions \cup {0},
   docs : SUBSET Contents, uses : BOOLEAN]
MetType == [reviews : BOOLEAN, writers : BOOLEAN, before : Versions \cup {0}]

\* What a review works on is as it was when the review took the row; the live version
\* is an approved one; a version without the source names no document of it; and a job
\* that has flushed its rows keeps the source from being deleted.
Orderly ==
  /\ live # 0 => version[live].status = "approved"
  /\ \A v \in Versions : ~version[v].uses => version[v].docs = {}
  /\ review.op = "submit" =>
       /\ review.v \in Versions /\ version[review.v].status = "none"
       /\ ~review.uses => review.docs = {}
  /\ review.op = "approve" => review.v \in Versions
  /\ review.op = "rollback" =>
       review.v \in Versions \ {live} /\ version[review.v].status = "approved"
  /\ \A j \in Jobs : job[j].step = "flushed" => status # "gone"

\* Writers that do not meet: one at a time, and what it will leave current is what it
\* brings.
Apart ==
  ~met.writers =>
    /\ \A i, j \in Writing : i = j
    /\ Writing # {} => sweep = {}
    /\ sweep \cap Current = {}
    /\ \A j \in Writing : Current \subseteq job[j].gone \cup job[j].sup \cup job[j].content
    /\ \A c, d \in Current : c = d

Single == \A j \in Writing : job[j].content # {} /\ \A c, d \in job[j].content : c = d

\* Reviews that meet no writer: what is to be deleted is nothing versions keep, and what
\* a review is to make live, or to put up for review, is there.
Spares ==
  ~met.reviews =>
    /\ review.op # "idle" => Writing = {} /\ sweep = {} /\ ~removal
    /\ \A j \in Writing : (job[j].gone \ job[j].content) \cap Kept = {}
    /\ sweep \cap Kept = {}
    /\ removal => Using = {}
    /\ review.op = "submit" => review.docs \subseteq Stored
    /\ review.op = "rollback" => version[review.v].docs \subseteq Stored

-----------------------------------------------------------------------------
(* Types.                                                                  *)

\* A step that sets one job keeps the jobs typed if what it is set to is.
LEMMA OneJob ==
  ASSUME job \in [Jobs -> JobType], NEW j \in Jobs, NEW r \in JobType,
         job' = [job EXCEPT ![j] = r]
  PROVE  /\ job' \in [Jobs -> JobType] /\ job'[j] = r
         /\ \A k \in Jobs : k # j => job'[k] = job[k]
<1> HIDE DEF JobType
<1> QED OBVIOUS

LEMMA NoneIs == None \in JobType /\ None.step = "idle"
BY DEF None, JobType

LEMMA TypedInit == ASSUME Init PROVE TypeOK
<1>1. job \in [Jobs -> JobType]
  BY NoneIs DEF Init
<1>2. NoVersion \in VersionType /\ NoReview \in ReviewType
  BY DEF NoVersion, VersionType, NoReview, ReviewType
<1>3. version \in [Versions -> VersionType] /\ review \in ReviewType
  BY <1>2 DEF Init
<1>4. count \in [events : 0..MaxEvents, lost : BOOLEAN] /\ met \in MetType
  BY ConstantsAssumption DEF Init, MetType
<1>5. doc \in [Contents -> {"none", "current", "superseded"}] /\ queued \in Nat
  BY DEF Init
<1> QED BY <1>1, <1>3, <1>4, <1>5 DEF Init, TypeOK, JobType, VersionType, ReviewType, MetType

LEMMA EventIs ==
  ASSUME TypeOK, Event
  PROVE  count' \in [events : 0..MaxEvents, lost : BOOLEAN]
BY ConstantsAssumption DEF TypeOK, Event

LEMMA EventLosesIs ==
  ASSUME TypeOK, EventLosesJob
  PROVE  count' \in [events : 0..MaxEvents, lost : BOOLEAN]
<1>1. /\ count.events < MaxEvents
      /\ count' = [count EXCEPT !.events = @ + 1, !.lost = TRUE]
  BY Zenon DEF EventLosesJob
<1>2. count \in [events : 0..MaxEvents, lost : BOOLEAN]
  BY DEF TypeOK
<1>3. count.events + 1 \in 0..MaxEvents
  BY <1>1, <1>2, ConstantsAssumption
<1>4. \A e \in 0..MaxEvents, l \in BOOLEAN :
        [count EXCEPT !.events = e, !.lost = l] \in [events : 0..MaxEvents, lost : BOOLEAN]
  BY <1>2
<1> QED BY <1>1, <1>3, <1>4

\* Asking for an index and queueing it touch no document, no job, no version.
LEMMA AskDoes ==
  ASSUME TypeOK, Ask
  PROVE  /\ TypeOK' /\ UNCHANGED <<doc, job, version, live, review, sweep, removal, met>>
         /\ status' = "gone" <=> status = "gone"
<1>1. CASE Reindex
  BY <1>1, EventIs DEF Reindex, TypeOK, reviewing, removing
<1>2. CASE Queue
  <2>1. queued' = queued + 1 /\ queued \in Nat /\ asking' = FALSE
    BY <1>2, Zenon DEF Queue, TypeOK
  <2>2. UNCHANGED <<doc, status, job, version, live, review, sweep, removal, count, met>>
    BY <1>2 DEF Queue, reviewing, removing
  <2>4. queued' \in Nat
    BY <2>1
  <2>5. asking' \in BOOLEAN
    BY <2>1
  <2>3. TypeOK'
    BY <2>2, <2>4, <2>5 DEF TypeOK
  <2> QED BY <2>2, <2>3
<1>3. CASE NotQueued
  BY <1>3, EventIs DEF NotQueued, Unless, TypeOK, reviewing, removing
<1>4. CASE RequestDies
  <2>1. asking' = FALSE /\ EventLosesJob
    BY <1>4, Zenon DEF RequestDies
  <2>4. count' \in [events : 0..MaxEvents, lost : BOOLEAN]
    BY <2>1, EventLosesIs
  <2>2. UNCHANGED <<doc, status, job, queued, version, live, review, sweep, removal, met>>
    BY <1>4 DEF RequestDies, reviewing, removing
  <2>5. asking' \in BOOLEAN
    BY <2>1
  <2>6. TypeOK'
    BY <2>2, <2>4, <2>5 DEF TypeOK
  <2> QED BY <2>2, <2>6
<1> QED BY <1>1, <1>2, <1>3, <1>4 DEF Ask

\* A job that starts, ends without a commit or is cut off leaves what is committed as it
\* is, and the other jobs.
Lets(j) == Start(j) \/ HoldBack(j) \/ Fail(j) \/ Interrupt(j)

LEMMA LetsDoes ==
  ASSUME TypeOK, NEW j \in Jobs, Lets(j)
  PROVE  /\ TypeOK' /\ UNCHANGED <<doc, version, live, review, sweep, removal, met>>
         /\ status' = "gone" <=> status = "gone"
         /\ \A k \in Jobs : job'[k].step \in {"read", "flushed"} => job'[k] = job[k]
<1> DEFINE same == UNCHANGED <<doc, version, live, review, sweep, removal, met>>
           gone == status' = "gone" <=> status = "gone"
           idles == job' = [job EXCEPT ![j] = None]
<1>1. job \in [Jobs -> JobType]
  BY DEF TypeOK, JobType
<1>2. ASSUME idles
      PROVE  /\ job' \in [Jobs -> JobType]
             /\ \A k \in Jobs : job'[k].step \in {"read", "flushed"} => job'[k] = job[k]
  BY <1>1, <1>2, NoneIs, OneJob
<1>3. CASE Start(j)
  <2> DEFINE r == [job[j] EXCEPT !.step = "fetch"]
  <2>1. r \in JobType /\ r.step = "fetch"
    BY <1>1 DEF JobType
  <2>2. job' = job \/ job' = [job EXCEPT ![j] = r]
    BY <1>1, <1>3 DEF Start
  <2>3. /\ job' \in [Jobs -> JobType]
        /\ \A k \in Jobs : job'[k].step \in {"read", "flushed"} => job'[k] = job[k]
    <3>1. CASE job' = job
      BY <1>1, <3>1
    <3>2. CASE job' = [job EXCEPT ![j] = r]
      BY <1>1, <2>1, <3>2, OneJob
    <3> QED BY <2>2, <3>1, <3>2
  <2>4. same /\ gone /\ queued' \in Nat
    BY <1>3 DEF Start, TypeOK, reviewing, removing
  <2> QED BY <1>3, <2>3, <2>4 DEF Start, TypeOK, JobType
<1>4. CASE HoldBack(j)
  BY <1>2, <1>4 DEF HoldBack, Unless, TypeOK, JobType, reviewing, removing
<1>5. CASE Fail(j)
  BY <1>2, <1>5 DEF Fail, Failed, Unless, TypeOK, JobType, reviewing, removing
<1>6. CASE Shutdown(j)
  BY <1>2, <1>6, EventIs DEF Shutdown, RunAgain, Failed, Unless, TypeOK, JobType, reviewing, removing
<1>7. CASE Kill(j)
  BY <1>2, <1>7, EventIs, EventLosesIs DEF Kill, RunAgain, TypeOK, JobType, reviewing, removing
<1> QED BY <1>3, <1>4, <1>5, <1>6, <1>7 DEF Lets, Interrupt

\* What two steps that begin say of each other.
LEMMA MeetsDoes ==
  ASSUME TypeOK, Meets
  PROVE  /\ met' \in MetType /\ met'.before = met.before
         /\ ~met'.reviews => ~met.reviews /\ (review'.op # "idle" =>
                               Writing' = {} /\ sweep' = {} /\ ~removal')
         /\ ~met'.writers => /\ ~met.writers /\ ~(Cardinality(Writing') > 1)
                             /\ (Writing' # {} => sweep' = {})
<1>1. met \in MetType
  BY DEF TypeOK, MetType
<1> DEFINE a == met.reviews \/ (review'.op # "idle" /\ (Writing' # {} \/ sweep' # {} \/ removal'))
           b == met.writers \/ Cardinality(Writing') > 1 \/ (Writing' # {} /\ sweep' # {})
<1>2. met' = [met EXCEPT !.reviews = a, !.writers = b]
  BY DEF Meets
<1>3. \A x, y \in BOOLEAN :
        LET m == [met EXCEPT !.reviews = x, !.writers = y]
        IN m \in MetType /\ m.before = met.before /\ m.reviews = x /\ m.writers = y
  BY <1>1 DEF MetType
<1>4. a \in BOOLEAN /\ b \in BOOLEAN
  OBVIOUS
<1>5. met' \in MetType /\ met'.before = met.before /\ met'.reviews = a /\ met'.writers = b
  BY <1>2, <1>3, <1>4, Zenon
<1> QED BY <1>5, Zenon

LEMMA ReadDoes ==
  ASSUME TypeOK, NEW j \in Jobs, Read(j)
  PROVE  /\ TypeOK' /\ UNCHANGED <<doc, status, version, live, review, sweep, removal>> /\ Meets
         /\ job'[j].step = "read" /\ \A k \in Jobs : k # j => job'[k] = job[k]
         /\ \E c \in Contents : /\ job'[j].content = {c}
                                /\ job'[j].gone = Dropped(c) /\ job'[j].sup = KeptBeside(c)
<1>1. UNCHANGED <<doc, status, asking, queued, version, live, review, sweep, removal, count>> /\ Meets
  BY DEF Read, reviewing
<1>2. PICK c \in Contents :
        job' = [job EXCEPT ![j] = [step |-> "read", content |-> {c},
                                   gone |-> Dropped(c), sup |-> KeptBeside(c)]]
  BY DEF Read
<1> DEFINE r == [step |-> "read", content |-> {c}, gone |-> Dropped(c), sup |-> KeptBeside(c)]
<1>3. r \in JobType
  <2>1. Dropped(c) \subseteq Contents /\ KeptBeside(c) \subseteq Contents
    BY DEF Dropped, KeptBeside, Stored, Current
  <2> QED BY <2>1 DEF JobType
<1>4. /\ job' \in [Jobs -> JobType] /\ job'[j] = r
      /\ \A k \in Jobs : k # j => job'[k] = job[k]
  <2> HIDE DEF r
  <2> QED BY <1>2, <1>3, OneJob DEF TypeOK, JobType, r
<1>5. met' \in MetType
  BY <1>1, MeetsDoes
<1>6. TypeOK'
  BY <1>1, <1>4, <1>5 DEF TypeOK, JobType, MetType
<1> QED BY <1>1, <1>4, <1>6

LEMMA FlushDoes ==
  ASSUME TypeOK, NEW j \in Jobs, Flush(j)
  PROVE  /\ TypeOK' /\ UNCHANGED <<doc, status, version, live, review, sweep, removal, met>>
         /\ job[j].step = "read" /\ status # "gone"
         /\ job'[j].step = "flushed" /\ job'[j].content = job[j].content
         /\ job'[j].gone \cup job'[j].sup = job[j].gone \cup job[j].sup
              \cup (((Superseded \cup job[j].sup) \ job[j].gone) \ Kept)
         /\ job'[j].gone = job[j].gone
              \cup (((Superseded \cup job[j].sup) \ job[j].gone) \ Kept)
         /\ \A k \in Jobs : k # j => job'[k] = job[k]
<1> DEFINE swept == ((Superseded \cup job[j].sup) \ job[j].gone) \ Kept
           r == [job[j] EXCEPT !.step = "flushed", !.gone = @ \cup swept, !.sup = @ \ swept]
<1>1. /\ job' = [job EXCEPT ![j] = r] /\ job[j].step = "read" /\ status # "gone"
      /\ UNCHANGED <<doc, status, asking, queued, version, live, review, sweep, removal, met, count>>
  BY DEF Flush, reviewing, removing
<1>2. job \in [Jobs -> JobType] /\ job[j] \in JobType
  BY DEF TypeOK, JobType
<1>3. swept \subseteq Contents
  BY <1>2 DEF JobType, Superseded, Stored
<1> HIDE DEF swept
<1>4. /\ r \in JobType /\ r.step = "flushed" /\ r.content = job[j].content
      /\ r.gone = job[j].gone \cup swept /\ r.sup = job[j].sup \ swept
  BY <1>2, <1>3 DEF JobType
<1> HIDE DEF r
<1>5. /\ job' \in [Jobs -> JobType] /\ job'[j] = r
      /\ \A k \in Jobs : k # j => job'[k] = job[k]
  BY <1>1, <1>2, <1>4, OneJob
<1>6. TypeOK'
  BY <1>1, <1>5 DEF TypeOK, JobType
<1> QED BY <1>1, <1>4, <1>5, <1>6 DEF swept

LEMMA CommitDoes ==
  ASSUME TypeOK, NEW j \in Jobs, Commit(j)
  PROVE  /\ TypeOK' /\ UNCHANGED <<version, live, review, sweep, removal, met>>
         /\ job[j].step = "flushed" /\ job' = [job EXCEPT ![j] = None]
         /\ \A d \in Contents :
              /\ d \in job[j].content => doc'[d] = "current"
              /\ d \in job[j].gone /\ d \notin job[j].content => doc'[d] = "none"
              /\ d \in job[j].sup /\ d \notin job[j].gone /\ d \notin job[j].content =>
                   doc'[d] = "superseded"
              /\ d \notin job[j].content \cup job[j].gone \cup job[j].sup => doc'[d] = doc[d]
<1>1. /\ UNCHANGED <<asking, queued, version, live, review, sweep, removal, met, count>>
      /\ job[j].step = "flushed" /\ job' = [job EXCEPT ![j] = None] /\ status' = "ready"
  BY DEF Commit, reviewing, removing
<1>2. job' \in [Jobs -> JobType]
  BY <1>1, NoneIs, OneJob DEF TypeOK, JobType
<1>3. doc' = [d \in Contents |-> IF d \in job[j].content THEN "current"
                                 ELSE IF d \in job[j].gone THEN "none"
                                 ELSE IF d \in job[j].sup THEN "superseded" ELSE doc[d]]
  BY DEF Commit
<1>5. doc' \in [Contents -> {"none", "current", "superseded"}]
  <2>1. \A d \in Contents : doc[d] \in {"none", "current", "superseded"}
    BY DEF TypeOK
  <2> QED BY <1>3, <2>1
<1>6. TypeOK'
  BY <1>1, <1>2, <1>5 DEF TypeOK, JobType
<1> QED BY <1>1, <1>3, <1>6

\* What begins a review: the row is taken, and what it found of its version is so.
Takes(v) == SubmitReads(v) \/ ApproveChecks(v) \/ RollbackChecks(v)

LEMMA TakesDoes ==
  ASSUME TypeOK, NEW v \in Versions, Takes(v)
  PROVE  /\ TypeOK' /\ UNCHANGED <<doc, status, job, version, live, sweep, removal>> /\ Meets
         /\ review'.op # "idle" /\ review'.v = v
         /\ review'.op = "submit" =>
              /\ version[v].status = "none" /\ review'.docs \subseteq Stored
              /\ ~review'.uses => review'.docs = {}
         /\ review'.op = "rollback" =>
              /\ version[v].status = "approved" /\ v # live
              /\ version[v].docs \subseteq Stored
<1> DEFINE keeps == UNCHANGED <<doc, status, asking, queued, job, version, live, sweep, removal, count>>
<1>1. ASSUME keeps, Meets, review' \in ReviewType PROVE TypeOK'
  <2>1. met' \in MetType
    BY <1>1, MeetsDoes
  <2> QED BY <1>1, <2>1 DEF TypeOK, MetType, ReviewType
<1>2. CASE SubmitReads(v)
  <2>1. keeps /\ Meets /\ version[v].status = "none"
    BY <1>2, ConstantsAssumption DEF SubmitReads, indexing, Versions
  <2>2. PICK uses \in {FALSE, status # "gone"} :
          review' = [op |-> "submit", v |-> v, docs |-> IF uses THEN Current ELSE {}, uses |-> uses]
    BY <1>2 DEF SubmitReads
  <2>3. uses \in BOOLEAN
    OBVIOUS
  <2> DEFINE docs == IF uses THEN Current ELSE {}
  <2>4. docs \subseteq Contents /\ docs \subseteq Stored /\ (~uses => docs = {})
    BY DEF Current, Stored
  <2> HIDE DEF docs
  <2>5. /\ review' \in ReviewType /\ review'.op = "submit" /\ review'.v = v
        /\ review'.docs = docs /\ review'.uses = uses
    BY <2>2, <2>3, <2>4 DEF ReviewType, docs
  <2>6. ~review'.uses => docs = {}
    BY <2>4, <2>5, Zenon
  <2> QED BY <1>1, <2>1, <2>4, <2>5, <2>6
<1>3. CASE ApproveChecks(v)
  <2>1. keeps /\ Meets /\ review' = [NoReview EXCEPT !.op = "approve", !.v = v]
    BY <1>3 DEF ApproveChecks, indexing
  <2>2. review' \in ReviewType /\ review'.op = "approve" /\ review'.v = v
    BY <2>1 DEF NoReview, ReviewType
  <2> QED BY <1>1, <2>1, <2>2
<1>4. CASE RollbackChecks(v)
  <2>1. /\ keeps /\ Meets /\ review' = [NoReview EXCEPT !.op = "rollback", !.v = v]
        /\ version[v].status = "approved" /\ v # live /\ version[v].docs \subseteq Stored
    BY <1>4 DEF RollbackChecks, indexing, NoDrift
  <2>2. review' \in ReviewType /\ review'.op = "rollback" /\ review'.v = v
    BY <2>1 DEF NoReview, ReviewType
  <2> QED BY <1>1, <2>1, <2>2
<1> QED BY <1>2, <1>3, <1>4 DEF Takes

\* What ends one, and a rejection or withdrawal: the versions it changes.
LEMMA NoReviewIs == NoReview \in ReviewType /\ NoReview.op = "idle"
BY DEF NoReview, ReviewType

LEMMA SubmitDoes ==
  ASSUME TypeOK, Orderly, SubmitCommits
  PROVE  /\ TypeOK' /\ UNCHANGED <<doc, status, job, live, sweep, removal, met>>
         /\ review.op = "submit" /\ review' = NoReview /\ review.v \in Versions
         /\ version'[review.v].status = "submitted" /\ version'[review.v].docs = review.docs
         /\ version'[review.v].uses = review.uses
         /\ \A v \in Versions \ {review.v} :
              /\ version'[v].docs = version[v].docs /\ version'[v].uses = version[v].uses
              /\ version'[v].status =
                   IF version[v].status = "submitted" THEN "closed" ELSE version[v].status
<1> DEFINE new == [status |-> "submitted", docs |-> review.docs, uses |-> review.uses]
           closed(v) == [version[v] EXCEPT !.status = "closed"]
<1>1. /\ review.op = "submit" /\ review' = NoReview /\ review.v \in Versions
      /\ UNCHANGED <<doc, status, asking, queued, job, live, sweep, removal, met, count>>
  BY DEF SubmitCommits, Orderly, indexing, removing
<1>2. version' = [v \in Versions |-> IF v = review.v THEN new
                                    ELSE IF version[v].status = "submitted" THEN closed(v)
                                    ELSE version[v]]
  BY DEF SubmitCommits
<1>3. new \in VersionType /\ new.status = "submitted" /\ new.docs = review.docs
      /\ new.uses = review.uses
  BY DEF TypeOK, VersionType
<1>4. ASSUME NEW v \in Versions
      PROVE  /\ version[v] \in VersionType
             /\ closed(v) \in VersionType /\ closed(v).status = "closed"
             /\ closed(v).docs = version[v].docs /\ closed(v).uses = version[v].uses
  BY DEF TypeOK, VersionType
<1> HIDE DEF new, closed
<1>5. version' \in [Versions -> VersionType]
  <2> HIDE DEF VersionType
  <2> QED BY <1>2, <1>3, <1>4
<1>6. version'[review.v] = new
  BY <1>1, <1>2
<1>7. ASSUME NEW v \in Versions \ {review.v}
      PROVE  /\ version'[v].docs = version[v].docs /\ version'[v].uses = version[v].uses
             /\ version'[v].status =
                  IF version[v].status = "submitted" THEN "closed" ELSE version[v].status
  BY <1>2, <1>4
<1>8. TypeOK'
  BY <1>1, <1>5, NoReviewIs DEF TypeOK, VersionType, ReviewType
<1> QED BY <1>1, <1>3, <1>6, <1>7, <1>8

\* The step gives one version another status.
Becomes(v, s) ==
  /\ version'[v].status = s
  /\ \A u \in Versions :
       /\ version'[u].docs = version[u].docs /\ version'[u].uses = version[u].uses
       /\ u # v => version'[u].status = version[u].status

LEMMA BecomesIs ==
  ASSUME TypeOK, NEW v \in Versions,
         NEW s \in {"none", "submitted", "closed", "approved", "rolled_back"},
         version' = [version EXCEPT ![v].status = s]
  PROVE  version' \in [Versions -> VersionType] /\ Becomes(v, s)
<1> DEFINE r == [version[v] EXCEPT !.status = s]
<1>1. version \in [Versions -> VersionType]
  BY DEF TypeOK, VersionType
<1>2. /\ r \in VersionType /\ r.status = s /\ r.docs = version[v].docs
      /\ r.uses = version[v].uses
  BY <1>1 DEF VersionType
<1>3. version' = [version EXCEPT ![v] = r]
  OBVIOUS
<1> HIDE DEF r
<1>4. version' \in [Versions -> VersionType]
  <2> HIDE DEF VersionType
  <2> QED BY <1>1, <1>2, <1>3
<1>5. version'[v] = r /\ \A u \in Versions : u # v => version'[u] = version[u]
  BY <1>1, <1>3
<1> QED BY <1>2, <1>4, <1>5 DEF Becomes

LEMMA CloseDoes ==
  ASSUME TypeOK, NEW v \in Versions, Close(v)
  PROVE  /\ TypeOK' /\ UNCHANGED <<doc, status, job, live, review, sweep, removal, met>>
         /\ version[v].status = "submitted" /\ review.op # "submit" /\ Becomes(v, "closed")
<1>1. /\ UNCHANGED <<doc, status, asking, queued, job, live, review, sweep, removal, met, count>>
      /\ version[v].status = "submitted" /\ review.op # "submit"
      /\ version' = [version EXCEPT ![v].status = "closed"]
  BY DEF Close, indexing, removing
<1>2. version' \in [Versions -> VersionType] /\ Becomes(v, "closed")
  BY <1>1, BecomesIs
<1>3. TypeOK'
  BY <1>1, <1>2 DEF TypeOK, VersionType
<1> QED BY <1>1, <1>2, <1>3

\* met, with another version before the live one.
LEMMA BeforeIs ==
  ASSUME TypeOK, NEW b \in Versions \cup {0}, met' = [met EXCEPT !.before = b]
  PROVE  /\ met' \in MetType /\ met'.before = b
         /\ met'.reviews = met.reviews /\ met'.writers = met.writers
<1>1. met \in MetType
  BY DEF TypeOK, MetType
<1> QED BY <1>1 DEF MetType

LEMMA ApproveDoes ==
  ASSUME TypeOK, Orderly, ApproveCommits
  PROVE  /\ TypeOK' /\ UNCHANGED <<doc, status, job, sweep, removal>>
         /\ review.op = "approve" /\ review' = NoReview /\ review.v \in Versions
         /\ met'.reviews = met.reviews /\ met'.writers = met.writers
         /\ \/ /\ version[review.v].status = "submitted" /\ Becomes(review.v, "approved")
               /\ live' = review.v /\ met'.before = live
            \/ UNCHANGED <<version, live, met>>
<1>1. /\ review.op = "approve" /\ review' = NoReview /\ review.v \in Versions
      /\ UNCHANGED <<doc, status, asking, queued, job, sweep, removal, count>>
  BY DEF ApproveCommits, Orderly, indexing
<1>2. CASE version[review.v].status = "submitted"
  <2>1. /\ version' = [version EXCEPT ![review.v].status = "approved"]
        /\ live' = review.v /\ met' = [met EXCEPT !.before = live]
    BY <1>2 DEF ApproveCommits
  <2>2. version' \in [Versions -> VersionType] /\ Becomes(review.v, "approved")
    BY <1>1, <2>1, BecomesIs
  <2>3. live \in Versions \cup {0}
    BY DEF TypeOK
  <2>4. /\ met' \in MetType /\ met'.before = live
        /\ met'.reviews = met.reviews /\ met'.writers = met.writers
    BY <2>1, <2>3, BeforeIs
  <2>5. TypeOK'
    BY <1>1, <2>1, <2>2, <2>4, NoReviewIs DEF TypeOK, VersionType, ReviewType, MetType
  <2> QED BY <1>1, <1>2, <2>1, <2>2, <2>4, <2>5
<1>3. CASE version[review.v].status # "submitted"
  <2>1. UNCHANGED <<version, live, met>>
    BY <1>3 DEF ApproveCommits
  <2>2. TypeOK'
    BY <1>1, <2>1, NoReviewIs DEF TypeOK, ReviewType
  <2> QED BY <1>1, <2>1, <2>2
<1> QED BY <1>2, <1>3

LEMMA RollbackDoes ==
  ASSUME TypeOK, Orderly, RollbackCommits
  PROVE  /\ TypeOK' /\ UNCHANGED <<doc, status, job, sweep, removal>>
         /\ review.op = "rollback" /\ review' = NoReview /\ review.v \in Versions \ {live}
         /\ version[review.v].status = "approved"
         /\ met'.reviews = met.reviews /\ met'.writers = met.writers /\ met'.before = 0
         /\ live' = review.v
         /\ \A u \in Versions :
              /\ version'[u].docs = version[u].docs /\ version'[u].uses = version[u].uses
              /\ version'[u].status = IF u = live THEN "rolled_back" ELSE version[u].status
<1>1. /\ review.op = "rollback" /\ review' = NoReview /\ review.v \in Versions \ {live}
      /\ version[review.v].status = "approved"
      /\ live' = review.v /\ met' = [met EXCEPT !.before = 0]
      /\ UNCHANGED <<doc, status, asking, queued, job, sweep, removal, count>>
  BY DEF RollbackCommits, Orderly, indexing
<1> DEFINE back(u) == [version[u] EXCEPT !.status = "rolled_back"]
<1>2. version' = [u \in Versions |-> IF u = live THEN back(u) ELSE version[u]]
  BY DEF RollbackCommits, RolledBack, Versions
<1>3. ASSUME NEW u \in Versions
      PROVE  /\ version[u] \in VersionType
             /\ back(u) \in VersionType /\ back(u).status = "rolled_back"
             /\ back(u).docs = version[u].docs /\ back(u).uses = version[u].uses
  BY DEF TypeOK, VersionType
<1> HIDE DEF back
<1>4. version' \in [Versions -> VersionType]
  <2> HIDE DEF VersionType
  <2> QED BY <1>2, <1>3
<1>5. ASSUME NEW u \in Versions
      PROVE /\ version'[u].docs = version[u].docs /\ version'[u].uses = version[u].uses
            /\ version'[u].status = IF u = live THEN "rolled_back" ELSE version[u].status
  BY <1>2, <1>3
<1>6. /\ met' \in MetType /\ met'.before = 0
      /\ met'.reviews = met.reviews /\ met'.writers = met.writers
  BY <1>1, BeforeIs
<1>7. TypeOK'
  BY <1>1, <1>4, <1>6, NoReviewIs DEF TypeOK, VersionType, ReviewType, MetType
<1> QED BY <1>1, <1>5, <1>6, <1>7

LEMMA RemoveDoes ==
  ASSUME TypeOK, RemoveChecks \/ RemoveCommits
  PROVE  /\ TypeOK' /\ UNCHANGED <<job, version, live, review, sweep>>
         /\ RemoveChecks => Using = {} /\ Meets /\ UNCHANGED <<doc, status>> /\ removal'
         /\ RemoveCommits => /\ removal /\ ~removal' /\ met' = met /\ status' = "gone"
                             /\ \A j \in Jobs : job[j].step # "flushed"
                             /\ \A d \in Contents : doc'[d] = "none"
<1>1. CASE RemoveChecks
  <2>1. /\ UNCHANGED <<doc, status, asking, queued, job, version, live, review, sweep, count>>
        /\ Meets /\ Using = {} /\ removal' = TRUE /\ removal = FALSE
    BY <1>1 DEF RemoveChecks, indexing, reviewing, TypeOK
  <2>2. met' \in MetType
    BY <2>1, MeetsDoes
  <2>3. removal' \in BOOLEAN
    BY <2>1
  <2>4. TypeOK'
    BY <2>1, <2>2, <2>3 DEF TypeOK, MetType
  <2>5. ~RemoveCommits
    BY <2>1 DEF RemoveCommits
  <2> QED BY <2>1, <2>4, <2>5
<1>2. CASE RemoveCommits
  <2>1. /\ UNCHANGED <<asking, queued, job, version, live, review, sweep, count, met>>
        /\ removal /\ removal' = FALSE /\ status' = "gone"
        /\ \A j \in Jobs : job[j].step # "flushed"
        /\ doc' = [d \in Contents |-> "none"]
    BY <1>2 DEF RemoveCommits, indexing, reviewing
  <2>2. removal' \in BOOLEAN
    BY <2>1
  <2>3. TypeOK'
    BY <2>1, <2>2 DEF TypeOK
  <2>4. ~RemoveChecks
    BY <2>1 DEF RemoveChecks
  <2> QED BY <2>1, <2>3, <2>4
<1> QED BY <1>1, <1>2

LEMMA SweepDoes ==
  ASSUME TypeOK, Sweep
  PROVE  /\ TypeOK' /\ UNCHANGED <<status, job, version, live, review, removal>>
         /\ \/ /\ sweep = {} /\ sweep' = Superseded \ Kept /\ sweep' # {}
               /\ Meets /\ UNCHANGED doc
            \/ /\ sweep # {} /\ sweep' = {} /\ UNCHANGED met
               /\ \A d \in Contents : doc'[d] = IF d \in sweep THEN "none" ELSE doc[d]
<1>1. CASE SweepReads
  <2>1. /\ UNCHANGED <<doc, status, asking, queued, job, version, live, review, removal, count>>
        /\ sweep = {} /\ sweep' = Superseded \ Kept /\ sweep' # {} /\ Meets
    BY <1>1 DEF SweepReads, indexing, reviewing
  <2>2. met' \in MetType /\ sweep' \subseteq Contents
    BY <2>1, MeetsDoes DEF Superseded, Stored
  <2>3. TypeOK'
    BY <2>1, <2>2 DEF TypeOK, MetType
  <2> QED BY <2>1, <2>3
<1>2. CASE SweepDeletes
  <2>1. /\ UNCHANGED <<status, asking, queued, job, version, live, review, removal, count, met>>
        /\ sweep # {} /\ sweep' = {}
        /\ doc' = [d \in Contents |-> IF d \in sweep THEN "none" ELSE doc[d]]
    BY <1>2 DEF SweepDeletes, indexing, reviewing
  <2>2. doc' \in [Contents -> {"none", "current", "superseded"}]
    BY <2>1 DEF TypeOK
  <2>3. TypeOK'
    BY <2>1, <2>2 DEF TypeOK
  <2> QED BY <2>1, <2>3
<1> QED BY <1>1, <1>2 DEF Sweep

-----------------------------------------------------------------------------
(* Types and order.                                                        *)

LEMMA OrderlyInit == ASSUME Init PROVE Orderly
BY DEF Init, Orderly, None, NoReview, NoVersion

\* A step that leaves the versions and the review alone.
LEMMA OrderlyOn ==
  ASSUME Orderly, UNCHANGED <<version, live, review>>,
         \A j \in Jobs : job'[j].step = "flushed" => status' # "gone"
  PROVE  Orderly'
BY DEF Orderly

LEMMA OrderlyStep ==
  ASSUME TypeOK, Orderly, [Next]_vars
  PROVE  TypeOK' /\ Orderly'
<1>1. CASE Ask
  BY <1>1, AskDoes, OrderlyOn DEF Orderly
<1>2. ASSUME NEW j \in Jobs, Lets(j) PROVE TypeOK' /\ Orderly'
  <2>1. \A k \in Jobs : job'[k].step = "flushed" => status' # "gone"
    BY <1>2, LetsDoes DEF Orderly
  <2> QED BY <1>2, <2>1, LetsDoes, OrderlyOn
<1>3. ASSUME NEW j \in Jobs, Read(j) PROVE TypeOK' /\ Orderly'
  <2>1. \A k \in Jobs : job'[k].step = "flushed" => status' # "gone"
    BY <1>3, ReadDoes DEF Orderly
  <2> QED BY <1>3, <2>1, ReadDoes, OrderlyOn
<1>4. ASSUME NEW j \in Jobs, Flush(j) PROVE TypeOK' /\ Orderly'
  <2>1. \A k \in Jobs : job'[k].step = "flushed" => status' # "gone"
    BY <1>4, FlushDoes DEF Orderly
  <2> QED BY <1>4, <2>1, FlushDoes, OrderlyOn
<1>5. ASSUME NEW j \in Jobs, Commit(j) PROVE TypeOK' /\ Orderly'
  <2>1. status' = "ready"
    BY <1>5 DEF Commit
  <2> QED BY <1>5, <2>1, CommitDoes, OrderlyOn
<1>6. ASSUME NEW v \in Versions, Takes(v) PROVE TypeOK' /\ Orderly'
  BY <1>6, TakesDoes DEF Orderly
<1>7. ASSUME NEW v \in Versions, Close(v) PROVE TypeOK' /\ Orderly'
  <2>1. /\ TypeOK' /\ UNCHANGED <<status, job, live, review>>
        /\ version[v].status = "submitted" /\ review.op # "submit" /\ Becomes(v, "closed")
    BY <1>7, CloseDoes
  <2>2. live # 0 => live \in Versions
    BY DEF TypeOK
  <2>3. \A u \in Versions : version[u].status = "approved" => version'[u].status = "approved"
    BY <2>1 DEF Becomes
  <2>4. \A u \in Versions : ~version'[u].uses => version'[u].docs = {}
    BY <2>1 DEF Becomes, Orderly
  <2> QED BY <2>1, <2>2, <2>3, <2>4 DEF Orderly
<1>8. CASE SubmitCommits
  <2>1. TypeOK' /\ UNCHANGED <<status, job, live>> /\ review'.op = "idle"
    BY <1>8, SubmitDoes, NoReviewIs
  <2>2. live # 0 => live \in Versions
    BY DEF TypeOK
  <2>3. \A u \in Versions : version[u].status = "approved" => version'[u].status = "approved"
    BY <1>8, SubmitDoes DEF Orderly
  <2>4. ASSUME NEW u \in Versions PROVE ~version'[u].uses => version'[u].docs = {}
    <3>1. CASE u = review.v
      BY <1>8, <3>1, SubmitDoes DEF Orderly
    <3>2. CASE u # review.v
      BY <1>8, <3>2, SubmitDoes DEF Orderly
    <3> QED BY <3>1, <3>2
  <2> QED BY <2>1, <2>2, <2>3, <2>4 DEF Orderly
<1>9. CASE ApproveCommits
  BY <1>9, ApproveDoes, NoReviewIs DEF Orderly, Becomes, TypeOK
<1>10. CASE RollbackCommits
  BY <1>10, RollbackDoes, NoReviewIs DEF Orderly, TypeOK
<1>11. CASE Remove
  <2>1. \A k \in Jobs : job'[k].step = "flushed" => status' # "gone"
    BY <1>11, RemoveDoes DEF Remove, Orderly
  <2> QED BY <1>11, <2>1, RemoveDoes, OrderlyOn DEF Remove
<1>12. CASE Sweep
  <2>1. \A k \in Jobs : job'[k].step = "flushed" => status' # "gone"
    BY <1>12, SweepDoes DEF Orderly
  <2> QED BY <1>12, <2>1, SweepDoes, OrderlyOn
<1>13. CASE UNCHANGED vars
  <2>1. UNCHANGED <<doc, status, asking, queued, job, version, live, review, sweep, removal,
                    count, met>>
    BY <1>13 DEF vars, indexing, reviewing, removing
  <2>2. TypeOK'
    BY <2>1 DEF TypeOK
  <2>3. \A k \in Jobs : job'[k].step = "flushed" => status' # "gone"
    BY <2>1 DEF Orderly
  <2> QED BY <2>1, <2>2, <2>3, OrderlyOn
<1> QED
  BY <1>1, <1>2, <1>3, <1>4, <1>5, <1>6, <1>7, <1>8, <1>9, <1>10, <1>11, <1>12, <1>13
  DEF Next, Review, Step, Ends, Lets, Takes

THEOREM OrderlyAlways == Spec => [](TypeOK /\ Orderly)
<1>1. Init => TypeOK /\ Orderly
  BY TypedInit, OrderlyInit
<1>2. TypeOK /\ Orderly /\ [Next]_vars => (TypeOK /\ Orderly)'
  BY OrderlyStep
<1> QED BY <1>1, <1>2, PTL DEF Spec

\* Every variable has its type, for any contents, slots, versions and failures.
THEOREM TypeCorrect == Spec => []TypeOK
<1> QED BY OrderlyAlways, PTL

-----------------------------------------------------------------------------
(* One current document.                                                   *)

LEMMA TwoAreMany ==
  ASSUME NEW S, IsFiniteSet(S), NEW i \in S, NEW k \in S, i # k
  PROVE  Cardinality(S) > 1
<1>1. IsFiniteSet({i}) /\ Cardinality({i}) = 1
  BY FS_Singleton
<1>2. Cardinality({i} \cup {k}) = 2
  BY <1>1, FS_AddElement
<1>3. {i} \cup {k} \subseteq S
  OBVIOUS
<1>4. Cardinality({i} \cup {k}) <= Cardinality(S) /\ Cardinality(S) \in Nat
  BY <1>3, FS_Subset, FS_CardinalityType
<1> QED BY <1>2, <1>4

LEMMA FewIsOne ==
  ASSUME NEW S \in SUBSET Jobs, ~(Cardinality(S) > 1)
  PROVE  \A i, k \in S : i = k
<1>1. IsFiniteSet(S)
  BY ConstantsAssumption, FS_Subset
<1> QED BY <1>1, TwoAreMany

\* A step that leaves the documents, the sweep and what jobs have decided.
LEMMA ApartOn ==
  ASSUME Apart, Single, UNCHANGED <<doc, sweep>>, ~met'.writers => ~met.writers,
         \A k \in Jobs : job'[k].step \in {"read", "flushed"} => job'[k] = job[k]
  PROVE  Apart' /\ Single'
<1>1. Writing' \subseteq Writing /\ \A k \in Writing' : job'[k] = job[k]
  BY DEF Writing
<1>2. Current' = Current
  BY DEF Current
<1> QED BY <1>1, <1>2 DEF Apart, Single

LEMMA ApartInit == ASSUME Init PROVE Apart /\ Single
BY DEF Init, Apart, Single, Writing, Current, None

LEMMA ApartRead ==
  ASSUME TypeOK, Apart, Single, NEW j \in Jobs, Read(j)
  PROVE  Apart' /\ Single'
<1>1. PICK c \in Contents : /\ job'[j].content = {c}
                            /\ job'[j].gone = Dropped(c) /\ job'[j].sup = KeptBeside(c)
  BY ReadDoes
<1>2. /\ UNCHANGED <<doc, sweep>> /\ Meets /\ job'[j].step = "read"
      /\ \A k \in Jobs : k # j => job'[k] = job[k]
  BY ReadDoes
<1>3. j \in Writing' /\ Writing' \subseteq Writing \cup {j} /\ Writing' \subseteq Jobs
  BY <1>2 DEF Writing
<1>4. Current' = Current
  BY <1>2 DEF Current
<1>5. Current \subseteq Dropped(c) \cup KeptBeside(c) \cup {c}
  BY DEF Dropped, KeptBeside
<1>6. Single'
  BY <1>1, <1>2, <1>3 DEF Single
<1>7. ASSUME ~met'.writers PROVE ~met.writers /\ sweep' = {} /\ \A i, k \in Writing' : i = k
  BY <1>2, <1>3, <1>7, MeetsDoes, FewIsOne
<1>8. Apart'
  <2> SUFFICES ASSUME ~met'.writers
               PROVE  /\ \A i, k \in Writing' : i = k
                      /\ Writing' # {} => sweep' = {}
                      /\ sweep' \cap Current' = {}
                      /\ \A k \in Writing' : Current' \subseteq job'[k].gone \cup job'[k].sup
                                                               \cup job'[k].content
                      /\ \A d, e \in Current' : d = e
    BY DEF Apart
  <2>1. \A k \in Writing' : k = j
    BY <1>3, <1>7
  <2> QED BY <1>1, <1>4, <1>5, <1>7, <2>1 DEF Apart
<1> QED BY <1>6, <1>8

LEMMA ApartFlush ==
  ASSUME TypeOK, Apart, Single, NEW j \in Jobs, Flush(j)
  PROVE  Apart' /\ Single'
<1>1. /\ UNCHANGED <<doc, sweep, met>>
      /\ job[j].step = "read" /\ job'[j].step = "flushed" /\ job'[j].content = job[j].content
      /\ job[j].gone \cup job[j].sup \subseteq job'[j].gone \cup job'[j].sup
      /\ \A k \in Jobs : k # j => job'[k] = job[k]
  BY FlushDoes
<1>2. Writing' = Writing
  BY <1>1 DEF Writing
<1>3. Current' = Current
  BY <1>1 DEF Current
<1>4. \A k \in Writing : /\ job'[k].content = job[k].content
                         /\ job[k].gone \cup job[k].sup \subseteq job'[k].gone \cup job'[k].sup
  BY <1>1 DEF Writing
<1> QED BY <1>1, <1>2, <1>3, <1>4 DEF Apart, Single

LEMMA ApartCommit ==
  ASSUME TypeOK, Apart, Single, NEW j \in Jobs, Commit(j)
  PROVE  Apart' /\ Single' /\ Current' # {}
<1>1. /\ UNCHANGED <<sweep, met>> /\ job[j].step = "flushed"
      /\ job'[j] = None /\ \A k \in Jobs : k # j => job'[k] = job[k]
  <2>1. UNCHANGED <<sweep, met>> /\ job[j].step = "flushed" /\ job' = [job EXCEPT ![j] = None]
    BY CommitDoes
  <2>2. job \in [Jobs -> JobType]
    BY DEF TypeOK, JobType
  <2> QED BY <2>1, <2>2, NoneIs, OneJob
<1>2. j \in Writing /\ Writing' \subseteq Writing \ {j} /\ \A k \in Writing' : job'[k] = job[k]
  BY <1>1, NoneIs DEF Writing
<1>3. job[j].content \subseteq Contents /\ job[j].content # {}
      /\ \A c, d \in job[j].content : c = d
  BY <1>2 DEF Single, TypeOK
<1>4. Current' = {d \in Contents : doc'[d] = "current"}
  BY DEF Current
<1>5. job[j].content \subseteq Current'
  BY <1>3, <1>4, CommitDoes
<1>6. Single'
  BY <1>2 DEF Single
<1>7. ASSUME ~met'.writers
      PROVE  Current' \subseteq job[j].content /\ Writing' = {} /\ sweep' = {}
  <2>1. /\ Current \subseteq job[j].gone \cup job[j].sup \cup job[j].content
        /\ sweep = {} /\ \A k \in Writing : k = j
    BY <1>1, <1>2, <1>7 DEF Apart
  <2>2. ASSUME NEW d \in Contents, d \notin job[j].content PROVE doc'[d] # "current"
    <3>1. d \notin job[j].gone \cup job[j].sup => doc[d] # "current"
      BY <2>1, <2>2 DEF Current
    <3> QED BY <2>2, <3>1, CommitDoes
  <2> QED BY <1>1, <1>2, <1>4, <2>1, <2>2
<1>8. Apart'
  BY <1>3, <1>7 DEF Apart
<1> QED BY <1>3, <1>5, <1>6, <1>8

LEMMA ApartSweep ==
  ASSUME TypeOK, Apart, Single, Sweep
  PROVE  /\ Apart' /\ Single'
         /\ ~met'.writers => Current' = Current
<1>1. UNCHANGED job
  BY SweepDoes
<1>2. Writing' = Writing /\ Single'
  BY <1>1 DEF Single, Writing
<1>3. CASE sweep = {} /\ sweep' = Superseded \ Kept /\ sweep' # {} /\ Meets /\ UNCHANGED doc
  <2>1. Current' = Current
    BY <1>3 DEF Current
  <2>2. ~met'.writers => ~met.writers /\ Writing' = {}
    BY <1>3, MeetsDoes
  <2>3. sweep' \cap Current' = {}
    BY <1>3, <2>1 DEF Superseded
  <2> QED BY <1>2, <2>1, <2>2, <2>3 DEF Apart
<1>4. CASE /\ sweep # {} /\ sweep' = {} /\ UNCHANGED met
           /\ \A d \in Contents : doc'[d] = IF d \in sweep THEN "none" ELSE doc[d]
  <2>1. Current' \subseteq Current
    BY <1>4 DEF Current
  <2>2. ~met'.writers => Current' = Current
    BY <1>4 DEF Current, Apart
  <2> QED BY <1>1, <1>2, <1>4, <2>1, <2>2 DEF Apart
<1> QED BY <1>3, <1>4, SweepDoes

LEMMA ApartRemove ==
  ASSUME TypeOK, Apart, Single, Remove
  PROVE  Apart' /\ Single'
<1>1. UNCHANGED <<job, sweep>>
  BY RemoveDoes DEF Remove
<1>2. CASE RemoveChecks
  BY <1>1, <1>2, RemoveDoes, MeetsDoes, ApartOn
<1>3. CASE RemoveCommits
  <2>1. Current' = {} /\ UNCHANGED met
    BY <1>3, RemoveDoes DEF Current
  <2>2. Writing' = Writing
    BY <1>1 DEF Writing
  <2> QED BY <1>1, <2>1, <2>2 DEF Apart, Single
<1> QED BY <1>2, <1>3 DEF Remove

LEMMA ApartStep ==
  ASSUME TypeOK, Orderly, Apart, Single, [Next]_vars
  PROVE  Apart' /\ Single'
<1>1. CASE Ask
  BY <1>1, AskDoes, ApartOn
<1>2. ASSUME NEW j \in Jobs, Lets(j) PROVE Apart' /\ Single'
  BY <1>2, LetsDoes, ApartOn
<1>3. ASSUME NEW v \in Versions, Takes(v) PROVE Apart' /\ Single'
  BY <1>3, TakesDoes, MeetsDoes, ApartOn
<1>4. ASSUME NEW v \in Versions, Close(v) PROVE Apart' /\ Single'
  BY <1>4, CloseDoes, ApartOn
<1>5. CASE SubmitCommits
  BY <1>5, SubmitDoes, ApartOn
<1>6. CASE ApproveCommits
  BY <1>6, ApproveDoes, ApartOn
<1>7. CASE RollbackCommits
  BY <1>7, RollbackDoes, ApartOn
<1>8. CASE UNCHANGED vars
  BY <1>8, ApartOn DEF vars, indexing, removing
<1> QED
  BY <1>1, <1>2, <1>3, <1>4, <1>5, <1>6, <1>7, <1>8,
     ApartRead, ApartFlush, ApartCommit, ApartSweep, ApartRemove
  DEF Next, Review, Step, Ends, Lets, Takes

THEOREM ApartAlways == Spec => [](Apart /\ Single)
<1>1. Init => Apart /\ Single
  BY ApartInit
<1>2. TypeOK /\ Orderly /\ Apart /\ Single /\ [Next]_vars => (Apart /\ Single)'
  BY ApartStep
<1> QED BY <1>1, <1>2, OrderlyAlways, PTL DEF Spec

\* Unless two ingestions, or one and the sweep, met, the source has one current document
\* at most.
THEOREM OneIsCurrent == Spec => []OneCurrent
<1>1. Apart => OneCurrent
  <2> SUFFICES ASSUME \A c, d \in Current : c = d PROVE Cardinality(Current) <= 1
    BY DEF Apart, OneCurrent
  <2>1. CASE Current = {}
    BY <2>1, FS_EmptySet
  <2>2. CASE Current # {}
    <3>1. PICK c : Current = {c}
      BY <2>2
    <3>2. Cardinality({c}) = 1
      BY FS_Singleton
    <3> QED BY <3>1, <3>2
  <2> QED BY <2>1, <2>2
<1> QED BY <1>1, ApartAlways, PTL

\* Until the source is deleted, and unless an ingestion and the sweep met, there is no
\* window without an index, whatever fails.
THEOREM NoWindow == Spec => IndexStays
<1> DEFINE stays == Current # {} => Current' # {} \/ status' = "gone" \/ met'.writers
<1>1. ASSUME TypeOK, Orderly, Apart, Single, [Next]_vars PROVE stays
  <2>1. ASSUME UNCHANGED doc PROVE stays
    BY <2>1 DEF Current
  <2>2. ASSUME NEW j \in Jobs, Step(j) \/ Interrupt(j) PROVE stays
    <3>1. CASE Lets(j)
      BY <1>1, <2>1, <3>1, LetsDoes
    <3>2. CASE Read(j)
      BY <1>1, <2>1, <3>2, ReadDoes
    <3>3. CASE Flush(j)
      BY <1>1, <2>1, <3>3, FlushDoes
    <3>4. CASE Commit(j)
      BY <1>1, <3>4, ApartCommit
    <3> QED BY <2>2, <3>1, <3>2, <3>3, <3>4 DEF Step, Ends, Lets
  <2>3. CASE Review
    BY <1>1, <2>1, <2>3, TakesDoes, CloseDoes, SubmitDoes, ApproveDoes, RollbackDoes
    DEF Review, Takes
  <2>4. CASE Remove
    BY <2>1, <2>4, <1>1, RemoveDoes DEF Remove
  <2>5. CASE Sweep
    BY <2>5, <1>1, ApartSweep
  <2>6. CASE Ask
    BY <2>1, <2>6, <1>1, AskDoes
  <2>7. CASE UNCHANGED vars
    BY <2>1, <2>7 DEF vars
  <2> QED BY <1>1, <2>2, <2>3, <2>4, <2>5, <2>6, <2>7 DEF Next
<1>2. TypeOK /\ Orderly /\ Apart /\ Single /\ [Next]_vars => [stays]_vars
  BY <1>1
<1> QED BY <1>2, OrderlyAlways, ApartAlways, PTL DEF Spec, IndexStays

-----------------------------------------------------------------------------
(* What versions need is kept.                                             *)

\* The versions that need their documents are among those that keep them.
Needing == With("submitted") \cup ({live} \ {0}) \cup (Previous \cap {met.before})

LEMMA NeedingKeeps ==
  ASSUME TypeOK, Orderly, NEW v \in Needing
  PROVE  v \in Versions /\ version[v].docs \subseteq Kept
<1>1. live # 0 => live \in With("approved")
  BY DEF TypeOK, Orderly, With
<1>2. v \in Keeping /\ v \in Versions
  BY <1>1 DEF Needing, Keeping, With, Previous
<1> QED BY <1>2 DEF Kept

\* What versions keep only grows by a submission, an approval or a rollback that ends.
LEMMA KeepsLess ==
  ASSUME UNCHANGED live,
         \A v \in Versions : version'[v].docs = version[v].docs /\ version'[v].uses = version[v].uses,
         \A v \in Versions : version'[v].status = "submitted" => version[v].status = "submitted",
         \A v \in Versions : version'[v].status = "approved" <=> version[v].status = "approved"
  PROVE  /\ With("submitted")' \subseteq With("submitted") /\ Previous' = Previous
         /\ Kept' \subseteq Kept /\ Using' \subseteq Using
<1>1. With("submitted")' \subseteq With("submitted") /\ With("approved")' = With("approved")
  BY DEF With
<1>2. Previous' = Previous
  BY <1>1 DEF Previous
<1>3. Keeping' \subseteq Keeping /\ Keeping' \subseteq Versions
  BY <1>1, <1>2 DEF Keeping, With, Previous
<1>4. Kept' \subseteq Kept
  BY <1>3 DEF Kept
<1>5. Using' \subseteq Using
  <2>1. Using' \subseteq Versions
    BY DEF Using, With
  <2> QED BY <1>1, <2>1 DEF Using
<1> QED BY <1>1, <1>2, <1>4, <1>5

\* A step that leaves the versions leaves what they keep.
LEMMA KeepsSame ==
  ASSUME UNCHANGED <<version, live>>
  PROVE  /\ With("submitted")' = With("submitted") /\ Previous' = Previous
         /\ Kept' = Kept /\ Using' = Using
<1>1. With("submitted")' = With("submitted") /\ With("approved")' = With("approved")
  BY DEF With
<1>2. Previous' = Previous
  BY <1>1 DEF Previous
<1>3. Keeping' = Keeping
  BY <1>1, <1>2 DEF Keeping
<1>4. Kept' = Kept
  BY <1>3 DEF Kept
<1>5. Using' = Using
  BY <1>1 DEF Using
<1> QED BY <1>1, <1>2, <1>4, <1>5

\* A step by which no more versions need their documents, and none that is kept goes.
LEMMA NeededOn ==
  ASSUME TypeOK, Orderly, NeededAreKept,
         ~met'.reviews => ~met.reviews /\ Kept \cap Stored \subseteq Stored',
         met'.before = met.before, live' = live, status' # "gone" => status # "gone",
         \A v \in Versions : version'[v].docs = version[v].docs,
         With("submitted")' \subseteq With("submitted"), Previous' = Previous
  PROVE  NeededAreKept'
<1> SUFFICES ASSUME ~met'.reviews
             PROVE  /\ \A v \in With("submitted")' \cup ({live'} \ {0}) :
                         version'[v].docs \subseteq Stored'
                    /\ status' # "gone" /\ met'.before \in Previous' =>
                         version'[met'.before].docs \subseteq Stored'
  BY DEF NeededAreKept
<1>1. ASSUME NEW v \in Needing, version[v].docs \subseteq Stored
      PROVE  version'[v].docs \subseteq Stored'
  BY <1>1, NeedingKeeps
<1>2. \A v \in With("submitted") \cup ({live} \ {0}) : version[v].docs \subseteq Stored
  BY DEF NeededAreKept
<1>3. status # "gone" /\ met.before \in Previous => version[met.before].docs \subseteq Stored
  BY DEF NeededAreKept
<1>4. \A v \in With("submitted") \cup ({live} \ {0}) : version'[v].docs \subseteq Stored'
  BY <1>1, <1>2 DEF Needing
<1>5. status # "gone" /\ met.before \in Previous => version'[met.before].docs \subseteq Stored'
  BY <1>1, <1>3 DEF Needing
<1> QED BY <1>4, <1>5

\* A step that leaves the documents, the versions, the review and what jobs have decided.
LEMMA SparesOn ==
  ASSUME TypeOK, Orderly, Spares, NeededAreKept,
         UNCHANGED <<doc, version, live, review, sweep, removal, met>>,
         status' # "gone" => status # "gone",
         \A k \in Jobs : job'[k].step \in {"read", "flushed"} => job'[k] = job[k]
  PROVE  Spares' /\ NeededAreKept'
<1>1. Writing' \subseteq Writing /\ \A k \in Writing' : job'[k] = job[k]
  BY DEF Writing
<1>2. Stored' = Stored
  BY DEF Stored
<1>3. NeededAreKept'
  BY <1>2, KeepsSame, NeededOn
<1>4. Spares'
  BY <1>1, <1>2, KeepsSame DEF Spares
<1> QED BY <1>3, <1>4

LEMMA SparesInit == ASSUME Init PROVE Spares /\ NeededAreKept
<1>1. Spares
  BY DEF Init, Spares, Writing, None, NoReview
<1>2. NeededAreKept
  <2>1. With("submitted") = {} /\ With("approved") = {}
    BY DEF Init, With, NoVersion
  <2> QED BY <2>1 DEF NeededAreKept, Previous, Init
<1> QED BY <1>1, <1>2

LEMMA SparesRead ==
  ASSUME TypeOK, Orderly, Spares, NeededAreKept, NEW j \in Jobs, Read(j)
  PROVE  Spares' /\ NeededAreKept'
<1>1. PICK c \in Contents : job'[j].content = {c} /\ job'[j].gone = Dropped(c)
  BY ReadDoes
<1>2. /\ UNCHANGED <<doc, status, version, live, review, sweep, removal>> /\ Meets
      /\ job'[j].step = "read" /\ \A k \in Jobs : k # j => job'[k] = job[k]
  BY ReadDoes
<1>3. j \in Writing' /\ Writing' \subseteq Writing \cup {j}
  BY <1>2 DEF Writing
<1>4. /\ met'.before = met.before
      /\ ~met'.reviews => ~met.reviews /\ review'.op = "idle"
  BY <1>2, <1>3, MeetsDoes
<1>5. NeededAreKept'
  <2>1. Stored' = Stored
    BY <1>2 DEF Stored
  <2> QED BY <1>2, <1>4, <2>1, KeepsSame, NeededOn
<1>6. (job'[j].gone \ job'[j].content) \cap Kept = {}
  BY <1>1 DEF Dropped
<1>7. ASSUME ~met'.reviews
      PROVE  \A k \in Writing' : (job'[k].gone \ job'[k].content) \cap Kept = {}
  <2>1. \A k \in Writing : (job[k].gone \ job[k].content) \cap Kept = {}
    BY <1>4, <1>7 DEF Spares
  <2>2. \A k \in Writing' \ {j} : k \in Writing /\ job'[k] = job[k]
    BY <1>2, <1>3 DEF Writing
  <2> QED BY <1>6, <2>1, <2>2
<1>8. Spares'
  BY <1>2, <1>4, <1>7, KeepsSame DEF Spares
<1> QED BY <1>5, <1>8

LEMMA SparesFlush ==
  ASSUME TypeOK, Orderly, Spares, NeededAreKept, NEW j \in Jobs, Flush(j)
  PROVE  Spares' /\ NeededAreKept'
<1> DEFINE swept == ((Superseded \cup job[j].sup) \ job[j].gone) \ Kept
<1>1. /\ UNCHANGED <<doc, status, version, live, review, sweep, removal, met>>
      /\ job[j].step = "read" /\ job'[j].step = "flushed" /\ job'[j].content = job[j].content
      /\ job'[j].gone = job[j].gone \cup swept
      /\ \A k \in Jobs : k # j => job'[k] = job[k]
  BY FlushDoes
<1>2. Writing' = Writing /\ j \in Writing
  BY <1>1 DEF Writing
<1>3. Stored' = Stored
  BY <1>1 DEF Stored
<1>4. NeededAreKept'
  BY <1>1, <1>3, KeepsSame, NeededOn
<1>5. swept \cap Kept = {}
  OBVIOUS
<1> HIDE DEF swept
<1>6. ASSUME ~met'.reviews
      PROVE  \A k \in Writing' : (job'[k].gone \ job'[k].content) \cap Kept = {}
  <2>1. \A k \in Writing : (job[k].gone \ job[k].content) \cap Kept = {}
    BY <1>1, <1>6 DEF Spares
  <2>2. (job'[j].gone \ job'[j].content) \cap Kept = {}
    BY <1>1, <1>2, <1>5, <2>1
  <2> QED BY <1>1, <1>2, <2>1, <2>2 DEF Writing
<1>7. Spares'
  BY <1>1, <1>2, <1>3, <1>6, KeepsSame DEF Spares
<1> QED BY <1>4, <1>7

LEMMA SparesCommit ==
  ASSUME TypeOK, Orderly, Spares, NeededAreKept, NEW j \in Jobs, Commit(j)
  PROVE  Spares' /\ NeededAreKept'
<1>1. /\ UNCHANGED <<version, live, review, sweep, removal, met>>
      /\ job[j].step = "flushed" /\ status # "gone"
      /\ job'[j] = None /\ \A k \in Jobs : k # j => job'[k] = job[k]
  <2>1. /\ UNCHANGED <<version, live, review, sweep, removal, met>>
        /\ job[j].step = "flushed" /\ job' = [job EXCEPT ![j] = None]
    BY CommitDoes
  <2>2. job \in [Jobs -> JobType] /\ status # "gone"
    BY <2>1 DEF TypeOK, JobType, Orderly
  <2> QED BY <2>1, <2>2, NoneIs, OneJob
<1>2. j \in Writing /\ Writing' \subseteq Writing /\ \A k \in Writing' : job'[k] = job[k]
  BY <1>1, NoneIs DEF Writing
<1>3. ASSUME ~met.reviews
      PROVE  review.op = "idle" /\ (job[j].gone \ job[j].content) \cap Kept = {}
  BY <1>2, <1>3 DEF Spares
<1>4. ASSUME ~met.reviews PROVE Kept \cap Stored \subseteq Stored'
  <2> SUFFICES ASSUME NEW d \in Contents, d \in Kept, doc[d] # "none"
               PROVE  doc'[d] # "none"
    BY DEF Stored
  <2>1. d \in job[j].content \/ d \notin job[j].gone
    BY <1>3, <1>4
  <2> QED BY <2>1, CommitDoes
<1>5. NeededAreKept'
  BY <1>1, <1>4, KeepsSame, NeededOn
<1>6. Spares'
  BY <1>1, <1>2, <1>3, KeepsSame DEF Spares
<1> QED BY <1>5, <1>6

LEMMA SparesTakes ==
  ASSUME TypeOK, Orderly, Spares, NeededAreKept, NEW v \in Versions, Takes(v)
  PROVE  Spares' /\ NeededAreKept'
<1>1. /\ UNCHANGED <<doc, status, job, version, live, sweep, removal>> /\ Meets
      /\ review'.op # "idle" /\ review'.v = v
      /\ review'.op = "submit" => review'.docs \subseteq Stored
      /\ review'.op = "rollback" => version[v].docs \subseteq Stored
  BY TakesDoes
<1>2. /\ met'.before = met.before
      /\ ~met'.reviews => ~met.reviews /\ Writing' = {} /\ sweep' = {} /\ ~removal'
  BY <1>1, MeetsDoes
<1>3. Stored' = Stored
  BY <1>1 DEF Stored
<1>4. NeededAreKept'
  BY <1>1, <1>2, <1>3, KeepsSame, NeededOn
<1>5. Spares'
  BY <1>1, <1>2, <1>3 DEF Spares
<1> QED BY <1>4, <1>5

LEMMA SparesClose ==
  ASSUME TypeOK, Orderly, Spares, NeededAreKept, NEW v \in Versions, Close(v)
  PROVE  Spares' /\ NeededAreKept'
<1>1. /\ UNCHANGED <<doc, status, job, live, review, sweep, removal, met>>
      /\ version[v].status = "submitted" /\ review.op # "submit" /\ Becomes(v, "closed")
  BY CloseDoes
<1>2. /\ \A u \in Versions : /\ version'[u].docs = version[u].docs
                             /\ version'[u].uses = version[u].uses
      /\ \A u \in Versions : version'[u].status = "submitted" => version[u].status = "submitted"
      /\ \A u \in Versions : version'[u].status = "approved" <=> version[u].status = "approved"
  BY <1>1 DEF Becomes
<1>3. /\ With("submitted")' \subseteq With("submitted") /\ Previous' = Previous
      /\ Kept' \subseteq Kept /\ Using' \subseteq Using
  BY <1>1, <1>2, KeepsLess
<1>4. Stored' = Stored /\ Writing' = Writing
  BY <1>1 DEF Stored, Writing
<1>5. NeededAreKept'
  BY <1>1, <1>2, <1>3, <1>4, NeededOn
<1>6. review.op = "rollback" => review.v \in Versions
  BY DEF Orderly
<1>7. Spares'
  BY <1>1, <1>2, <1>3, <1>4, <1>6 DEF Spares
<1> QED BY <1>5, <1>7

\* During a review that met no writer none is there, nothing is swept or deleted; when it
\* ends, what is left to say of Spares is nothing.
LEMMA SparesAfter ==
  ASSUME Spares, review.op # "idle", review'.op = "idle", UNCHANGED <<job, sweep, removal>>,
         met'.reviews = met.reviews
  PROVE  Spares'
<1>1. Writing' = Writing
  BY DEF Writing
<1> QED BY <1>1 DEF Spares

LEMMA SparesSubmit ==
  ASSUME TypeOK, Orderly, Spares, NeededAreKept, SubmitCommits
  PROVE  Spares' /\ NeededAreKept'
<1>1. /\ UNCHANGED <<doc, status, job, live, sweep, removal, met>>
      /\ review.op = "submit" /\ review' = NoReview /\ review.v \in Versions
      /\ version'[review.v].status = "submitted" /\ version'[review.v].docs = review.docs
      /\ \A v \in Versions \ {review.v} :
           /\ version'[v].docs = version[v].docs
           /\ version'[v].status =
                IF version[v].status = "submitted" THEN "closed" ELSE version[v].status
  BY SubmitDoes
<1>2. Spares'
  BY <1>1, NoReviewIs, SparesAfter
<1>3. /\ version[review.v].status = "none"
      /\ live # 0 => live \in Versions /\ version[live].status = "approved"
  BY <1>1 DEF Orderly, TypeOK
<1>4. With("submitted")' \subseteq {review.v} /\ With("approved")' = With("approved")
  BY <1>1, <1>3 DEF With
<1>5. Previous' = Previous /\ Previous \subseteq Versions \ {review.v}
  BY <1>1, <1>3, <1>4 DEF Previous, With
<1>6. Stored' = Stored
  BY <1>1 DEF Stored
<1>7. ~met.reviews => review.docs \subseteq Stored
  BY <1>1 DEF Spares
<1>8. ~met.reviews =>
        \A v \in With("submitted")' \cup ({live'} \ {0}) : version'[v].docs \subseteq Stored'
  BY <1>1, <1>3, <1>4, <1>6, <1>7 DEF NeededAreKept
<1>9. ~met.reviews =>
        (status' # "gone" /\ met'.before \in Previous' =>
           version'[met'.before].docs \subseteq Stored')
  BY <1>1, <1>5, <1>6 DEF NeededAreKept
<1>10. NeededAreKept'
  BY <1>1, <1>8, <1>9 DEF NeededAreKept
<1> QED BY <1>2, <1>10

\* The version approved was submitted, and the one it replaces was live.
LEMMA SparesApprove ==
  ASSUME TypeOK, Orderly, Spares, NeededAreKept, ApproveCommits
  PROVE  Spares' /\ NeededAreKept'
<1>1. /\ UNCHANGED <<doc, status, job, sweep, removal>>
      /\ review.op = "approve" /\ review' = NoReview /\ review.v \in Versions
      /\ met'.reviews = met.reviews
  BY ApproveDoes
<1>2. Spares'
  BY <1>1, NoReviewIs, SparesAfter
<1>3. Stored' = Stored
  BY <1>1 DEF Stored
<1>4. CASE /\ version[review.v].status = "submitted" /\ Becomes(review.v, "approved")
           /\ live' = review.v /\ met'.before = live
  <2>1. /\ With("submitted")' \subseteq With("submitted") /\ review.v \in With("submitted")
        /\ \A v \in Versions : version'[v].docs = version[v].docs
    BY <1>1, <1>4 DEF With, Becomes
  <2>2. With("submitted") \subseteq Versions /\ Previous' \subseteq Versions /\ 0 \notin Versions
    BY DEF With, Previous, Versions
  <2>3. ~met.reviews =>
          \A v \in With("submitted") \cup ({live} \ {0}) : version[v].docs \subseteq Stored
    BY DEF NeededAreKept
  <2>4. live' \in With("submitted") /\ met'.before = live
    BY <1>4, <2>1
  <2>5. live # 0 => live \in Versions
    BY DEF TypeOK
  <2>6. ~met.reviews =>
          \A v \in With("submitted")' \cup ({live'} \ {0}) : version'[v].docs \subseteq Stored'
    BY <1>3, <2>1, <2>2, <2>3, <2>4
  <2>7. ~met.reviews /\ met'.before \in Previous' => version'[met'.before].docs \subseteq Stored'
    BY <1>3, <2>1, <2>2, <2>3, <2>4, <2>5
  <2> QED BY <1>1, <1>2, <2>6, <2>7 DEF NeededAreKept
<1>5. CASE UNCHANGED <<version, live, met>>
  BY <1>1, <1>2, <1>3, <1>5, KeepsSame, NeededOn
<1> QED BY <1>4, <1>5, ApproveDoes

LEMMA SparesRollback ==
  ASSUME TypeOK, Orderly, Spares, NeededAreKept, RollbackCommits
  PROVE  Spares' /\ NeededAreKept'
<1>1. /\ UNCHANGED <<doc, status, job, sweep, removal>>
      /\ review.op = "rollback" /\ review' = NoReview /\ review.v \in Versions \ {live}
      /\ met'.reviews = met.reviews /\ met'.before = 0 /\ live' = review.v
      /\ \A u \in Versions :
           /\ version'[u].docs = version[u].docs
           /\ version'[u].status = IF u = live THEN "rolled_back" ELSE version[u].status
  BY RollbackDoes
<1>2. Spares'
  BY <1>1, NoReviewIs, SparesAfter
<1>3. Stored' = Stored
  BY <1>1 DEF Stored
<1>4. /\ With("submitted")' \subseteq With("submitted") /\ With("submitted") \subseteq Versions
      /\ met'.before \notin Previous'
  BY <1>1 DEF With, Previous, Versions
<1>5. ~met.reviews => version[review.v].docs \subseteq Stored
  BY <1>1 DEF Spares
<1>6. ~met.reviews => \A v \in With("submitted") : version[v].docs \subseteq Stored
  BY DEF NeededAreKept
<1>7. ~met.reviews =>
        \A v \in With("submitted")' \cup ({live'} \ {0}) : version'[v].docs \subseteq Stored'
  BY <1>1, <1>3, <1>4, <1>5, <1>6
<1>8. NeededAreKept'
  BY <1>1, <1>4, <1>7 DEF NeededAreKept
<1> QED BY <1>2, <1>8

\* A source is deleted when no version in use has it, so those name no document of it.
LEMMA SparesRemove ==
  ASSUME TypeOK, Orderly, Spares, NeededAreKept, Remove
  PROVE  Spares' /\ NeededAreKept'
<1>1. UNCHANGED <<job, version, live, review, sweep>>
  BY RemoveDoes DEF Remove
<1>2. Writing' = Writing
  BY <1>1 DEF Writing
<1>3. CASE RemoveChecks
  <2>1. Using = {} /\ Meets /\ UNCHANGED <<doc, status>> /\ removal'
    BY <1>3, RemoveDoes
  <2>2. /\ met'.before = met.before
        /\ ~met'.reviews => ~met.reviews /\ review'.op = "idle"
    BY <2>1, MeetsDoes
  <2>3. Stored' = Stored
    BY <2>1 DEF Stored
  <2>4. NeededAreKept'
    BY <1>1, <2>1, <2>2, <2>3, KeepsSame, NeededOn
  <2>5. Spares'
    BY <1>1, <1>2, <2>1, <2>2, KeepsSame DEF Spares
  <2> QED BY <2>4, <2>5
<1>4. CASE RemoveCommits
  <2>1. removal /\ ~removal' /\ met' = met /\ status' = "gone"
    BY <1>4, RemoveDoes
  <2>2. ~met.reviews => Using = {} /\ review.op = "idle"
    BY <2>1 DEF Spares
  <2>3. Spares'
    BY <1>1, <1>2, <2>1, <2>2, KeepsSame DEF Spares
  <2>4. With("submitted") \cup ({live} \ {0}) \subseteq
          With("submitted") \cup (With("approved") \cap {live})
    BY DEF With, Orderly, TypeOK
  <2>5. Using = {} =>
          \A v \in With("submitted") \cup ({live} \ {0}) : version[v].docs = {}
    <3> SUFFICES ASSUME Using = {}, NEW v \in With("submitted") \cup ({live} \ {0})
                 PROVE  version[v].docs = {}
      OBVIOUS
    <3>1. v \in Versions
      BY <2>4 DEF With
    <3>2. ~version[v].uses
      BY <2>4 DEF Using
    <3> QED BY <3>1, <3>2 DEF Orderly
  <2>6. NeededAreKept'
    <3>1. ~met'.reviews =>
            \A v \in With("submitted")' \cup ({live'} \ {0}) : version'[v].docs \subseteq Stored'
      BY <1>1, <2>1, <2>2, <2>5, KeepsSame
    <3> QED BY <2>1, <3>1 DEF NeededAreKept
  <2> QED BY <2>3, <2>6
<1> QED BY <1>3, <1>4 DEF Remove

LEMMA SparesSweep ==
  ASSUME TypeOK, Orderly, Spares, NeededAreKept, Sweep
  PROVE  Spares' /\ NeededAreKept'
<1>1. UNCHANGED <<status, job, version, live, review, removal>>
  BY SweepDoes
<1>2. Writing' = Writing
  BY <1>1 DEF Writing
<1>3. CASE sweep = {} /\ sweep' = Superseded \ Kept /\ sweep' # {} /\ Meets /\ UNCHANGED doc
  <2>1. /\ met'.before = met.before
        /\ ~met'.reviews => ~met.reviews /\ review'.op = "idle"
    BY <1>3, MeetsDoes
  <2>2. Stored' = Stored /\ sweep' \cap Kept = {}
    BY <1>3 DEF Stored
  <2>3. NeededAreKept'
    BY <1>1, <2>1, <2>2, KeepsSame, NeededOn
  <2>4. Spares'
    BY <1>1, <1>2, <2>1, <2>2, KeepsSame DEF Spares
  <2> QED BY <2>3, <2>4
<1>4. CASE /\ sweep # {} /\ sweep' = {} /\ UNCHANGED met
           /\ \A d \in Contents : doc'[d] = IF d \in sweep THEN "none" ELSE doc[d]
  <2>1. ~met.reviews => review.op = "idle" /\ sweep \cap Kept = {}
    BY <1>4 DEF Spares
  <2>2. ~met.reviews => Kept \cap Stored \subseteq Stored'
    BY <1>4, <2>1 DEF Stored
  <2>3. NeededAreKept'
    BY <1>1, <1>4, <2>2, KeepsSame, NeededOn
  <2>4. Spares'
    BY <1>1, <1>2, <1>4, <2>1, KeepsSame DEF Spares
  <2> QED BY <2>3, <2>4
<1> QED BY <1>3, <1>4, SweepDoes

LEMMA SparesStep ==
  ASSUME TypeOK, Orderly, Spares, NeededAreKept, [Next]_vars
  PROVE  Spares' /\ NeededAreKept'
<1>1. CASE Ask
  BY <1>1, AskDoes, SparesOn
<1>2. ASSUME NEW j \in Jobs, Lets(j) PROVE Spares' /\ NeededAreKept'
  BY <1>2, LetsDoes, SparesOn
<1>3. CASE UNCHANGED vars
  BY <1>3, SparesOn DEF vars, indexing, reviewing, removing
<1> QED
  BY <1>1, <1>2, <1>3, SparesRead, SparesFlush, SparesCommit, SparesTakes, SparesClose,
     SparesSubmit, SparesApprove, SparesRollback, SparesRemove, SparesSweep
  DEF Next, Review, Step, Ends, Lets, Takes

\* Unless a review met an ingestion, a sweep or a deletion half-way, the documents of the
\* live version, of the one waiting for review and of the one a rollback returns to are
\* there, for any contents, slots, versions and failures.
THEOREM NeededKept == Spec => []NeededAreKept
<1>1. Init => Spares /\ NeededAreKept
  BY SparesInit
<1>2. TypeOK /\ Orderly /\ Spares /\ NeededAreKept /\ [Next]_vars => (Spares /\ NeededAreKept)'
  BY SparesStep
<1> QED BY <1>1, <1>2, OrderlyAlways, PTL DEF Spec

=============================================================================
