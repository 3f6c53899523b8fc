----------------------------- MODULE Retention -----------------------------
(***************************************************************************)
(* Erasing conversations for good (services/retention.py): the nightly     *)
(* rule, the owner erasing one person, and erasing again after a backup    *)
(* was restored (scripts/reapply_erasures.py, deploy/backup/restore.sh).   *)
(* All three go through purge, which reads what it must spare, deletes     *)
(* later, and cleans up outside the database after that; the record of an  *)
(* erasure is a commit of its own.                                         *)
(*                                                                         *)
(* Conversations are numbers, in the order they were created.  One that is *)
(* quiet was last answered before the cut-off of its organisation.  The    *)
(* behaviour begins as the backup that may be restored later is taken.     *)
(***************************************************************************)
EXTENDS Naturals, FiniteSets, FiniteSetsExt

CONSTANTS
  Convs, People, Owner,
  Old,        \* those quiet as the behaviour begins
  Batch,      \* BATCH
  MaxBatches, \* MAX_BATCHES
  MaxAsked,   \* bound on the turns begun, holds placed and persons erased, together
  MaxFaults   \* bound on the jobs that die and clean-ups that fail

Jobs == {"night", "owner", "reapply"}

ASSUME ConstantsAssumption ==
  /\ Convs \subseteq Nat /\ IsFiniteSet(Convs) /\ Owner \in [Convs -> People] /\ Old \subseteq Convs
  /\ Batch \in Nat \ {0} /\ MaxBatches \in Nat \ {0}
  /\ MaxAsked \in Nat /\ MaxFaults \in Nat

VARIABLES
  db,       \* what a backup holds: the conversations, those with an open request,
            \* the holds, and the conversations the records of erasures name
  quiet, busy,  \* those not answered for long; those with a turn running
  files,    \* those with a transcript on disk
  job,      \* where each job is
  backup, saved, stage,  \* the backup; the erasures saved before restoring; how far
  count     \* what was asked, faults: for the bounds; lost: what jobs that died had
            \* erased and not recorded (history)

talk == <<quiet, busy>>
restoring == <<backup, saved, stage>>
vars == <<db, talk, files, job, restoring, count>>

Idle == [pc |-> "idle", todo |-> {}, ids |-> {}, gone |-> {}, acc |-> {}, left |-> 0]

Counted(kind, most) == count[kind] < most /\ count' = [count EXCEPT ![kind] = @ + 1]

Asked == Counted("asked", MaxAsked)
Fault == Counted("faults", MaxFaults)

Goes(j, pc) == job' = [job EXCEPT ![j].pc = pc]

\* Erased, and the record not yet committed; erasing again makes no record.
InHand(j) ==
  IF j = "reapply" THEN {}
  ELSE job[j].acc \cup (IF job[j].pc \in {"clean", "purged"} THEN job[j].gone ELSE {})

\* _held, over the conversations it keeps.
HeldNow == {c \in Convs : c \in db.held.convs \/ Owner[c] \in db.held.people}
Spared == HeldNow \cup db.waiting \cup busy

-----------------------------------------------------------------------------
(* Around: turns begin and end; requests and holds come and go.            *)

BeginTurn(c) ==
  /\ c \in db.here \ busy /\ Asked
  /\ busy' = busy \cup {c} /\ files' = files \cup {c}
  /\ UNCHANGED <<db, quiet, job, restoring>>

\* The last answer is dated as the turn is recorded; a turn whose conversation was
\* erased under it records nothing, but has written its transcript.
EndTurn(c) ==
  /\ c \in busy
  /\ busy' = busy \ {c} /\ files' = files \cup {c} /\ quiet' = quiet \ {c}
  /\ UNCHANGED <<db, job, restoring, count>>

Request(c) ==
  /\ c \in busy \cap db.here
  /\ db' = [db EXCEPT !.waiting = @ \cup {c}]
  /\ UNCHANGED <<talk, files, job, restoring, count>>

RequestEnds(c) ==
  /\ c \in db.waiting
  /\ db' = [db EXCEPT !.waiting = @ \ {c}]
  /\ UNCHANGED <<talk, files, job, restoring, count>>

Hold ==
  /\ Asked
  /\ \/ \E c \in db.here : db' = [db EXCEPT !.held.convs = @ \cup {c}]
     \/ \E p \in People : db' = [db EXCEPT !.held.people = @ \cup {p}]
  /\ UNCHANGED <<talk, files, job, restoring>>

Release ==
  /\ \/ \E c \in db.held.convs : db' = [db EXCEPT !.held.convs = @ \ {c}]
     \/ \E p \in db.held.people : db' = [db EXCEPT !.held.people = @ \ {p}]
  /\ UNCHANGED <<talk, files, job, restoring, count>>

-----------------------------------------------------------------------------
(* Purge, for any of the jobs: read what to spare, look which are being    *)
(* answered, delete in one commit, clean up.                               *)

\* Mutant of Purgeable: one conversation that is spared keeps the whole batch.
PurgeableWhole(ids) == IF ids \cap (HeldNow \cup db.waiting) = {} THEN ids \cap db.here ELSE {}

Purgeable(ids) == ((ids \cap db.here) \ HeldNow) \ db.waiting

Batches(S) == {ids \in SUBSET S : Cardinality(ids) = Min({Batch, Cardinality(S)})}

\* The night's batch was read before; the other jobs take the next of their list.
PurgeRead(j) ==
  /\ \/ job[j].pc = "batch" /\ job' = [job EXCEPT ![j].pc = "look",
                                     ![j].gone = Purgeable(job[j].ids)]
     \/ /\ j # "night" /\ job[j].pc = "next" /\ job[j].todo # {}
        /\ \E ids \in Batches(job[j].todo) :
             job' = [job EXCEPT ![j].pc = "look", ![j].ids = ids, ![j].todo = @ \ ids,
                                ![j].gone = Purgeable(ids)]
  /\ UNCHANGED <<db, talk, files, restoring, count>>

\* What purge returns goes into the record: the night's at once, the owner's at the end.
\* Of reapply, what it spared is kept here, for the property about it.
Returned(j, gone) ==
  LET was == job[j]
  IN job' = [job EXCEPT ![j] =
       CASE j = "night"   -> [was EXCEPT !.pc = "purged", !.gone = gone]
         [] j = "owner"   -> [was EXCEPT !.pc = "next", !.ids = {}, !.gone = {},
                                         !.acc = was.acc \cup gone]
         [] j = "reapply" -> [was EXCEPT !.pc = "next", !.ids = {}, !.gone = {},
                                         !.acc = was.acc \cup (was.ids \ gone)]]

PurgeLook(j) ==
  LET gone == job[j].gone \ busy
  IN /\ job[j].pc = "look"
     /\ IF gone = {} THEN Returned(j, {})
        ELSE job' = [job EXCEPT ![j].pc = "delete", ![j].gone = gone]
     /\ UNCHANGED <<db, talk, files, restoring, count>>

\* What refers to a conversation goes with it, holds on it too.
PurgeDelete(j) ==
  /\ job[j].pc = "delete"
  /\ db' = [db EXCEPT !.here = @ \ job[j].gone,
                      !.waiting = @ \ job[j].gone,
                      !.held.convs = @ \ job[j].gone]
  /\ Goes(j, "clean")
  /\ UNCHANGED <<talk, files, restoring, count>>

PurgeClean(j) ==
  /\ job[j].pc = "clean"
  /\ \/ files' = files \ job[j].gone /\ UNCHANGED count
     \/ UNCHANGED files /\ Fault
  /\ Returned(j, job[j].gone)
  /\ UNCHANGED <<db, talk, restoring>>

-----------------------------------------------------------------------------
(* The retention rule, every night: the oldest first, a batch at a time,   *)
(* until a batch was not erased as a whole.                                *)

Stale == db.here \cap quiet

Oldest(S) == {c \in S : Cardinality({d \in S : d < c}) < Batch}

NightBatch ==
  /\ job["night"].pc \in {"idle", "next"}
  /\ job' = [job EXCEPT !["night"] =
       IF Stale = {} THEN Idle
       ELSE [Idle EXCEPT !.pc = "batch", !.ids = Oldest(Stale),
                         !.left = IF job["night"].pc = "next" THEN job["night"].left
                                  ELSE MaxBatches]]
  /\ UNCHANGED <<db, talk, files, restoring, count>>

\* Mutant of RecordOf: a purge that spared a part of its batch is not recorded.
RecordOfWhole(n) == IF n.gone = n.ids THEN n.gone ELSE {}

RecordOf(n) == n.gone

Recorded(convs) == db' = [db EXCEPT !.recorded = @ \cup convs]

NightRecord ==
  LET n == job["night"]
  IN /\ n.pc = "purged"
     /\ Recorded(RecordOf(n))
     /\ job' = [job EXCEPT !["night"] = IF n.gone = n.ids /\ n.left > 1
                  THEN [Idle EXCEPT !.pc = "next", !.left = n.left - 1] ELSE Idle]
     /\ UNCHANGED <<talk, files, restoring, count>>

-----------------------------------------------------------------------------
(* Erasing one person: their conversations in batches, each with its       *)
(* commit; the record in the last one.  What is remembered of a person     *)
(* beside their conversations is not modelled.                             *)

EraseAsk(p) ==
  /\ job["owner"] = Idle /\ Asked
  /\ p \notin db.held.people
  /\ job' = [job EXCEPT !["owner"] =
       [Idle EXCEPT !.pc = "next", !.todo = {c \in db.here : Owner[c] = p}]]
  /\ UNCHANGED <<db, talk, files, restoring>>

EraseCommit ==
  LET o == job["owner"]
  IN /\ o.pc = "next" /\ o.todo = {}
     /\ Recorded(o.acc)
     /\ job' = [job EXCEPT !["owner"] = Idle]
     /\ UNCHANGED <<talk, files, restoring, count>>

-----------------------------------------------------------------------------
(* Restoring the backup: the erasures are saved first, then the services   *)
(* are stopped, the database is replaced, the services started; then what  *)
(* was erased is erased again.                                             *)

SaveErasures ==
  /\ stage = "none"
  /\ saved' = db.recorded /\ stage' = "saved"
  /\ UNCHANGED <<db, talk, files, job, backup, count>>

\* The services are stopped, which cuts off the jobs and turns that run, the database is
\* replaced, the services are started: nothing else acts in between.
Replace ==
  /\ stage = "saved" /\ stage' = "replaced"
  /\ db' = backup /\ quiet' = Old
  /\ job' = [j \in Jobs |-> Idle] /\ busy' = {}
  /\ UNCHANGED <<files, backup, saved, count>>

\* Mutant of Loaded: the erasures of the restored database are applied, not the saved.
LoadedNothing == db.recorded

Loaded == db.recorded \cup saved

\* load_erasures, and reapply reads them all; begun again when it was cut off.
LoadErasures ==
  /\ stage \in {"replaced", "loaded"} /\ job["reapply"] = Idle
  /\ stage' = "loaded"
  /\ db' = [db EXCEPT !.recorded = Loaded]
  /\ job' = [job EXCEPT !["reapply"] = [Idle EXCEPT !.pc = "next", !.todo = Loaded]]
  /\ UNCHANGED <<talk, files, backup, saved, count>>

ReapplyEnds ==
  /\ job["reapply"].pc = "next" /\ job["reapply"].todo = {}
  /\ Goes("reapply", "over")
  /\ UNCHANGED <<db, talk, files, restoring, count>>

JobDies(j) ==
  /\ job[j].pc \notin {"idle", "over"} /\ count.faults < MaxFaults
  /\ count' = [count EXCEPT !.faults = @ + 1, !.lost = @ \cup InHand(j)]
  /\ job' = [job EXCEPT ![j] = Idle]
  /\ UNCHANGED <<db, talk, files, restoring>>

-----------------------------------------------------------------------------
(* The nightly sweep of the files no conversation needs (worker.py).       *)

\* Mutant of Needed: what is on disk is kept, whether its conversation is there.
NeededEver == Convs

Needed == db.here

\* The conversations on disk are read and their files discarded: one step here.
FilesSweep ==
  /\ files' = files \cap Needed
  /\ UNCHANGED <<db, talk, job, restoring, count>>

-----------------------------------------------------------------------------
Init ==
  /\ db = [here |-> Convs, waiting |-> {}, held |-> [convs |-> {}, people |-> {}],
           recorded |-> {}]
  /\ quiet = Old /\ busy = {} /\ files = {}
  /\ job = [j \in Jobs |-> Idle]
  /\ backup = db /\ saved = {} /\ stage = "none"
  /\ count = [asked |-> 0, faults |-> 0, lost |-> {}]

PurgeStep(j) == PurgeRead(j) \/ PurgeLook(j) \/ PurgeDelete(j) \/ PurgeClean(j)

Night == PurgeStep("night") \/ NightBatch \/ NightRecord
Erase == PurgeStep("owner") \/ EraseCommit
Reapply == PurgeStep("reapply") \/ ReapplyEnds
Restore == Replace \/ LoadErasures \/ Reapply

Next ==
  \/ \E c \in Convs : BeginTurn(c) \/ EndTurn(c) \/ Request(c) \/ RequestEnds(c)
  \/ Hold \/ Release
  \/ \E p \in People : EraseAsk(p)
  \/ Night \/ Erase \/ FilesSweep \/ SaveErasures \/ Restore
  \/ \E j \in Jobs : JobDies(j)

Spec == Init /\ [][Next]_vars

\* Cron runs the rule and the sweep every night, and what runs goes on; a turn ends;
\* a restore that began is finished.
Fairness ==
  /\ WF_vars(Night) /\ WF_vars(FilesSweep) /\ WF_vars(Restore)
  /\ \A c \in Convs : WF_vars(EndTurn(c))

FairSpec == Spec /\ Fairness

-----------------------------------------------------------------------------
(* Properties.                                                             *)

Database ==
  [here : SUBSET Convs, waiting : SUBSET Convs,
   held : [convs : SUBSET Convs, people : SUBSET People], recorded : SUBSET Convs]

JobType ==
  [pc : {"idle", "batch", "look", "delete", "clean", "purged", "next", "over"},
   todo : SUBSET Convs, ids : SUBSET Convs,
   gone : SUBSET Convs, acc : SUBSET Convs, left : 0..MaxBatches]

\* Every variable has its type.
TypeOK ==
  /\ db \in Database /\ backup \in Database
  /\ quiet \subseteq Convs /\ busy \subseteq Convs /\ files \subseteq Convs
  /\ job \in [Jobs -> JobType]
  /\ saved \subseteq Convs
  /\ stage \in {"none", "saved", "replaced", "loaded"}
  /\ count \in [asked : 0..MaxAsked, faults : 0..MaxFaults, lost : SUBSET Convs]

\* "Each purge is recorded": what was erased is in a record, or with a job that still
\* runs.  A death loses no more than what the job that died had in hand, and a clean-up
\* that fails loses nothing.
RecordedUnlessDied ==
  stage \in {"none", "saved"} =>
    Convs \ db.here \subseteq
      db.recorded \cup InHand("night") \cup InHand("owner") \cup count.lost

\* Once the saved erasures were applied, what they or the restored database name is
\* gone, except what was spared on the way.
Reapplied ==
  job["reapply"].pc = "over" =>
    (db.recorded \cup saved) \cap db.here \subseteq job["reapply"].acc

\* Conversations that stay quiet are erased: again and again none is left but those that
\* are spared, if fewer than a batch of quiet ones are spared at a time.  The rule gives up
\* for the night as soon as a part of a batch is spared.
QuietAreErased ==
  <>[](Cardinality(Spared \cap Stale) < Batch) => []<>(Stale \subseteq Spared)

\* An erased conversation leaves no transcript behind, not one a clean-up missed and not
\* one a turn still running wrote after it: again and again there is none on disk.
ErasedLeaveNothing == []<>(files \subseteq db.here)
=============================================================================
