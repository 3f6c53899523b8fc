-------------------------- MODULE RetentionProofs --------------------------
(***************************************************************************)
(* What is proved of Retention for any conversations and people, any size  *)
(* and number of batches: the types, that what was erased is recorded but  *)
(* for what a job had in hand as it died, and that it stays erased after a *)
(* restore.                                                                *)
(*                                                                         *)
(* Both properties rest on the same two facts: what a job holds as erased  *)
(* is no longer there, since only a restore brings conversations back, and *)
(* a restore cuts the jobs off; and erasing again runs only after one.     *)
(***************************************************************************)
EXTENDS Retention, TLAPS

CountType == [asked : 0..MaxAsked, faults : 0..MaxFaults, lost : SUBSET Convs]

LEMMA IdleIs ==
  /\ Idle \in JobType /\ Idle.pc = "idle" /\ Idle.todo = {} /\ Idle.ids = {}
  /\ Idle.gone = {} /\ Idle.acc = {}
BY ConstantsAssumption DEF Idle, JobType

\* A step that changes one job keeps the jobs typed if what it becomes is.
LEMMA OneJob ==
  ASSUME job \in [Jobs -> JobType], NEW j \in Jobs, NEW r \in JobType,
         job' = [job EXCEPT ![j] = r]
  PROVE  /\ job' \in [Jobs -> JobType] /\ job'[j] = r
         /\ \A k \in Jobs : k # j => job'[k] = job[k]
<1> HIDE DEF JobType
<1> QED OBVIOUS

LEMMA TypedInit == ASSUME Init PROVE TypeOK
<1>1. db \in Database /\ backup \in Database
  BY DEF Init, Database
<1>2. job \in [Jobs -> JobType]
  BY IdleIs DEF Init
<1> QED BY <1>1, <1>2, ConstantsAssumption DEF Init, TypeOK

-----------------------------------------------------------------------------
(* What a step of each job does.                                           *)

LEMMA ReadDoes ==
  ASSUME TypeOK, NEW j \in Jobs, PurgeRead(j)
  PROVE  /\ job' \in [Jobs -> JobType] /\ \A k \in Jobs : k # j => job'[k] = job[k]
         /\ job[j].pc \in {"batch", "next"}
         /\ job'[j].pc = "look" /\ job'[j].acc = job[j].acc
         /\ job[j].pc = "next" => job[j].todo \subseteq job'[j].todo \cup job'[j].ids
         /\ job[j].pc = "batch" => job'[j].todo = job[j].todo /\ job'[j].ids = job[j].ids
         /\ UNCHANGED <<db, talk, files, restoring, count>>
<1> DEFINE typed(S) == S \subseteq Convs
<1>1. job[j] \in JobType /\ job \in [Jobs -> JobType]
  BY DEF TypeOK
<1>2. \A ids : typed(ids) => typed(Purgeable(ids))
  BY DEF Purgeable, TypeOK, Database
<1>3. UNCHANGED <<db, talk, files, restoring, count>>
  BY DEF PurgeRead
<1>4. CASE job[j].pc = "batch" /\ job' = [job EXCEPT ![j].pc = "look", ![j].gone = Purgeable(job[j].ids)]
  <2> DEFINE g == Purgeable(job[j].ids)
             r == [job[j] EXCEPT !.pc = "look", !.gone = g]
  <2>1. typed(g)
    BY <1>1, <1>2 DEF JobType
  <2>2. job' = [job EXCEPT ![j] = r]
    BY <1>4
  <2> HIDE DEF g
  <2>3. /\ r \in JobType /\ r.pc = "look" /\ r.acc = job[j].acc
        /\ r.todo = job[j].todo /\ r.ids = job[j].ids
    BY <1>1, <2>1 DEF JobType
  <2> HIDE DEF r
  <2> QED BY <1>1, <1>3, <1>4, <2>2, <2>3, OneJob
<1>5. CASE /\ j # "night" /\ job[j].pc = "next"
           /\ \E ids \in Batches(job[j].todo) :
                job' = [job EXCEPT ![j].pc = "look", ![j].ids = ids, ![j].todo = @ \ ids,
                                   ![j].gone = Purgeable(ids)]
  <2>1. PICK ids \in Batches(job[j].todo) :
          job' = [job EXCEPT ![j].pc = "look", ![j].ids = ids, ![j].todo = @ \ ids,
                             ![j].gone = Purgeable(ids)]
    BY <1>5
  <2>2. ids \subseteq job[j].todo
    BY <2>1 DEF Batches
  <2> DEFINE g == Purgeable(ids)
             r == [job[j] EXCEPT !.pc = "look", !.ids = ids, !.todo = job[j].todo \ ids, !.gone = g]
  <2>3. typed(ids) /\ typed(g)
    BY <1>1, <1>2, <2>2 DEF JobType
  <2>4. job' = [job EXCEPT ![j] = r]
    BY <2>1
  <2> HIDE DEF g
  <2>5. /\ r \in JobType /\ r.pc = "look" /\ r.acc = job[j].acc
        /\ r.todo = job[j].todo \ ids /\ r.ids = ids
    BY <1>1, <2>3 DEF JobType
  <2> HIDE DEF r
  <2> QED BY <1>1, <1>3, <1>5, <2>4, <2>5, OneJob
<1> QED BY <1>4, <1>5 DEF PurgeRead

\* What purge returns is the record's to keep, or what it spared is.
LEMMA ReturnedIs ==
  ASSUME TypeOK, NEW j \in Jobs, NEW gone \in SUBSET Convs, Returned(j, gone)
  PROVE  /\ job' \in [Jobs -> JobType] /\ \A k \in Jobs : k # j => job'[k] = job[k]
         /\ j = "night" => /\ job'[j].pc = "purged" /\ job'[j].gone = gone
                           /\ job'[j].acc = job[j].acc
         /\ j = "owner" => job'[j].pc = "next" /\ job'[j].acc = job[j].acc \cup gone
         /\ j = "reapply" => /\ job'[j].pc = "next" /\ job'[j].ids = {}
                             /\ job'[j].todo = job[j].todo
                             /\ job'[j].acc = job[j].acc \cup (job[j].ids \ gone)
<1>1. job[j] \in JobType /\ job \in [Jobs -> JobType]
  BY DEF TypeOK
<1>2. CASE j = "night"
  <2> DEFINE r == [job[j] EXCEPT !.pc = "purged", !.gone = gone]
  <2>1. job' = [job EXCEPT ![j] = r]
    BY <1>2 DEF Returned
  <2>2. r \in JobType /\ r.pc = "purged" /\ r.gone = gone /\ r.acc = job[j].acc
    BY <1>1 DEF JobType
  <2> HIDE DEF r
  <2> QED BY <1>1, <1>2, <2>1, <2>2, OneJob
<1>3. CASE j = "owner"
  <2> DEFINE r == [job[j] EXCEPT !.pc = "next", !.ids = {}, !.gone = {}, !.acc = job[j].acc \cup gone]
  <2>1. job' = [job EXCEPT ![j] = r]
    <3>1. j # "night"
      BY <1>3
    <3> QED BY <1>3, <3>1 DEF Returned
  <2>2. r \in JobType /\ r.pc = "next" /\ r.acc = job[j].acc \cup gone
    BY <1>1 DEF JobType
  <2> HIDE DEF r
  <2> QED BY <1>1, <1>3, <2>1, <2>2, OneJob
<1>4. CASE j = "reapply"
  <2> DEFINE r == [job[j] EXCEPT !.pc = "next", !.ids = {}, !.gone = {},
                                 !.acc = job[j].acc \cup (job[j].ids \ gone)]
  <2>1. job' = [job EXCEPT ![j] = r]
    <3>1. j # "night" /\ j # "owner"
      BY <1>4
    <3> QED BY <1>4, <3>1 DEF Returned
  <2>2. /\ r \in JobType /\ r.pc = "next" /\ r.ids = {} /\ r.todo = job[j].todo
        /\ r.acc = job[j].acc \cup (job[j].ids \ gone)
    BY <1>1 DEF JobType
  <2> HIDE DEF r
  <2> QED BY <1>1, <1>4, <2>1, <2>2, OneJob
<1> QED BY <1>2, <1>3, <1>4 DEF Jobs

LEMMA LookDoes ==
  ASSUME TypeOK, NEW j \in Jobs, PurgeLook(j)
  PROVE  /\ job[j].pc = "look"
         /\ UNCHANGED <<db, talk, files, restoring, count>>
         /\ \/ Returned(j, {})
            \/ /\ job' \in [Jobs -> JobType] /\ \A k \in Jobs : k # j => job'[k] = job[k]
               /\ job'[j].pc = "delete" /\ job'[j].acc = job[j].acc
               /\ job'[j].ids = job[j].ids /\ job'[j].todo = job[j].todo
<1>1. job[j] \in JobType /\ job \in [Jobs -> JobType]
  BY DEF TypeOK
<1> DEFINE g == job[j].gone \ busy
           r == [job[j] EXCEPT !.pc = "delete", !.gone = g]
<1>2. Returned(j, {}) \/ job' = [job EXCEPT ![j] = r]
  BY DEF PurgeLook
<1>3. g \subseteq Convs
  BY <1>1 DEF JobType
<1> HIDE DEF g
<1>4. /\ r \in JobType /\ r.pc = "delete" /\ r.acc = job[j].acc
      /\ r.ids = job[j].ids /\ r.todo = job[j].todo
  BY <1>1, <1>3 DEF JobType
<1> HIDE DEF r
<1> QED BY <1>1, <1>2, <1>4, OneJob DEF PurgeLook

LEMMA GoesIs ==
  ASSUME TypeOK, NEW j \in Jobs, NEW pc \in {"clean", "over"}, Goes(j, pc)
  PROVE  /\ job' \in [Jobs -> JobType] /\ \A k \in Jobs : k # j => job'[k] = job[k]
         /\ job'[j].pc = pc /\ job'[j].gone = job[j].gone /\ job'[j].acc = job[j].acc
         /\ job'[j].ids = job[j].ids /\ job'[j].todo = job[j].todo
<1>1. job[j] \in JobType /\ job \in [Jobs -> JobType]
  BY DEF TypeOK
<1> DEFINE r == [job[j] EXCEPT !.pc = pc]
<1>2. job' = [job EXCEPT ![j] = r]
  BY DEF Goes
<1>3. /\ r \in JobType /\ r.pc = pc /\ r.gone = job[j].gone /\ r.acc = job[j].acc
      /\ r.ids = job[j].ids /\ r.todo = job[j].todo
  BY <1>1 DEF JobType
<1> HIDE DEF r
<1> QED BY <1>1, <1>2, <1>3, OneJob

LEMMA DeleteDoes ==
  ASSUME TypeOK, NEW j \in Jobs, PurgeDelete(j)
  PROVE  /\ job[j].pc = "delete" /\ Goes(j, "clean")
         /\ db' \in Database /\ db'.here = db.here \ job[j].gone /\ db'.recorded = db.recorded
         /\ UNCHANGED <<talk, files, restoring, count>>
<1>1. db \in Database
  BY DEF TypeOK
<1> DEFINE g == job[j].gone
<1>2. db' = [db EXCEPT !.here = db.here \ g, !.waiting = db.waiting \ g,
                       !.held.convs = db.held.convs \ g]
  BY DEF PurgeDelete
<1> HIDE DEF g
<1>3. db' \in Database /\ db'.here = db.here \ g /\ db'.recorded = db.recorded
  BY <1>1, <1>2 DEF Database
<1> QED BY <1>3 DEF PurgeDelete, g

LEMMA CleanDoes ==
  ASSUME TypeOK, NEW j \in Jobs, PurgeClean(j)
  PROVE  /\ job[j].pc = "clean" /\ Returned(j, job[j].gone) /\ job[j].gone \subseteq Convs
         /\ files' \subseteq Convs /\ count' \in CountType
         /\ count'.lost = count.lost
         /\ UNCHANGED <<db, talk, restoring>>
<1>1. job[j] \in JobType
  BY DEF TypeOK
<1>2. count' \in CountType /\ count'.lost = count.lost
  BY ConstantsAssumption DEF PurgeClean, Fault, Counted, TypeOK, CountType
<1> QED BY <1>1, <1>2 DEF PurgeClean, TypeOK, JobType

LEMMA BatchDoes ==
  ASSUME TypeOK, NightBatch
  PROVE  /\ job' \in [Jobs -> JobType] /\ \A k \in Jobs : k # "night" => job'[k] = job[k]
         /\ job["night"].pc \in {"idle", "next"}
         /\ job'["night"].pc \in {"idle", "batch"} /\ job'["night"].acc = {}
         /\ UNCHANGED <<db, talk, files, restoring, count>>
<1>1. job["night"] \in JobType /\ job \in [Jobs -> JobType] /\ "night" \in Jobs
  BY DEF TypeOK, Jobs
<1>2. Oldest(Stale) \subseteq Convs
  BY DEF Oldest, Stale, TypeOK
<1> DEFINE ids == Oldest(Stale)
           left == IF job["night"].pc = "next" THEN job["night"].left ELSE MaxBatches
           r == [Idle EXCEPT !.pc = "batch", !.ids = ids, !.left = left]
<1>3. left \in 0..MaxBatches
  BY <1>1, ConstantsAssumption DEF JobType
<1>4. job' = [job EXCEPT !["night"] = Idle] \/ job' = [job EXCEPT !["night"] = r]
  BY DEF NightBatch
<1> HIDE DEF left, ids
<1>5. r \in JobType /\ r.pc = "batch" /\ r.acc = {}
  BY <1>2, <1>3, ConstantsAssumption DEF JobType, Idle, ids
<1> HIDE DEF r
<1> QED BY <1>1, <1>4, <1>5, OneJob, IdleIs DEF NightBatch

LEMMA RecordDoes ==
  ASSUME TypeOK, NightRecord
  PROVE  /\ job' \in [Jobs -> JobType] /\ \A k \in Jobs : k # "night" => job'[k] = job[k]
         /\ job["night"].pc = "purged" /\ job'["night"].pc \in {"idle", "next"}
         /\ job'["night"].acc = {}
         /\ db' \in Database /\ db'.here = db.here
         /\ db'.recorded = db.recorded \cup job["night"].gone
         /\ UNCHANGED <<talk, files, restoring, count>>
<1>1. job["night"] \in JobType /\ job \in [Jobs -> JobType] /\ "night" \in Jobs /\ db \in Database
  BY DEF TypeOK, Jobs
<1> DEFINE left == job["night"].left - 1
           r == [Idle EXCEPT !.pc = "next", !.left = left]
<1>2. \/ job' = [job EXCEPT !["night"] = Idle]
      \/ job["night"].left > 1 /\ job' = [job EXCEPT !["night"] = r]
  BY DEF NightRecord
<1>3. job["night"].left > 1 => left \in 0..MaxBatches
  BY <1>1, ConstantsAssumption DEF JobType
<1> HIDE DEF left
<1>4. job["night"].left > 1 => r \in JobType /\ r.pc = "next" /\ r.acc = {}
  BY <1>3 DEF JobType, Idle
<1>5. /\ db' \in Database /\ db'.here = db.here
      /\ db'.recorded = db.recorded \cup job["night"].gone
  BY <1>1 DEF NightRecord, Recorded, RecordOf, Database, JobType
<1> HIDE DEF r
<1> QED BY <1>1, <1>2, <1>4, <1>5, OneJob, IdleIs DEF NightRecord

LEMMA AskDoes ==
  ASSUME TypeOK, NEW p \in People, EraseAsk(p)
  PROVE  /\ job' \in [Jobs -> JobType] /\ \A k \in Jobs : k # "owner" => job'[k] = job[k]
         /\ job'["owner"].pc = "next" /\ job'["owner"].acc = {} /\ job["owner"] = Idle
         /\ count' \in CountType /\ count'.lost = count.lost
         /\ UNCHANGED <<db, talk, files, restoring>>
<1>1. job \in [Jobs -> JobType] /\ "owner" \in Jobs
  BY DEF TypeOK, Jobs
<1> DEFINE todo == {c \in db.here : Owner[c] = p}
           r == [Idle EXCEPT !.pc = "next", !.todo = todo]
<1>2. todo \subseteq Convs
  BY DEF TypeOK, Database
<1>3. job' = [job EXCEPT !["owner"] = r]
  BY DEF EraseAsk
<1> HIDE DEF todo
<1>4. r \in JobType /\ r.pc = "next" /\ r.acc = {}
  BY <1>2, IdleIs DEF JobType
<1>5. count' \in CountType /\ count'.lost = count.lost
  BY ConstantsAssumption DEF EraseAsk, Asked, Counted, TypeOK, CountType
<1> HIDE DEF r
<1> QED BY <1>1, <1>3, <1>4, <1>5, OneJob DEF EraseAsk

LEMMA CommitDoes ==
  ASSUME TypeOK, EraseCommit
  PROVE  /\ job' = [job EXCEPT !["owner"] = Idle] /\ job["owner"].pc = "next"
         /\ db' \in Database /\ db'.here = db.here
         /\ db'.recorded = db.recorded \cup job["owner"].acc
         /\ UNCHANGED <<talk, files, restoring, count>>
<1>1. job["owner"].acc \subseteq Convs
  BY DEF TypeOK, JobType, Jobs
<1>2. db' = [db EXCEPT !.recorded = db.recorded \cup job["owner"].acc]
  BY DEF EraseCommit, Recorded
<1>3. /\ db' \in Database /\ db'.here = db.here
      /\ db'.recorded = db.recorded \cup job["owner"].acc
  BY <1>1, <1>2 DEF TypeOK, Database
<1> QED BY <1>3 DEF EraseCommit

LEMMA LoadDoes ==
  ASSUME TypeOK, LoadErasures
  PROVE  /\ job' \in [Jobs -> JobType] /\ \A k \in Jobs : k # "reapply" => job'[k] = job[k]
         /\ job'["reapply"].pc = "next" /\ job'["reapply"].ids = {}
         /\ job'["reapply"].todo = db.recorded \cup saved
         /\ db' \in Database /\ db'.here = db.here
         /\ db'.recorded = db.recorded \cup saved
         /\ stage' = "loaded"
         /\ UNCHANGED <<talk, files, backup, saved, count>>
<1>1. job \in [Jobs -> JobType] /\ "reapply" \in Jobs /\ db \in Database /\ saved \subseteq Convs
  BY DEF TypeOK, Jobs
<1> DEFINE todo == db.recorded \cup saved
           r == [Idle EXCEPT !.pc = "next", !.todo = todo]
<1>2. todo \subseteq Convs
  BY <1>1 DEF Database
<1>3. job' = [job EXCEPT !["reapply"] = r] /\ db' = [db EXCEPT !.recorded = todo]
  BY DEF LoadErasures, Loaded
<1> HIDE DEF todo
<1>4. r \in JobType /\ r.pc = "next" /\ r.todo = todo /\ r.ids = {}
  BY <1>2, IdleIs DEF JobType
<1>5. db' \in Database /\ db'.here = db.here /\ db'.recorded = todo
  BY <1>1, <1>2, <1>3 DEF Database
<1> HIDE DEF r
<1> QED BY <1>1, <1>3, <1>4, <1>5, OneJob DEF LoadErasures, todo

LEMMA InHandTyped ==
  ASSUME TypeOK, NEW j \in Jobs PROVE InHand(j) \subseteq Convs
BY DEF TypeOK, InHand, JobType

LEMMA DiesDoes ==
  ASSUME TypeOK, NEW j \in Jobs, JobDies(j)
  PROVE  /\ job' = [job EXCEPT ![j] = Idle]
         /\ count' \in CountType /\ count'.lost = count.lost \cup InHand(j)
         /\ UNCHANGED <<db, talk, files, restoring>>
<1>1. InHand(j) \subseteq Convs
  BY InHandTyped
<1> DEFINE lost == count.lost \cup InHand(j)
           faults == count.faults + 1
<1>2. lost \in SUBSET Convs /\ faults \in 0..MaxFaults /\ count \in CountType
  BY <1>1, ConstantsAssumption DEF JobDies, TypeOK, CountType
<1>3. count' = [count EXCEPT !.faults = faults, !.lost = lost]
  BY DEF JobDies
<1> HIDE DEF lost, faults
<1>4. count' \in CountType /\ count'.lost = lost
  BY <1>2, <1>3 DEF CountType
<1> QED BY <1>4 DEF JobDies, lost

\* What turns, requests and holds do erases nothing, and changes no job and no record.
Around ==
  \/ \E c \in Convs : BeginTurn(c) \/ EndTurn(c) \/ Request(c) \/ RequestEnds(c)
  \/ Hold \/ Release

LEMMA AroundDoes ==
  ASSUME TypeOK, Around
  PROVE  /\ TypeOK' /\ db'.here = db.here /\ db'.recorded = db.recorded
         /\ count'.lost = count.lost
         /\ UNCHANGED <<job, restoring>>
<1>1. db \in Database /\ count \in CountType /\ busy \subseteq Convs /\ files \subseteq Convs
      /\ quiet \subseteq Convs
  BY DEF TypeOK, CountType
<1>2. UNCHANGED <<job, restoring>>
  BY DEF Around, BeginTurn, EndTurn, Request, RequestEnds, Hold, Release
<1>3. /\ db' \in Database /\ db'.here = db.here /\ db'.recorded = db.recorded
  <2>1. ASSUME UNCHANGED db PROVE db' \in Database /\ db'.here = db.here /\ db'.recorded = db.recorded
    BY <1>1, <2>1
  <2>2. ASSUME NEW c \in Convs, Request(c) \/ RequestEnds(c)
        PROVE db' \in Database /\ db'.here = db.here /\ db'.recorded = db.recorded
    BY <1>1, <2>2 DEF Request, RequestEnds, Database
  <2>3. ASSUME Hold PROVE db' \in Database /\ db'.here = db.here /\ db'.recorded = db.recorded
    BY <1>1, <2>3 DEF Hold, Database
  <2>4. ASSUME Release PROVE db' \in Database /\ db'.here = db.here /\ db'.recorded = db.recorded
    BY <1>1, <2>4 DEF Release, Database
  <2> QED BY <2>1, <2>2, <2>3, <2>4 DEF Around, BeginTurn, EndTurn
<1>4. count' \in CountType /\ count'.lost = count.lost
  BY <1>1, ConstantsAssumption
  DEF Around, BeginTurn, EndTurn, Request, RequestEnds, Hold, Release, Asked, Counted, CountType
<1>5. busy' \subseteq Convs /\ files' \subseteq Convs /\ quiet' \subseteq Convs
  BY <1>1 DEF Around, BeginTurn, EndTurn, Request, RequestEnds, Hold, Release, talk
<1> QED BY <1>2, <1>3, <1>4, <1>5 DEF TypeOK, CountType, restoring

LEMMA TypedStep ==
  ASSUME TypeOK, [Next]_vars
  PROVE  TypeOK'
<1> USE DEF talk, restoring
<1>1. ASSUME job' \in [Jobs -> JobType], UNCHANGED <<db, talk, files, restoring, count>> PROVE TypeOK'
  BY <1>1 DEF TypeOK
<1>2. ASSUME NEW j \in Jobs, PurgeStep(j) PROVE TypeOK'
  <2>1. CASE PurgeRead(j)
    BY <1>1, <2>1, ReadDoes
  <2>2. CASE PurgeLook(j)
    BY <1>1, <2>2, LookDoes, ReturnedIs
  <2>3. CASE PurgeDelete(j)
    BY <2>3, DeleteDoes, GoesIs DEF TypeOK
  <2>4. CASE PurgeClean(j)
    BY <2>4, CleanDoes, ReturnedIs DEF TypeOK, CountType
  <2> QED BY <1>2, <2>1, <2>2, <2>3, <2>4 DEF PurgeStep
<1>3. CASE NightBatch
  BY <1>1, <1>3, BatchDoes
<1>4. CASE NightRecord
  BY <1>4, RecordDoes DEF TypeOK
<1>5. ASSUME NEW p \in People, EraseAsk(p) PROVE TypeOK'
  BY <1>5, AskDoes DEF TypeOK, CountType
<1>6. CASE EraseCommit
  BY <1>6, CommitDoes, OneJob, IdleIs DEF TypeOK, Jobs
<1>7. CASE SaveErasures
  BY <1>7 DEF SaveErasures, TypeOK, Database
<1>8. CASE Replace
  <2>1. job' \in [Jobs -> JobType]
    BY <1>8, IdleIs DEF Replace
  <2> QED BY <1>8, <2>1, ConstantsAssumption DEF Replace, TypeOK
<1>9. CASE LoadErasures
  BY <1>9, LoadDoes DEF TypeOK
<1>10. CASE ReapplyEnds
  BY <1>1, <1>10, GoesIs DEF ReapplyEnds, Jobs
<1>11. ASSUME NEW j \in Jobs, JobDies(j) PROVE TypeOK'
  BY <1>11, DiesDoes, OneJob, IdleIs DEF TypeOK, CountType
<1>12. CASE FilesSweep
  BY <1>12 DEF FilesSweep, TypeOK
<1>13. CASE Around
  BY <1>13, AroundDoes
<1>14. CASE UNCHANGED vars
  BY <1>14 DEF vars, TypeOK
<1> QED
  BY <1>2, <1>3, <1>4, <1>5, <1>6, <1>7, <1>8, <1>9, <1>10, <1>11, <1>12, <1>13, <1>14
  DEF Next, Night, Erase, Restore, Reapply, Around, Jobs

\* Every variable has its type, for any conversations, people and sizes of batches.
THEOREM TypeCorrect == Spec => []TypeOK
<1>1. Init => TypeOK
  BY TypedInit
<1>2. TypeOK /\ [Next]_vars => TypeOK'
  BY TypedStep
<1> QED BY <1>1, <1>2, PTL DEF Spec

-----------------------------------------------------------------------------
(* What is erased.                                                         *)

\* What a job holds as erased is no longer there.
Gone ==
  /\ \A j \in {"night", "owner"} : InHand(j) \cap db.here = {}
  /\ job["reapply"].pc = "clean" => job["reapply"].gone \cap db.here = {}

\* The night keeps nothing from one batch to the next, and erasing again runs only after
\* a restore.
Orderly ==
  /\ job["night"].acc = {}
  /\ stage \in {"none", "saved"} => job["reapply"].pc = "idle"

\* What the records and the saved erasures name, and is there, is still to be erased
\* again, or was found spared.
Pending ==
  job["reapply"].pc # "idle" =>
    /\ (db.recorded \cup saved) \cap db.here \subseteq
         job["reapply"].acc \cup job["reapply"].todo \cup job["reapply"].ids
    /\ job["reapply"].pc \in {"next", "over"} => job["reapply"].ids = {}
    /\ job["reapply"].pc = "over" => job["reapply"].todo = {}

ErasedInv == Gone /\ Orderly /\ Pending /\ RecordedUnlessDied

LEMMA ErasedInit == ASSUME Init PROVE ErasedInv
<1>1. \A j \in Jobs : job[j] = Idle
  BY DEF Init
<1> QED BY <1>1, IdleIs
  DEF Init, ErasedInv, Gone, Orderly, Pending, RecordedUnlessDied, InHand, Jobs

\* The jobs other than one are as they were, and so is what each of them is held to.
LEMMA NightStep ==
  ASSUME TypeOK, ErasedInv,
         job'["owner"] = job["owner"], job'["reapply"] = job["reapply"],
         job'["night"].acc = {}, InHand("night")' \cap db'.here = {},
         db'.here \subseteq db.here, db.recorded \subseteq db'.recorded,
         db'.recorded \cap db'.here \subseteq db.recorded,
         Convs \ db'.here \subseteq (Convs \ db.here) \cup InHand("night")' \cup db'.recorded,
         InHand("night") \subseteq InHand("night")' \cup db'.recorded,
         count.lost \subseteq count'.lost, UNCHANGED <<saved, stage>>
  PROVE  ErasedInv'
<1>1. Gone'
  BY DEF ErasedInv, Gone, InHand
<1>2. Orderly'
  BY DEF ErasedInv, Orderly
<1>3. Pending'
  BY DEF ErasedInv, Pending
<1>4. RecordedUnlessDied'
  <2>1. InHand("owner")' = InHand("owner")
    BY DEF InHand
  <2> HIDE DEF InHand
  <2> QED BY <2>1 DEF ErasedInv, RecordedUnlessDied
<1> QED BY <1>1, <1>2, <1>3, <1>4 DEF ErasedInv

LEMMA OwnerStep ==
  ASSUME TypeOK, ErasedInv,
         job'["night"] = job["night"], job'["reapply"] = job["reapply"],
         InHand("owner")' \cap db'.here = {},
         db'.here \subseteq db.here, db.recorded \subseteq db'.recorded,
         db'.recorded \cap db'.here \subseteq db.recorded,
         Convs \ db'.here \subseteq (Convs \ db.here) \cup InHand("owner")' \cup db'.recorded,
         InHand("owner") \subseteq InHand("owner")' \cup db'.recorded,
         count.lost \subseteq count'.lost, UNCHANGED <<saved, stage>>
  PROVE  ErasedInv'
<1>1. Gone'
  BY DEF ErasedInv, Gone, InHand
<1>2. Orderly'
  BY DEF ErasedInv, Orderly
<1>3. Pending'
  BY DEF ErasedInv, Pending
<1>4. RecordedUnlessDied'
  <2>1. InHand("night")' = InHand("night")
    BY DEF InHand
  <2> HIDE DEF InHand
  <2> QED BY <2>1 DEF ErasedInv, RecordedUnlessDied
<1> QED BY <1>1, <1>2, <1>3, <1>4 DEF ErasedInv

LEMMA ReapplyStep ==
  ASSUME TypeOK, ErasedInv, job["reapply"].pc # "idle",
         job'["night"] = job["night"], job'["owner"] = job["owner"],
         job'["reapply"].pc = "clean" => job'["reapply"].gone \cap db'.here = {},
         db'.here \subseteq db.here, db'.recorded = db.recorded,
         Pending', UNCHANGED <<saved, stage>>
  PROVE  ErasedInv'
<1>1. Gone'
  BY DEF ErasedInv, Gone, InHand
<1>2. Orderly' /\ RecordedUnlessDied'
  BY DEF ErasedInv, Orderly, RecordedUnlessDied
<1> QED BY <1>1, <1>2 DEF ErasedInv

LEMMA ErasedStep ==
  ASSUME TypeOK, ErasedInv, [Next]_vars
  PROVE  ErasedInv'
<1> USE DEF restoring
<1>0. /\ \A j \in Jobs : job[j] \in JobType
      /\ "night" \in Jobs /\ "owner" \in Jobs /\ "reapply" \in Jobs
      /\ db \in Database
  BY DEF TypeOK, Jobs
<1>1. ASSUME UNCHANGED <<job, saved, stage>>, db'.here = db.here, db'.recorded = db.recorded,
             count'.lost = count.lost
      PROVE  ErasedInv'
  BY <1>1 DEF ErasedInv, Gone, Orderly, Pending, RecordedUnlessDied, InHand
<1>2. CASE PurgeStep("night")
  <2>1. CASE PurgeRead("night")
    BY <1>0, <2>1, ReadDoes, NightStep DEF ErasedInv, Orderly, InHand
  <2>2. CASE PurgeLook("night")
    BY <1>0, <2>2, LookDoes, ReturnedIs, NightStep DEF ErasedInv, Orderly, InHand
  <2>3. CASE PurgeDelete("night")
    BY <1>0, <2>3, DeleteDoes, GoesIs, NightStep DEF ErasedInv, Orderly, InHand
  <2>4. CASE PurgeClean("night")
    <3>1. /\ job'["night"].pc = "purged" /\ job'["night"].gone = job["night"].gone
          /\ job'["night"].acc = job["night"].acc
          /\ job'["owner"] = job["owner"] /\ job'["reapply"] = job["reapply"]
      BY <1>0, <2>4, CleanDoes, ReturnedIs
    <3>2. /\ job["night"].pc = "clean" /\ count'.lost = count.lost
          /\ UNCHANGED <<db, saved, stage>>
      BY <1>0, <2>4, CleanDoes
    <3>3. InHand("night")' = InHand("night")
      BY <3>1, <3>2 DEF InHand
    <3> QED BY <3>1, <3>2, <3>3, NightStep DEF ErasedInv, Orderly, Gone
  <2> QED BY <1>2, <2>1, <2>2, <2>3, <2>4 DEF PurgeStep
<1>3. CASE NightBatch
  BY <1>0, <1>3, BatchDoes, NightStep DEF ErasedInv, Orderly, InHand
<1>4. CASE NightRecord
  <2>1. InHand("night")' = {} /\ InHand("night") = job["night"].gone
        /\ InHand("night") \cap db.here = {}
    BY <1>4, RecordDoes DEF ErasedInv, Orderly, Gone, InHand
  <2>2. /\ job'["owner"] = job["owner"] /\ job'["reapply"] = job["reapply"]
        /\ job'["night"].acc = {} /\ db'.here = db.here
        /\ db'.recorded = db.recorded \cup job["night"].gone
        /\ UNCHANGED <<saved, stage, count>>
    BY <1>0, <1>4, RecordDoes
  <2> HIDE DEF InHand
  <2> QED BY <2>1, <2>2, NightStep
<1>5. CASE PurgeStep("owner")
  <2>1. CASE PurgeRead("owner")
    BY <1>0, <2>1, ReadDoes, OwnerStep DEF ErasedInv, Gone, InHand
  <2>2. CASE PurgeLook("owner")
    BY <1>0, <2>2, LookDoes, ReturnedIs, OwnerStep DEF ErasedInv, Gone, InHand
  <2>3. CASE PurgeDelete("owner")
    <3>1. /\ job["owner"].pc = "delete" /\ job'["owner"].pc = "clean"
          /\ job'["owner"].gone = job["owner"].gone /\ job'["owner"].acc = job["owner"].acc
          /\ job'["night"] = job["night"] /\ job'["reapply"] = job["reapply"]
          /\ db'.here = db.here \ job["owner"].gone /\ db'.recorded = db.recorded
          /\ UNCHANGED <<saved, stage, count>>
      BY <1>0, <2>3, DeleteDoes, GoesIs
    <3>2. InHand("owner")' = InHand("owner") \cup job["owner"].gone
      BY <3>1 DEF InHand
    <3>3. InHand("owner") \cap db.here = {}
      BY DEF ErasedInv, Gone
    <3> QED BY <3>1, <3>2, <3>3, OwnerStep
  <2>4. CASE PurgeClean("owner")
    <3>1. /\ job'["owner"].pc = "next" /\ job'["owner"].acc = job["owner"].acc \cup job["owner"].gone
          /\ job'["night"] = job["night"] /\ job'["reapply"] = job["reapply"]
      BY <1>0, <2>4, CleanDoes, ReturnedIs
    <3>2. /\ job["owner"].pc = "clean" /\ count'.lost = count.lost
          /\ UNCHANGED <<db, saved, stage>>
      BY <1>0, <2>4, CleanDoes
    <3>3. InHand("owner")' = InHand("owner")
      BY <3>1, <3>2 DEF InHand
    <3> QED BY <3>1, <3>2, <3>3, OwnerStep DEF ErasedInv, Gone
  <2> QED BY <1>5, <2>1, <2>2, <2>3, <2>4 DEF PurgeStep
<1>6. ASSUME NEW p \in People, EraseAsk(p) PROVE ErasedInv'
  <2>1. InHand("owner")' = {} /\ InHand("owner") = {}
    BY <1>6, AskDoes, IdleIs DEF InHand
  <2>2. /\ job'["night"] = job["night"] /\ job'["reapply"] = job["reapply"]
        /\ count'.lost = count.lost /\ UNCHANGED <<db, saved, stage>>
    BY <1>0, <1>6, AskDoes
  <2> QED BY <2>1, <2>2, OwnerStep
<1>7. CASE EraseCommit
  <2>1. job'["owner"] = Idle /\ job'["night"] = job["night"] /\ job'["reapply"] = job["reapply"]
    BY <1>0, <1>7, CommitDoes, IdleIs, OneJob DEF TypeOK
  <2>2. /\ InHand("owner")' = {} /\ InHand("owner") = job["owner"].acc
        /\ InHand("owner") \cap db.here = {}
    BY <1>7, <2>1, CommitDoes, IdleIs DEF ErasedInv, Gone, InHand
  <2>3. /\ db'.here = db.here /\ db'.recorded = db.recorded \cup job["owner"].acc
        /\ UNCHANGED <<saved, stage, count>>
    BY <1>7, CommitDoes
  <2> HIDE DEF InHand
  <2> QED BY <2>1, <2>2, <2>3, OwnerStep
<1>8. CASE PurgeStep("reapply")
  <2>1. CASE PurgeRead("reapply")
    <3>1. /\ job["reapply"].pc \in {"batch", "next"} /\ job'["reapply"].pc = "look"
          /\ job'["reapply"].acc = job["reapply"].acc
          /\ job["reapply"].todo \subseteq job'["reapply"].todo \cup job'["reapply"].ids
          /\ job["reapply"].pc = "batch" => job'["reapply"].ids = job["reapply"].ids
          /\ job'["night"] = job["night"] /\ job'["owner"] = job["owner"]
          /\ UNCHANGED <<db, saved, stage, count>>
      BY <1>0, <2>1, ReadDoes
    <3>2. Pending'
      BY <3>1 DEF ErasedInv, Pending
    <3> QED BY <3>1, <3>2, ReapplyStep
  <2>2. CASE PurgeLook("reapply")
    <3>1. job["reapply"].pc = "look" /\ UNCHANGED <<db, saved, stage, count>>
      BY <1>0, <2>2, LookDoes
    <3>2. CASE Returned("reapply", {})
      <4>1. /\ job'["reapply"].pc = "next" /\ job'["reapply"].ids = {}
            /\ job'["reapply"].todo = job["reapply"].todo
            /\ job'["reapply"].acc = job["reapply"].acc \cup job["reapply"].ids
            /\ job'["night"] = job["night"] /\ job'["owner"] = job["owner"]
        BY <1>0, <3>2, ReturnedIs
      <4>2. Pending'
        BY <3>1, <4>1 DEF ErasedInv, Pending
      <4> QED BY <3>1, <4>1, <4>2, ReapplyStep
    <3>3. CASE ~Returned("reapply", {})
      <4>1. /\ job'["reapply"].pc = "delete" /\ job'["reapply"].ids = job["reapply"].ids
            /\ job'["reapply"].todo = job["reapply"].todo
            /\ job'["reapply"].acc = job["reapply"].acc
            /\ job'["night"] = job["night"] /\ job'["owner"] = job["owner"]
        BY <1>0, <2>2, <3>3, LookDoes
      <4>2. Pending'
        BY <3>1, <4>1 DEF ErasedInv, Pending
      <4> QED BY <3>1, <4>1, <4>2, ReapplyStep
    <3> QED BY <3>2, <3>3
  <2>3. CASE PurgeDelete("reapply")
    <3>1. /\ job["reapply"].pc = "delete" /\ job'["reapply"].pc = "clean"
          /\ job'["reapply"].gone = job["reapply"].gone
          /\ job'["reapply"].ids = job["reapply"].ids
          /\ job'["reapply"].todo = job["reapply"].todo
          /\ job'["reapply"].acc = job["reapply"].acc
          /\ job'["night"] = job["night"] /\ job'["owner"] = job["owner"]
          /\ db'.here = db.here \ job["reapply"].gone /\ db'.recorded = db.recorded
          /\ UNCHANGED <<saved, stage, count>>
      BY <1>0, <2>3, DeleteDoes, GoesIs
    <3>2. Pending'
      BY <3>1 DEF ErasedInv, Pending
    <3> QED BY <3>1, <3>2, ReapplyStep DEF ErasedInv, Gone
  <2>4. CASE PurgeClean("reapply")
    <3>1. job["reapply"].pc = "clean" /\ UNCHANGED <<db, saved, stage>>
      BY <1>0, <2>4, CleanDoes
    <3>2. /\ job'["reapply"].pc = "next" /\ job'["reapply"].ids = {}
          /\ job'["reapply"].todo = job["reapply"].todo
          /\ job'["reapply"].acc =
               job["reapply"].acc \cup (job["reapply"].ids \ job["reapply"].gone)
          /\ job'["night"] = job["night"] /\ job'["owner"] = job["owner"]
      BY <1>0, <2>4, CleanDoes, ReturnedIs
    <3>3. Pending'
      BY <3>1, <3>2 DEF ErasedInv, Pending, Gone
    <3> QED BY <3>1, <3>2, <3>3, ReapplyStep
  <2> QED BY <1>8, <2>1, <2>2, <2>3, <2>4 DEF PurgeStep
<1>9. CASE ReapplyEnds
  <2>1. /\ job["reapply"].pc = "next" /\ job["reapply"].todo = {}
        /\ Goes("reapply", "over") /\ UNCHANGED <<db, saved, stage, count>>
    BY <1>9 DEF ReapplyEnds
  <2>2. /\ job'["reapply"].pc = "over" /\ job'["reapply"].ids = job["reapply"].ids
        /\ job'["reapply"].todo = job["reapply"].todo
        /\ job'["reapply"].acc = job["reapply"].acc
        /\ job'["night"] = job["night"] /\ job'["owner"] = job["owner"]
    BY <1>0, <2>1, GoesIs
  <2>3. Pending'
    BY <2>1, <2>2 DEF ErasedInv, Pending
  <2> QED BY <2>1, <2>2, <2>3, ReapplyStep
<1>10. CASE SaveErasures
  BY <1>10 DEF SaveErasures, ErasedInv, Gone, Orderly, Pending, RecordedUnlessDied, InHand
<1>11. CASE Replace
  <2>1. \A j \in Jobs : job'[j] = Idle
    BY <1>11 DEF Replace
  <2>2. stage' = "replaced"
    BY <1>11 DEF Replace
  <2> QED BY <1>0, <2>1, <2>2, IdleIs
    DEF ErasedInv, Gone, Orderly, Pending, RecordedUnlessDied, InHand
<1>12. CASE LoadErasures
  <2>1. /\ job'["reapply"].pc = "next" /\ job'["reapply"].ids = {}
        /\ job'["reapply"].todo = db.recorded \cup saved
        /\ job'["night"] = job["night"] /\ job'["owner"] = job["owner"]
        /\ db'.here = db.here /\ db'.recorded = db.recorded \cup saved
        /\ stage' = "loaded" /\ UNCHANGED saved
    BY <1>0, <1>12, LoadDoes
  <2>2. Gone' /\ Orderly' /\ RecordedUnlessDied'
    BY <2>1 DEF ErasedInv, Gone, Orderly, RecordedUnlessDied, InHand
  <2>3. Pending'
    BY <2>1 DEF Pending
  <2> QED BY <2>2, <2>3 DEF ErasedInv
<1>13. ASSUME NEW j \in Jobs, JobDies(j) PROVE ErasedInv'
  <2>1. /\ job'[j] = Idle /\ \A k \in Jobs : k # j => job'[k] = job[k]
        /\ count'.lost = count.lost \cup InHand(j) /\ UNCHANGED <<db, saved, stage>>
    BY <1>0, <1>13, DiesDoes, IdleIs, OneJob DEF TypeOK
  <2>2. \A k \in Jobs : job'[k] = Idle \/ job'[k] = job[k]
    BY <2>1
  <2>3. Gone' /\ Orderly' /\ Pending'
    BY <1>0, <2>1, <2>2, IdleIs DEF ErasedInv, Gone, Orderly, Pending, InHand
  <2>4. \A k \in Jobs : InHand(k) \subseteq InHand(k)' \cup count'.lost
    BY <2>1 DEF InHand
  <2>5. RecordedUnlessDied'
    <3> HIDE DEF InHand
    <3> QED BY <1>0, <2>1, <2>4 DEF ErasedInv, RecordedUnlessDied
  <2> QED BY <2>3, <2>5 DEF ErasedInv
<1>14. CASE FilesSweep
  BY <1>1, <1>14 DEF FilesSweep
<1>15. CASE Around
  BY <1>1, <1>15, AroundDoes
<1>16. CASE UNCHANGED vars
  BY <1>1, <1>16 DEF vars
<1> QED
  BY <1>2, <1>3, <1>4, <1>5, <1>6, <1>7, <1>8, <1>9, <1>10, <1>11, <1>12, <1>13, <1>14, <1>15,
     <1>16
  DEF Next, Night, Erase, Restore, Reapply, Around

THEOREM ErasedAlways == Spec => []ErasedInv
<1>1. Init => ErasedInv
  BY ErasedInit
<1>2. TypeOK /\ ErasedInv /\ [Next]_vars => ErasedInv'
  BY ErasedStep
<1> QED BY <1>1, <1>2, TypeCorrect, PTL DEF Spec

\* What was erased is in a record, or with a job that still runs, or was with a job as it
\* died: however many die, each loses no more than that.
THEOREM ErasuresAreRecorded == Spec => []RecordedUnlessDied
<1>1. ErasedInv => RecordedUnlessDied
  BY DEF ErasedInv
<1> QED BY <1>1, ErasedAlways, PTL

\* Once the saved erasures were applied after a restore, what they or the restored database
\* name is gone, except what was spared on the way, whatever was cut off and run again.
THEOREM ErasuresAreReapplied == Spec => []Reapplied
<1>1. ErasedInv => Reapplied
  BY DEF ErasedInv, Pending, Reapplied
<1> QED BY <1>1, ErasedAlways, PTL
=============================================================================
