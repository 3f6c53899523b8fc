-------------------------- MODULE ApprovalsProofs --------------------------
(***************************************************************************)
(* What Approvals guarantees for every value of its constants: first the   *)
(* inductive invariant and what follows from it, then what one step can be *)
(* for the rows, the audit and the outside, and from that the state        *)
(* machine of a row, the story its audit tells, and the contract of a      *)
(* request.                                                                *)
(***************************************************************************)
EXTENDS Approvals, TLAPS

USE DEF outside, Open, Final, Status

LEMMA AgeType == 0 \in 0..MaxAge /\ MaxAge \in Nat
BY TimeAssumption

LEMMA MovedType ==
  ASSUME NEW R \in SUBSET Requests, NEW to \in Status, row \in [Requests -> RowType]
  PROVE  Moved(row, R, to) \in [Requests -> RowType]
<1>1. ASSUME NEW x \in RowType, NEW s \in Inputs \cup {None}
      PROVE  [x EXCEPT !.status = to, !.age = 0, !.sealed = s] \in RowType
  BY AgeType DEF RowType
<1>2. ASSUME NEW x \in RowType PROVE x.sealed \in Inputs \cup {None}
  BY DEF RowType
<1> QED BY <1>1, <1>2 DEF Moved

LEMMA InStatusType == ASSUME NEW s PROVE InStatus(s) \in SUBSET Requests
BY DEF InStatus

LEMMA AuditTypeKept ==
  ASSUME NEW R \in SUBSET Requests, NEW what \in {"withdrawn", "expired", "executed", "failed"},
         row \in [Requests -> RowType], audited \in [Requests -> SUBSET AuditType],
         Audit(R, what)
  PROVE  audited' \in [Requests -> SUBSET AuditType]
BY DEF Audit, RowType, AuditType, Entry

LEMMA HandOverType ==
  ASSUME NEW r, HandOver(r),
         job \in [Requests -> {"none", "queued", "running", "kept"}]
  PROVE  job' \in [Requests -> {"none", "queued", "running", "kept"}]
BY DEF HandOver

LEMMA JobOverType ==
  ASSUME NEW r, JobOver(r),
         job \in [Requests -> {"none", "queued", "running", "kept"}]
  PROVE  job' \in [Requests -> {"none", "queued", "running", "kept"}]
BY DEF JobOver

LEMMA FaultType ==
  ASSUME Fault, faults \in 0..MaxFaults PROVE faults' \in 0..MaxFaults
BY TimeAssumption DEF Fault

LEMMA InitIdle ==
  /\ Blank \in RowType
  /\ IdleHandler \in HandlerType
  /\ IdleExec \in ExecType
  /\ IdleSweep \in SweepType
<1>1. Blank \in RowType
  BY AgeType DEF Blank, RowType
<1>2. IdleHandler \in HandlerType
  BY DEF IdleHandler, HandlerType
<1>3. IdleExec \in ExecType
  BY DEF IdleExec, ExecType
<1>4. IdleSweep \in SweepType
  BY DEF IdleSweep, SweepType
<1> QED BY <1>1, <1>2, <1>3, <1>4

LEMMA ExecPcType ==
  ASSUME NEW e \in Executors, exec \in [Executors -> ExecType], NEW ok \in BOOLEAN,
         NEW p \in {"idle", "start", "claimed", "ready", "done", "post"}
  PROVE  /\ [exec EXCEPT ![e].pc = p] \in [Executors -> ExecType]
         /\ [exec EXCEPT ![e].pc = p, ![e].ok = ok] \in [Executors -> ExecType]
<1>1. [exec EXCEPT ![e].pc = p] \in [Executors -> ExecType]
  BY DEF ExecType
<1>2. [exec EXCEPT ![e].pc = p, ![e].ok = ok] \in [Executors -> ExecType]
  <2>1. ASSUME NEW x \in ExecType PROVE [x EXCEPT !.pc = p, !.ok = ok] \in ExecType
    BY DEF ExecType
  <2>2. [exec[e] EXCEPT !.pc = p, !.ok = ok] \in ExecType
    BY <2>1
  <2>3. [exec EXCEPT ![e].pc = p, ![e].ok = ok]
          = [exec EXCEPT ![e] = [exec[e] EXCEPT !.pc = p, !.ok = ok]]
    OBVIOUS
  <2> QED BY <2>2, <2>3
<1> QED BY <1>1, <1>2

LEMMA HandlerPcType ==
  ASSUME NEW h \in Handlers, handler \in [Handlers -> HandlerType],
         NEW p \in {"idle", "checked", "dispatch", "post"}
  PROVE  [handler EXCEPT ![h].pc = p] \in [Handlers -> HandlerType]
BY DEF HandlerType

LEMMA InitTypeOK == Init => TypeOK
<1> SUFFICES ASSUME Init PROVE TypeOK
  OBVIOUS
<1>1. /\ row \in [Requests -> RowType] /\ handler \in [Handlers -> HandlerType]
      /\ exec \in [Executors -> ExecType] /\ sweep \in SweepType
  BY InitIdle DEF Init
<1>2. effects \in [Requests -> Seq(Inputs)]
  BY DEF Init
<1>3. faults \in 0..MaxFaults
  BY TimeAssumption DEF Init
<1> QED BY <1>1, <1>2, <1>3 DEF Init, TypeOK

LEMMA NextTypeOK == IInv /\ [Next]_vars => TypeOK'
<1> SUFFICES ASSUME IInv, [Next]_vars PROVE TypeOK'
  OBVIOUS
<1>0. TypeOK /\ ClaimsHold /\ EffectsHold /\ MemoryHolds
  BY DEF IInv
<1> USE AgeType
<1>1. ASSUME NEW r \in Requests, NEW u \in People, NEW tier \in {"asker", "approver"},
             NEW i \in Inputs, Submit(r, u, tier, i)
      PROVE  TypeOK'
  BY <1>0, <1>1 DEF Submit, TypeOK, RowType, AuditType, Entry
<1>2. ASSUME NEW h \in Handlers, HandlerNext(h) PROVE TypeOK'
  <2>1. ASSUME NEW u \in People, NEW r \in Requests, NEW verdict \in {"approved", "denied"},
               NEW edit \in Inputs \cup {None}, OpenDecision(h, u, r, verdict, edit)
        PROVE  TypeOK'
    BY <1>0, <2>1 DEF OpenDecision, TypeOK, HandlerType
  <2>2. CASE CommitDecision(h)
    <3> DEFINE r == handler[h].req
               d == handler[h]
    <3>1. /\ r \in Requests /\ d.by \in People /\ d.verdict \in {"approved", "denied"}
          /\ d.edit \in Inputs \cup {None}
      BY <1>0, <2>2 DEF CommitDecision, MemoryHolds, TypeOK, HandlerType
    <3>2. row' \in [Requests -> RowType]
      <4>1. row[r] \in RowType
        BY <1>0, <3>1 DEF TypeOK
      <4>2. row[r].tier \in {"asker", "approver"} /\ row[r].asker \in People \cup {None}
            /\ row[r].hash \in Inputs \cup {None} /\ row[r].sealed \in Inputs \cup {None}
        BY <4>1 DEF RowType
      <4>3. Decided(r, d.by, d.verdict, d.edit) \in [Requests -> RowType]
        BY <1>0, <3>1, <4>2 DEF Decided, TypeOK, RowType
      <4> QED BY <1>0, <2>2, <4>3 DEF CommitDecision, DecisionEntry, TypeOK
    <3>3. audited' \in [Requests -> SUBSET AuditType]
      <4>1. row'[r].hash \in Inputs \cup {None}
        BY <3>1, <3>2 DEF RowType
      <4>2. Entry(d.verdict, row'[r].hash) \in AuditType
        BY <3>1, <4>1 DEF AuditType, Entry
      <4> QED BY <1>0, <2>2, <3>1, <4>2 DEF CommitDecision, DecisionEntry, TypeOK
    <3>4. handler' \in [Handlers -> HandlerType]
      <4>1. CASE handler' = [handler EXCEPT ![h] = IdleHandler]
        BY <1>0, <4>1, InitIdle DEF TypeOK
      <4>2. CASE handler' = [handler EXCEPT ![h].pc =
                    IF d.verdict = "approved" THEN "dispatch" ELSE "post"]
        BY <1>0, <4>2, HandlerPcType DEF TypeOK
      <4> QED BY <2>2, <4>1, <4>2 DEF CommitDecision, DecisionEntry
    <3> QED BY <1>0, <2>2, <3>2, <3>3, <3>4 DEF CommitDecision, DecisionEntry, TypeOK
  <2>3. ASSUME NEW r \in Requests, Withdraw(h, r) PROVE TypeOK'
    BY <1>0, <2>3, MovedType, AuditTypeKept DEF Withdraw, TypeOK, HandlerType, IdleHandler
  <2>4. CASE HandlerDispatch(h)
    BY <1>0, <2>4, InitIdle, HandOverType DEF HandlerDispatch, TypeOK
  <2>5. CASE HandlerPost(h)
    BY <1>0, <2>5, InitIdle DEF HandlerPost, Posted, MemoryHolds, TypeOK
  <2>6. CASE HandlerDies(h)
    BY <1>0, <2>6, InitIdle, FaultType DEF HandlerDies, TypeOK
  <2> QED BY <1>2, <2>1, <2>2, <2>3, <2>4, <2>5, <2>6 DEF HandlerNext
<1>3. ASSUME NEW e \in Executors, ExecNext(e) PROVE TypeOK'
  <2>1. ASSUME NEW r \in Requests, StartJob(e, r) PROVE TypeOK'
    BY <1>0, <2>1 DEF StartJob, JobTaken, TypeOK, ExecType, IdleExec
  <2>2. CASE Claim(e)
    <3>1. row' \in [Requests -> RowType]
      <4>1. row \in [Requests -> RowType] /\ {exec[e].req} \in SUBSET Requests
        BY <1>0, <2>2 DEF Claim, ClaimsHold, TypeOK
      <4>2. row' = row \/ row' = Moved(row, {exec[e].req}, "executing")
        BY <2>2 DEF Claim
      <4>3. Moved(row, {exec[e].req}, "executing") \in [Requests -> RowType]
        BY <4>1, MovedType
      <4> QED BY <4>1, <4>2, <4>3
    <3>2. exec' \in [Executors -> ExecType]
      <4>1. CASE exec' = [exec EXCEPT ![e] = IdleExec]
        BY <1>0, <4>1, InitIdle DEF TypeOK
      <4>2. CASE exec' = [exec EXCEPT ![e].pc = "claimed"]
        BY <1>0, <4>2, ExecPcType DEF TypeOK
      <4> QED BY <2>2, <4>1, <4>2 DEF Claim, Claimable
    <3>3. job' \in [Requests -> {"none", "queued", "running", "kept"}]
      BY <1>0, <2>2, JobOverType DEF Claim, Claimable, TypeOK
    <3> QED BY <1>0, <2>2, <3>1, <3>2, <3>3 DEF Claim, Claimable, TypeOK
  <2>3. CASE Recheck(e)
    <3>1. exec[e].req \in Requests
      BY <1>0, <2>3 DEF Recheck, ClaimsHold
    <3>2. row[exec[e].req].sealed \in Inputs \cup {None}
      BY <1>0, <3>1 DEF TypeOK, RowType
    <3>3. ASSUME NEW x \in ExecType, NEW i \in Inputs \cup {None}
          PROVE  /\ [x EXCEPT !.pc = "ready", !.input = i] \in ExecType
                 /\ [x EXCEPT !.pc = "done", !.ok = FALSE] \in ExecType
      BY DEF ExecType
    <3>4. exec' \in [Executors -> ExecType]
      BY <1>0, <2>3, <3>2, <3>3 DEF Recheck, TypeOK
    <3> QED BY <1>0, <2>3, <3>4 DEF Recheck, TypeOK
  <2>4. CASE RunTool(e)
    <3>1. exec[e].req \in Requests /\ exec[e].input \in Inputs
      BY <1>0, <2>4 DEF RunTool, ClaimsHold, HoldsClaim, EffectsHold
    <3>2. effects' \in [Requests -> Seq(Inputs)]
      BY <1>0, <2>4, <3>1 DEF RunTool, TypeOK
    <3>3. exec' \in [Executors -> ExecType]
      <4>1. PICK ok \in BOOLEAN : exec' = [exec EXCEPT ![e].pc = "done", ![e].ok = ok]
        BY <2>4 DEF RunTool
      <4> QED BY <1>0, <4>1, ExecPcType DEF TypeOK
    <3> QED BY <1>0, <2>4, <3>2, <3>3 DEF RunTool, TypeOK
  <2>5. CASE Record(e)
    <3>1. row' \in [Requests -> RowType]
      <4>1. row \in [Requests -> RowType] /\ Outcome(e) \in Status
        BY <1>0 DEF Outcome, TypeOK
      <4>2. row' = Moved(row, {exec[e].req} \cap InStatus("executing"), Outcome(e))
        BY <2>5 DEF Record
      <4>3. {exec[e].req} \cap InStatus("executing") \in SUBSET Requests
        BY InStatusType
      <4> QED BY <4>1, <4>2, <4>3, MovedType
    <3>2. audited' \in [Requests -> SUBSET AuditType]
      BY <1>0, <2>5, AuditTypeKept DEF Record, ClaimsHold, TypeOK
    <3>3. exec' \in [Executors -> ExecType]
      BY <1>0, <2>5, ExecPcType DEF Record, TypeOK
    <3> QED BY <1>0, <2>5, <3>1, <3>2, <3>3 DEF Record, TypeOK
  <2>6. CASE ExecPost(e)
    BY <1>0, <2>6, InitIdle, JobOverType DEF ExecPost, Posted, Outcome, TypeOK, ExecType
  <2>7. CASE JobTimesOut(e)
    BY <1>0, <2>7, InitIdle, JobOverType DEF JobTimesOut, TypeOK
  <2>8. CASE ExecDies(e)
    BY <1>0, <2>8, InitIdle, JobOverType, FaultType DEF ExecDies, TypeOK
  <2> QED BY <1>3, <2>1, <2>2, <2>3, <2>4, <2>5, <2>6, <2>7, <2>8 DEF ExecNext
<1>4. CASE SweepNext
  <2>1. CASE SweepExpire
    BY <1>0, <2>1, MovedType, AuditTypeKept DEF SweepExpire, Older, InStatus, TypeOK, SweepType
  <2>2. CASE SweepStuck
    BY <1>0, <2>2, MovedType, AuditTypeKept DEF SweepStuck, InStatus, TypeOK, SweepType
  <2>3. CASE SweepUnclaimed
    BY <1>0, <2>3 DEF SweepUnclaimed, InStatus, TypeOK, SweepType
  <2>4. CASE SweepEnd
    BY <1>0, <2>4, InitIdle DEF SweepEnd, TypeOK
  <2>5. CASE SweepDies
    BY <1>0, <2>5, InitIdle, FaultType DEF SweepDies, TypeOK
  <2>6. ASSUME NEW r \in Requests, SweepPost(r) PROVE TypeOK'
    BY <1>0, <2>6 DEF SweepPost, Posted, TypeOK, SweepType
  <2>7. ASSUME NEW r \in Requests, SweepHandOver(r) PROVE TypeOK'
    BY <1>0, <2>7, HandOverType DEF SweepHandOver, TypeOK, SweepType
  <2>8. ASSUME NEW r \in Requests, SweepSkips(r) PROVE TypeOK'
    BY <1>0, <2>8, FaultType DEF SweepSkips, TypeOK, SweepType
  <2> QED BY <1>4, <2>1, <2>2, <2>3, <2>4, <2>5, <2>6, <2>7, <2>8 DEF SweepNext
<1>5. CASE OutsideNext
  <2>1. ASSUME NEW u \in People, StartTurn(u) \/ EndTurn(u) PROVE TypeOK'
    BY <1>0, <2>1 DEF StartTurn, EndTurn, TypeOK
  <2>2. ASSUME NEW u \in People, Deactivate(u) PROVE TypeOK'
    BY <1>0, <2>2, MovedType DEF Deactivate, InStatus, TypeOK
  <2>3. ASSUME NEW u \in People, Reactivate(u) PROVE TypeOK'
    BY <1>0, <2>3 DEF Reactivate, TypeOK
  <2>4. CASE Pause
    BY <1>0, <2>4, MovedType, InStatusType DEF Pause, TypeOK
  <2>5. CASE Unpause \/ ChangeService
    BY <1>0, <2>5 DEF Unpause, ChangeService, TypeOK
  <2>6. CASE Tick
    <3>1. ASSUME NEW x \in RowType, x.age < MaxAge PROVE [x EXCEPT !.age = @ + 1] \in RowType
      BY <3>1 DEF RowType
    <3>2. row' \in [Requests -> RowType]
      BY <1>0, <2>6, <3>1 DEF Tick, TypeOK
    <3> QED BY <1>0, <2>6, <3>2 DEF Tick, TypeOK
  <2> QED BY <1>5, <2>1, <2>2, <2>3, <2>4, <2>5, <2>6 DEF OutsideNext
<1>6. ASSUME NEW r \in Requests, ResultExpires(r) \/ HandOverLost(r) PROVE TypeOK'
  BY <1>0, <1>6, FaultType DEF ResultExpires, HandOverLost, TypeOK
<1>7. CASE UNCHANGED vars
  BY <1>0, <1>7 DEF vars, TypeOK
<1> QED BY <1>1, <1>2, <1>3, <1>4, <1>5, <1>6, <1>7 DEF Next


-----------------------------------------------------------------------------
(* The inductive invariant, action by action.                              *)

LEMMA MovedRow ==
  ASSUME NEW R \in SUBSET Requests, NEW to \in Status, NEW r \in Requests,
         row \in [Requests -> RowType], row' = Moved(row, R, to)
  PROVE  /\ r \notin R => row'[r] = row[r]
         /\ r \in R => /\ row'[r].status = to /\ row'[r].age = 0
                       /\ row'[r].hash = row[r].hash
                       /\ row'[r].sealed = IF to \in Final THEN None ELSE row[r].sealed
<1>1. CASE r \notin R
  BY <1>1 DEF Moved
<1>2. CASE r \in R
  <2>1. row'[r] = [row[r] EXCEPT !.status = to, !.age = 0,
                                 !.sealed = IF to \in Final THEN None ELSE row[r].sealed]
    BY <1>2 DEF Moved
  <2>2. row[r] \in RowType
    OBVIOUS
  <2> QED BY <1>2, <2>1, <2>2 DEF RowType
<1> QED BY <1>1, <1>2

LEMMA MovedOne ==
  ASSUME NEW r \in Requests, NEW to \in Status,
         row \in [Requests -> RowType], row' = Moved(row, {r}, to)
  PROVE  /\ \A s \in Requests \ {r} : row'[s] = row[s]
         /\ row'[r].status = to /\ row'[r].age = 0 /\ row'[r].hash = row[r].hash
         /\ row'[r].sealed = IF to \in Final THEN None ELSE row[r].sealed
<1>1. \A s \in Requests \ {r} : row'[s] = row[s]
  BY DEF Moved
<1>2. row'[r] = [row[r] EXCEPT !.status = to, !.age = 0,
                               !.sealed = IF to \in Final THEN None ELSE row[r].sealed]
  BY DEF Moved
<1>3. row[r] \in RowType
  OBVIOUS
<1>4. /\ row'[r].status = to /\ row'[r].age = 0 /\ row'[r].hash = row[r].hash
      /\ row'[r].sealed = IF to \in Final THEN None ELSE row[r].sealed
  BY <1>2, <1>3 DEF RowType
<1> QED BY <1>1, <1>4

LEMMA ClaimsFrame ==
  ASSUME ClaimsHold, UNCHANGED <<row, exec, effects>> PROVE ClaimsHold'
BY DEF ClaimsHold, HoldsClaim, Outcome

LEMMA EffectsFrame ==
  ASSUME EffectsHold, UNCHANGED <<row, effects, audited>> PROVE EffectsHold'
BY DEF EffectsHold, WasAgreed, Entry

LEMMA MemoryFrame ==
  ASSUME MemoryHolds, UNCHANGED <<row, exec, sweep, handler>> PROVE MemoryHolds'
BY DEF MemoryHolds, HoldsClaim

LEMMA RowFrame ==
  ASSUME SealedWhileOpen, PostsAgree, UNCHANGED row
  PROVE  SealedWhileOpen' /\ (UNCHANGED posts => PostsAgree')
BY DEF SealedWhileOpen, PostsAgree

\* Ending requests that were still pending disturbs nothing that runs: they have no
\* claim, no effect and no post.
LEMMA EndPending ==
  ASSUME IInv, NEW R \in SUBSET InStatus("pending"), NEW to \in {"expired", "cancelled"},
         row' = Moved(row, R, to), UNCHANGED <<effects, posts, exec>>,
         \A r \in Requests : audited[r] \subseteq audited'[r]
  PROVE  ClaimsHold' /\ EffectsHold' /\ SealedWhileOpen' /\ PostsAgree'
<1>1. /\ row \in [Requests -> RowType] /\ R \in SUBSET Requests
      /\ \A r \in R : row[r].status = "pending"
      /\ posts \in [Requests -> SUBSET Final]
  BY DEF IInv, TypeOK, InStatus
<1>2. \A r \in Requests : /\ r \notin R => row'[r] = row[r]
                          /\ r \in R => /\ row'[r].status = to
                                        /\ row'[r].sealed = None
                                        /\ row'[r].hash = row[r].hash
  BY <1>1, MovedRow
<1>3. ClaimsHold'
  BY <1>1, <1>2 DEF IInv, ClaimsHold, HoldsClaim, Outcome
<1>4. EffectsHold'
  BY <1>1, <1>2 DEF IInv, EffectsHold, WasAgreed, Entry
<1>5. SealedWhileOpen'
  BY <1>1, <1>2 DEF IInv, SealedWhileOpen
<1>6. PostsAgree'
  BY <1>1, <1>2 DEF IInv, PostsAgree
<1> QED BY <1>3, <1>4, <1>5, <1>6

\* The run of a request moves it from approved to executing to its end, and takes a
\* claim only on an approved one: what others remember of rows stays true.
Runs(r) ==
  \/ row'[r] = row[r]
  \/ /\ row[r].status = "approved" /\ row'[r].status = "executing"
     /\ row'[r].sealed = row[r].sealed
  \/ /\ row[r].status = "executing" /\ row'[r].status \in {"succeeded", "failed"}
     /\ row'[r].sealed = None

LEMMA RunKeepsMemory ==
  ASSUME IInv, UNCHANGED <<sweep, handler, posts>>, \A r \in Requests : Runs(r),
         \A f \in Executors : HoldsClaim(f)' =>
            \/ HoldsClaim(f) /\ exec'[f].req = exec[f].req
            \/ row[exec'[f].req].status = "approved"
  PROVE  MemoryHolds' /\ SealedWhileOpen' /\ PostsAgree'
<1>1. /\ sweep.stuck \subseteq Requests /\ sweep.left \subseteq Requests
      /\ MemoryHolds /\ SealedWhileOpen /\ PostsAgree
      /\ posts \in [Requests -> SUBSET Final]
  BY DEF IInv, TypeOK, SweepType
<1>2. /\ \A r \in sweep'.stuck :
            /\ row'[r].status \in {"executing", "succeeded", "failed"}
            /\ \A e \in Executors : HoldsClaim(e)' => exec'[e].req # r
      /\ \A r \in sweep'.left :
            sweep'.pc \in {"expired", "failed"} => row'[r].status = sweep'.pc
  BY <1>1 DEF MemoryHolds, Runs
<1>3. \A h \in Handlers :
        /\ handler'[h].pc = "checked" => row'[handler'[h].req].status # "none"
        /\ handler'[h].pc = "post" => row'[handler'[h].req].status = handler'[h].verdict
  BY <1>1 DEF MemoryHolds, Runs
<1>4. MemoryHolds'
  BY <1>1, <1>2, <1>3 DEF MemoryHolds
<1>5. SealedWhileOpen'
  BY <1>1 DEF SealedWhileOpen, Runs
<1>6. PostsAgree'
  BY <1>1 DEF PostsAgree, Runs
<1> QED BY <1>4, <1>5, <1>6

\* An executor's step on the request it holds leaves the other claims as they were.
LEMMA OneClaimMoves ==
  ASSUME ClaimsHold, NEW e \in Executors, NEW q \in Requests,
         \A f \in Executors \ {e} : /\ exec'[f] = exec[f]
                                    /\ HoldsClaim(f) \/ exec[f].pc = "post" => exec[f].req # q,
         \A s \in Requests \ {q} : row'[s] = row[s] /\ effects'[s] = effects[s],
         exec'[e].req = q,
         HoldsClaim(e)' => row'[q].status = "executing" /\ row'[q].age <= RunLimit,
         exec'[e].pc \in {"claimed", "ready"} => effects'[q] = << >>,
         exec'[e].pc = "ready" => exec'[e].input = row'[q].hash,
         exec'[e].pc = "post" => row'[q].status = Outcome(e)'
  PROVE  ClaimsHold'
<1>1. ASSUME NEW f \in Executors \ {e}
      PROVE  /\ exec'[f].pc # "idle" => exec'[f].req \in Requests
             /\ HoldsClaim(f)' => /\ row'[exec'[f].req].status = "executing"
                                  /\ row'[exec'[f].req].age <= RunLimit
                                  /\ exec'[f].req # q
                                  /\ \A g \in Executors \ {f} :
                                       HoldsClaim(g)' => exec'[g].req # exec'[f].req
             /\ exec'[f].pc \in {"claimed", "ready"} => effects'[exec'[f].req] = << >>
             /\ exec'[f].pc = "ready" => exec'[f].input = row'[exec'[f].req].hash
             /\ exec'[f].pc = "post" => row'[exec'[f].req].status = Outcome(f)'
  BY DEF ClaimsHold, HoldsClaim, Outcome
<1> QED BY <1>1 DEF ClaimsHold

LEMMA SubmitIInv ==
  ASSUME IInv, NEW r \in Requests, NEW u \in People, NEW tier \in {"asker", "approver"},
         NEW i \in Inputs, Submit(r, u, tier, i)
  PROVE  ClaimsHold' /\ EffectsHold' /\ MemoryHolds' /\ SealedWhileOpen' /\ PostsAgree'
<1>1. /\ row \in [Requests -> RowType] /\ row[r].status = "none"
      /\ audited \in [Requests -> SUBSET AuditType] /\ posts \in [Requests -> SUBSET Final]
  BY DEF IInv, TypeOK, Submit
<1>2. /\ row'[r].status = "pending" /\ row'[r].sealed = i /\ row'[r].hash = i
      /\ \A s \in Requests \ {r} : row'[s] = row[s] /\ audited'[s] = audited[s]
  BY <1>1 DEF Submit
<1>3. ClaimsHold'
  BY <1>1, <1>2 DEF IInv, ClaimsHold, HoldsClaim, Outcome, Submit
<1>4. EffectsHold'
  BY <1>1, <1>2 DEF IInv, EffectsHold, WasAgreed, Entry, Submit
<1>5. MemoryHolds'
  BY <1>1, <1>2 DEF IInv, MemoryHolds, HoldsClaim, Submit, TypeOK, SweepType
<1>6. SealedWhileOpen'
  BY <1>1, <1>2, NoneAssumption DEF IInv, SealedWhileOpen
<1>7. PostsAgree'
  BY <1>1, <1>2 DEF IInv, PostsAgree, Submit
<1> QED BY <1>3, <1>4, <1>5, <1>6, <1>7

LEMMA HandlerIInv ==
  ASSUME IInv, NEW h \in Handlers, HandlerNext(h)
  PROVE  ClaimsHold' /\ EffectsHold' /\ MemoryHolds' /\ SealedWhileOpen' /\ PostsAgree'
<1>0. /\ TypeOK /\ ClaimsHold /\ EffectsHold /\ MemoryHolds /\ SealedWhileOpen /\ PostsAgree
      /\ row \in [Requests -> RowType] /\ handler \in [Handlers -> HandlerType]
      /\ audited \in [Requests -> SUBSET AuditType] /\ posts \in [Requests -> SUBSET Final]
  BY DEF IInv, TypeOK
<1>1. ASSUME NEW u \in People, NEW r \in Requests, NEW verdict \in {"approved", "denied"},
             NEW edit \in Inputs \cup {None}, OpenDecision(h, u, r, verdict, edit)
      PROVE  ClaimsHold' /\ EffectsHold' /\ MemoryHolds' /\ SealedWhileOpen' /\ PostsAgree'
  <2>1. MemoryHolds'
    BY <1>0, <1>1 DEF OpenDecision, MemoryHolds, HoldsClaim
  <2> QED BY <1>0, <1>1, <2>1, ClaimsFrame, EffectsFrame, RowFrame DEF OpenDecision
<1>2. ASSUME CommitDecision(h)
      PROVE  ClaimsHold' /\ EffectsHold' /\ MemoryHolds' /\ SealedWhileOpen' /\ PostsAgree'
  <2> DEFINE r == handler[h].req
             d == handler[h]
  <2>1. /\ r \in Requests /\ d.by \in People /\ d.verdict \in {"approved", "denied"}
        /\ d.edit \in Inputs \cup {None}
    BY <1>0, <1>2 DEF CommitDecision, MemoryHolds, HandlerType
  <2>2. CASE StillDecidable(r)
    <3>1. /\ row' = Decided(r, d.by, d.verdict, d.edit)
          /\ audited' = [audited EXCEPT ![r] = @ \cup {Entry(d.verdict, row'[r].hash)}]
          /\ handler' = [handler EXCEPT ![h].pc =
               IF d.verdict = "approved" THEN "dispatch" ELSE "post"]
          /\ row[r].status = "pending"
          /\ UNCHANGED <<effects, posts, exec, sweep>>
      BY <1>2, <2>2 DEF CommitDecision, DecisionEntry, StillDecidable
    <3>2. /\ row'[r].status = d.verdict
          /\ row'[r].hash \in Inputs
          /\ row'[r].sealed = IF d.verdict = "denied" THEN None ELSE row'[r].hash
          /\ \A s \in Requests \ {r} : row'[s] = row[s]
      BY <1>0, <2>1, <3>1 DEF Decided, EffectsHold
    <3>3. \A s \in Requests : audited[s] \subseteq audited'[s]
      BY <1>0, <2>1, <3>1
    <3>4. Entry(d.verdict, row'[r].hash) \in audited'[r]
      BY <1>0, <2>1, <3>1
    <3>5. ClaimsHold'
      <4> HIDE DEF r, d
      <4> QED BY <1>0, <2>1, <3>1, <3>2 DEF ClaimsHold, HoldsClaim, Outcome
    <3>6. EffectsHold'
      <4>1. effects'[r] = << >>
        BY <1>0, <2>1, <3>1 DEF EffectsHold
      <4>2. d.verdict = "approved" => Entry("approved", row'[r].hash) \in audited'[r]
        BY <3>4
      <4> HIDE DEF r, d
      <4> QED BY <1>0, <2>1, <3>1, <3>2, <3>3, <4>1, <4>2 DEF EffectsHold, WasAgreed
    <3>7. MemoryHolds'
      <4>1. /\ handler'[h].req = r /\ handler'[h].verdict = d.verdict
            /\ handler'[h].pc = IF d.verdict = "approved" THEN "dispatch" ELSE "post"
            /\ \A k \in Handlers \ {h} : handler'[k] = handler[k]
        BY <1>0, <3>1 DEF HandlerType
      <4>2. sweep' = sweep /\ exec' = exec /\ sweep.stuck \subseteq Requests /\ sweep.left \subseteq Requests
        BY <1>0, <1>2 DEF CommitDecision, TypeOK, SweepType
      <4>3. row'[r].status \in {"approved", "denied"} /\ row'[r].status = d.verdict
        BY <2>1, <3>2
      <4> HIDE DEF r, d
      <4>4. \A q \in sweep'.stuck : /\ row'[q].status \in {"executing", "succeeded", "failed"}
                                    /\ \A e \in Executors : HoldsClaim(e)' => exec'[e].req # q
        BY <1>0, <3>1, <3>2, <4>2 DEF MemoryHolds, HoldsClaim
      <4>5. \A q \in sweep'.left : sweep'.pc \in {"expired", "failed"} => row'[q].status = sweep'.pc
        BY <1>0, <3>1, <3>2, <4>2 DEF MemoryHolds
      <4>6. ASSUME NEW k \in Handlers \ {h}
            PROVE  /\ handler'[k] = handler[k]
                   /\ handler[k].pc = "checked" => row'[handler[k].req].status # "none"
                   /\ handler[k].pc = "post" =>
                        row'[handler[k].req].status = row[handler[k].req].status
        BY <1>0, <2>1, <3>1, <3>2, <4>1, <4>3 DEF MemoryHolds
      <4> QED BY <1>0, <2>1, <4>1, <4>3, <4>4, <4>5, <4>6 DEF MemoryHolds
    <3>8. SealedWhileOpen'
      BY <1>0, <2>1, <3>2, NoneAssumption DEF SealedWhileOpen
    <3>9. PostsAgree'
      <4>1. posts[r] = {}
        BY <1>0, <2>1, <3>1 DEF PostsAgree
      <4> HIDE DEF r
      <4> QED BY <1>0, <2>1, <3>1, <3>2, <4>1 DEF PostsAgree
    <3> QED BY <3>5, <3>6, <3>7, <3>8, <3>9
  <2>3. CASE ~StillDecidable(r)
    <3>1. handler' = [handler EXCEPT ![h] = IdleHandler] /\ UNCHANGED <<row, audited>>
      BY <1>2, <2>3 DEF CommitDecision, DecisionEntry
    <3>2. MemoryHolds'
      BY <1>0, <1>2, <3>1 DEF CommitDecision, MemoryHolds, HoldsClaim, IdleHandler
    <3> QED BY <1>0, <1>2, <3>1, <3>2, ClaimsFrame, EffectsFrame, RowFrame DEF CommitDecision, DecisionEntry
  <2> QED BY <2>2, <2>3
<1>3. ASSUME NEW r \in Requests, Withdraw(h, r)
      PROVE  ClaimsHold' /\ EffectsHold' /\ MemoryHolds' /\ SealedWhileOpen' /\ PostsAgree'
  <2>1. /\ {r} \in SUBSET InStatus("pending") /\ row' = Moved(row, {r}, "cancelled")
        /\ \A s \in Requests : audited[s] \subseteq audited'[s]
    BY <1>0, <1>3 DEF Withdraw, InStatus, Audit
  <2>2. ClaimsHold' /\ EffectsHold' /\ SealedWhileOpen' /\ PostsAgree'
    BY <1>3, <2>1, EndPending DEF Withdraw
  <2>3. /\ row'[r].status = "cancelled" /\ row[r].status = "pending"
        /\ \A s \in Requests \ {r} : row'[s] = row[s]
    <3>1. row[r].status = "pending"
      BY <1>3 DEF Withdraw
    <3> QED BY <1>0, <2>1, <3>1, MovedOne
  <2>4. /\ handler'[h].pc = "post" /\ handler'[h].req = r /\ handler'[h].verdict = "cancelled"
        /\ \A k \in Handlers \ {h} : handler'[k] = handler[k]
    BY <1>0, <1>3 DEF Withdraw, IdleHandler
  <2>5. sweep' = sweep /\ exec' = exec /\ sweep.stuck \subseteq Requests /\ sweep.left \subseteq Requests
    BY <1>0, <1>3 DEF Withdraw, TypeOK, SweepType
  <2>6. MemoryHolds'
    BY <1>0, <2>3, <2>4, <2>5 DEF MemoryHolds, HoldsClaim
  <2> QED BY <2>2, <2>6
<1>4. ASSUME HandlerDispatch(h) \/ HandlerDies(h)
      PROVE  ClaimsHold' /\ EffectsHold' /\ MemoryHolds' /\ SealedWhileOpen' /\ PostsAgree'
  <2>1. /\ handler' = [handler EXCEPT ![h] = IdleHandler]
        /\ UNCHANGED <<row, audited, effects, posts, exec, sweep>>
    BY <1>4 DEF HandlerDispatch, HandlerDies
  <2>2. MemoryHolds'
    BY <1>0, <2>1 DEF MemoryHolds, HoldsClaim, IdleHandler
  <2> QED BY <1>0, <2>1, <2>2, ClaimsFrame, EffectsFrame, RowFrame
<1>5. ASSUME HandlerPost(h)
      PROVE  ClaimsHold' /\ EffectsHold' /\ MemoryHolds' /\ SealedWhileOpen' /\ PostsAgree'
  <2>1. MemoryHolds'
    BY <1>0, <1>5 DEF HandlerPost, MemoryHolds, HoldsClaim, IdleHandler
  <2>2. PostsAgree'
    BY <1>0, <1>5 DEF HandlerPost, Posted, MemoryHolds, PostsAgree
  <2> QED BY <1>0, <1>5, <2>1, <2>2, ClaimsFrame, EffectsFrame, RowFrame DEF HandlerPost
<1> QED BY <1>1, <1>2, <1>3, <1>4, <1>5 DEF HandlerNext

LEMMA ExecIInv ==
  ASSUME IInv, NEW e \in Executors, ExecNext(e)
  PROVE  ClaimsHold' /\ EffectsHold' /\ MemoryHolds' /\ SealedWhileOpen' /\ PostsAgree'
<1>0. /\ ClaimsHold /\ EffectsHold /\ MemoryHolds /\ SealedWhileOpen /\ PostsAgree
      /\ row \in [Requests -> RowType] /\ exec \in [Executors -> ExecType]
      /\ audited \in [Requests -> SUBSET AuditType] /\ posts \in [Requests -> SUBSET Final]
      /\ effects \in [Requests -> Seq(Inputs)]
  BY DEF IInv, TypeOK
<1> DEFINE q == exec[e].req
\* An executor that takes a job, or lets one go, holds no claim afterwards.
<1>1. ASSUME NEW x, exec' = [exec EXCEPT ![e] = x],
             x.pc = "idle" \/ (x.pc = "start" /\ x.req \in Requests),
             UNCHANGED <<row, audited, effects, handler, sweep>>
      PROVE  ClaimsHold' /\ EffectsHold' /\ MemoryHolds' /\ SealedWhileOpen'
  <2>1. exec'[e] = x /\ \A f \in Executors \ {e} : exec'[f] = exec[f]
    BY <1>0, <1>1
  <2>2. ClaimsHold'
    BY <1>0, <1>1, <2>1 DEF ClaimsHold, HoldsClaim, Outcome
  <2>3. MemoryHolds'
    BY <1>0, <1>1, <2>1 DEF MemoryHolds, HoldsClaim
  <2> QED BY <1>0, <1>1, <2>2, <2>3, EffectsFrame, RowFrame
<1>2. ASSUME NEW r \in Requests, StartJob(e, r)
      PROVE  ClaimsHold' /\ EffectsHold' /\ MemoryHolds' /\ SealedWhileOpen' /\ PostsAgree'
  <2> DEFINE x == [IdleExec EXCEPT !.pc = "start", !.req = r]
  <2>1. x.pc = "start" /\ x.req \in Requests
    BY DEF IdleExec
  <2>2. exec' = [exec EXCEPT ![e] = x] /\ UNCHANGED <<row, audited, effects, posts, handler, sweep>>
    BY <1>2 DEF StartJob
  <2> HIDE DEF x
  <2> QED BY <1>0, <1>1, <2>1, <2>2, RowFrame
<1>3. ASSUME exec' = [exec EXCEPT ![e] = IdleExec],
             UNCHANGED <<row, audited, effects, handler, sweep>>
      PROVE  ClaimsHold' /\ EffectsHold' /\ MemoryHolds' /\ SealedWhileOpen'
  <2>1. IdleExec.pc = "idle"
    BY DEF IdleExec
  <2> QED BY <1>1, <1>3, <2>1
<1>4. ASSUME JobTimesOut(e) \/ ExecDies(e)
      PROVE  ClaimsHold' /\ EffectsHold' /\ MemoryHolds' /\ SealedWhileOpen' /\ PostsAgree'
  BY <1>0, <1>3, <1>4, RowFrame DEF JobTimesOut, ExecDies
<1>5. ASSUME Claim(e)
      PROVE  ClaimsHold' /\ EffectsHold' /\ MemoryHolds' /\ SealedWhileOpen' /\ PostsAgree'
  <2>1. CASE row[q].status # "approved"
    BY <1>0, <1>3, <1>5, <2>1, RowFrame DEF Claim, Claimable
  <2>2. CASE row[q].status = "approved"
    <3>1. /\ row' = Moved(row, {q}, "executing") /\ q \in Requests
          /\ exec' = [exec EXCEPT ![e].pc = "claimed"]
          /\ UNCHANGED <<audited, effects, posts, handler, sweep>>
      BY <1>0, <1>5, <2>2 DEF Claim, Claimable, ClaimsHold
    <3>2. /\ row'[q].status = "executing" /\ row'[q].age = 0
          /\ row'[q].hash = row[q].hash /\ row'[q].sealed = row[q].sealed
          /\ \A s \in Requests \ {q} : row'[s] = row[s]
      BY <1>0, <3>1, MovedOne
    <3>3. /\ exec'[e].pc = "claimed" /\ exec'[e].req = q
          /\ \A f \in Executors \ {e} : exec'[f] = exec[f]
      BY <1>0, <3>1 DEF ExecType
    <3>4. effects[q] = << >>
      BY <1>0, <2>2, <3>1 DEF EffectsHold
    <3>5. ClaimsHold'
      <4>1. \A f \in Executors : HoldsClaim(f) => exec[f].req # q
        BY <1>0, <2>2 DEF ClaimsHold
      <4>2. \A f \in Executors : exec[f].pc = "post" => exec[f].req # q
        BY <1>0, <2>2 DEF ClaimsHold, Outcome
      <4>3. RunLimit \in Nat
        BY TimeAssumption
      <4> HIDE DEF q
      <4>4. \A f \in Executors \ {e} : /\ exec'[f] = exec[f]
                                       /\ HoldsClaim(f) \/ exec[f].pc = "post" => exec[f].req # q
        BY <3>3, <4>1, <4>2
      <4>5. \A s \in Requests \ {q} : row'[s] = row[s] /\ effects'[s] = effects[s]
        BY <3>1, <3>2
      <4>6. row'[q].status = "executing" /\ row'[q].age <= RunLimit /\ effects'[q] = << >>
        BY <3>1, <3>2, <3>4, <4>3
      <4>7. /\ ClaimsHold /\ q \in Requests
            /\ exec'[e].req = q
            /\ HoldsClaim(e)' => row'[q].status = "executing" /\ row'[q].age <= RunLimit
            /\ exec'[e].pc \in {"claimed", "ready"} => effects'[q] = << >>
            /\ exec'[e].pc = "ready" => exec'[e].input = row'[q].hash
            /\ exec'[e].pc = "post" => row'[q].status = Outcome(e)'
        BY <1>0, <3>1, <3>3, <4>6
      <4> QED BY <4>4, <4>5, <4>7, OneClaimMoves
    <3>6. EffectsHold'
      <4> HIDE DEF q
      <4>1. \A r \in Requests : effects'[r] = effects[r] /\ audited'[r] = audited[r]
        BY <3>1
      <4>2. /\ q \in Requests /\ effects[q] = << >> /\ WasAgreed(q)
            /\ row'[q].status = "executing" /\ row[q].status = "approved"
            /\ row'[q].hash = row[q].hash /\ row'[q].sealed = row[q].sealed
        BY <2>2, <3>1, <3>2, <3>4 DEF WasAgreed
      <4>3. \A s \in Requests \ {q} : row'[s] = row[s]
        BY <3>2
      <4>4. ASSUME NEW r \in Requests
            PROVE  /\ effects'[r] # << >> => /\ row'[r].status \in {"executing", "succeeded", "failed"}
                                             /\ effects'[r] = <<row'[r].hash>>
                   /\ WasAgreed(r)' => Entry("approved", row'[r].hash) \in audited'[r]
                   /\ row'[r].status # "none" => row'[r].hash \in Inputs
                   /\ row'[r].status \in Open => row'[r].sealed = row'[r].hash
        <5>1. CASE r = q
          BY <1>0, <4>1, <4>2, <5>1 DEF EffectsHold, WasAgreed
        <5>2. CASE r # q
          BY <1>0, <4>1, <4>3, <5>2 DEF EffectsHold, WasAgreed
        <5> QED BY <5>1, <5>2
      <4> QED BY <4>4 DEF EffectsHold, Entry
    <3>7. \A r \in Requests : Runs(r)
      <4>1. Runs(q)
        BY <2>2, <3>2 DEF Runs
      <4>2. \A r \in Requests \ {q} : Runs(r)
        BY <3>2 DEF Runs
      <4> QED BY <4>1, <4>2
    <3>8. \A f \in Executors : HoldsClaim(f)' =>
            \/ HoldsClaim(f) /\ exec'[f].req = exec[f].req
            \/ row[exec'[f].req].status = "approved"
      BY <2>2, <3>3 DEF HoldsClaim
    <3> QED BY <3>1, <3>5, <3>6, <3>7, <3>8, RunKeepsMemory
  <2> QED BY <2>1, <2>2
\* From the claim to the record the executor keeps its request.
<1>6. ASSUME UNCHANGED <<row, posts, handler, sweep>>, HoldsClaim(e), exec'[e].req = q,
             \A f \in Executors \ {e} : exec'[f] = exec[f]
      PROVE  MemoryHolds' /\ SealedWhileOpen' /\ PostsAgree'
  BY <1>6, RunKeepsMemory DEF Runs, HoldsClaim
<1>7. ASSUME Recheck(e)
      PROVE  ClaimsHold' /\ EffectsHold' /\ MemoryHolds' /\ SealedWhileOpen' /\ PostsAgree'
  <2>1. /\ exec'[e].pc \in {"ready", "done"} /\ exec'[e].req = q
        /\ exec'[e].pc = "ready" => exec'[e].input = row[q].hash
        /\ \A f \in Executors \ {e} : exec'[f] = exec[f]
    BY <1>0, <1>7 DEF Recheck, Unseals, ExecType
  <2>2. exec[e].pc = "claimed" /\ UNCHANGED <<row, audited, effects, posts, handler, sweep>>
    BY <1>7 DEF Recheck
  <2>3. ClaimsHold'
    <3>1. /\ q \in Requests /\ row[q].status = "executing" /\ row[q].age <= RunLimit
          /\ effects[q] = << >>
          /\ \A f \in Executors \ {e} : HoldsClaim(f) \/ exec[f].pc = "post" => exec[f].req # q
      BY <1>0, <2>2 DEF ClaimsHold, HoldsClaim, Outcome
    <3> HIDE DEF q
    <3>2. \A f \in Executors \ {e} : /\ exec'[f] = exec[f]
                                     /\ HoldsClaim(f) \/ exec[f].pc = "post" => exec[f].req # q
      BY <2>1, <3>1
    <3>3. \A s \in Requests \ {q} : row'[s] = row[s] /\ effects'[s] = effects[s]
      BY <2>2
    <3>4. /\ row'[q].status = "executing" /\ row'[q].age <= RunLimit /\ effects'[q] = << >>
          /\ exec'[e].pc = "ready" => exec'[e].input = row'[q].hash
      BY <2>1, <2>2, <3>1
    <3>5. /\ ClaimsHold /\ q \in Requests
          /\ exec'[e].req = q
          /\ HoldsClaim(e)' => row'[q].status = "executing" /\ row'[q].age <= RunLimit
          /\ exec'[e].pc \in {"claimed", "ready"} => effects'[q] = << >>
          /\ exec'[e].pc = "ready" => exec'[e].input = row'[q].hash
          /\ exec'[e].pc = "post" => row'[q].status = Outcome(e)'
      BY <1>0, <2>1, <3>1, <3>4
    <3> QED BY <3>2, <3>3, <3>5, OneClaimMoves
  <2> QED BY <1>0, <1>6, <2>1, <2>2, <2>3, EffectsFrame DEF HoldsClaim
<1>8. ASSUME RunTool(e)
      PROVE  ClaimsHold' /\ EffectsHold' /\ MemoryHolds' /\ SealedWhileOpen' /\ PostsAgree'
  <2>1. /\ exec[e].pc = "ready" /\ q \in Requests /\ row[q].status = "executing"
        /\ effects[q] = << >> /\ exec[e].input = row[q].hash
        /\ UNCHANGED <<row, audited, posts, handler, sweep>>
    BY <1>0, <1>8 DEF RunTool, ClaimsHold, HoldsClaim
  <2>2. /\ exec'[e].pc = "done" /\ exec'[e].req = q
        /\ \A f \in Executors \ {e} : exec'[f] = exec[f]
    <3>1. PICK ok \in BOOLEAN : exec' = [exec EXCEPT ![e].pc = "done", ![e].ok = ok]
      BY <1>8 DEF RunTool
    <3> QED BY <1>0, <3>1 DEF ExecType
  <2>3. /\ effects'[q] \in {<< >>, <<row[q].hash>>}
        /\ \A s \in Requests \ {q} : effects'[s] = effects[s]
    <3>1. row[q].hash \in Inputs
      BY <1>0, <2>1 DEF EffectsHold
    <3>2. Append(effects[q], exec[e].input) = <<row[q].hash>>
      BY <2>1, <3>1
    <3> QED BY <1>0, <1>8, <2>1, <3>2 DEF RunTool
  <2>4. ClaimsHold'
    <3>1. /\ row[q].age <= RunLimit
          /\ \A f \in Executors \ {e} : HoldsClaim(f) \/ exec[f].pc = "post" => exec[f].req # q
      BY <1>0, <2>1 DEF ClaimsHold, HoldsClaim, Outcome
    <3> HIDE DEF q
    <3>2. \A f \in Executors \ {e} : /\ exec'[f] = exec[f]
                                     /\ HoldsClaim(f) \/ exec[f].pc = "post" => exec[f].req # q
      BY <2>2, <3>1
    <3>3. \A s \in Requests \ {q} : row'[s] = row[s] /\ effects'[s] = effects[s]
      BY <2>1, <2>3
    <3>4. row'[q].status = "executing" /\ row'[q].age <= RunLimit
      BY <2>1, <3>1
    <3>5. /\ ClaimsHold /\ q \in Requests
          /\ exec'[e].req = q
          /\ HoldsClaim(e)' => row'[q].status = "executing" /\ row'[q].age <= RunLimit
          /\ exec'[e].pc \in {"claimed", "ready"} => effects'[q] = << >>
          /\ exec'[e].pc = "ready" => exec'[e].input = row'[q].hash
          /\ exec'[e].pc = "post" => row'[q].status = Outcome(e)'
      BY <1>0, <2>1, <2>2, <3>4
    <3> QED BY <3>2, <3>3, <3>5, OneClaimMoves
  <2>5. EffectsHold'
    BY <1>0, <2>1, <2>3 DEF EffectsHold, WasAgreed
  <2> QED BY <1>6, <2>1, <2>2, <2>4, <2>5 DEF HoldsClaim
<1>9. ASSUME Record(e)
      PROVE  ClaimsHold' /\ EffectsHold' /\ MemoryHolds' /\ SealedWhileOpen' /\ PostsAgree'
  <2>1. /\ exec[e].pc = "done" /\ q \in Requests /\ row[q].status = "executing"
        /\ UNCHANGED <<effects, posts, handler, sweep>>
        /\ \A f \in Executors \ {e} : HoldsClaim(f) => exec[f].req # q
    BY <1>0, <1>9 DEF Record, ClaimsHold, HoldsClaim
  <2>2. /\ Outcome(e) \in {"succeeded", "failed"}
        /\ row' = Moved(row, {q}, Outcome(e))
    <3>1. {q} \cap InStatus("executing") = {q}
      BY <2>1 DEF InStatus
    <3> QED BY <1>9, <3>1 DEF Record, Outcome
  <2>3. /\ row'[q].status = Outcome(e) /\ row'[q].sealed = None /\ row'[q].hash = row[q].hash
        /\ \A s \in Requests \ {q} : row'[s] = row[s]
    BY <1>0, <2>1, <2>2, MovedOne
  <2>4. /\ exec'[e].pc = "post" /\ exec'[e].req = q /\ exec'[e].ok = exec[e].ok
        /\ \A f \in Executors \ {e} : exec'[f] = exec[f]
    BY <1>0, <1>9 DEF Record, ExecType
  <2>5. \A s \in Requests : audited[s] \subseteq audited'[s]
    BY <1>0, <1>9 DEF Record, Audit
  <2>6. ClaimsHold'
    <3>1. \A f \in Executors : exec[f].pc = "post" => exec[f].req # q
      BY <1>0, <2>1 DEF ClaimsHold, Outcome
    <3>2. Outcome(e)' = Outcome(e) /\ ~HoldsClaim(e)'
      BY <2>4 DEF Outcome, HoldsClaim
    <3> HIDE DEF q
    <3>3. \A f \in Executors \ {e} : /\ exec'[f] = exec[f]
                                     /\ HoldsClaim(f) \/ exec[f].pc = "post" => exec[f].req # q
      BY <2>1, <2>4, <3>1
    <3>4. \A s \in Requests \ {q} : row'[s] = row[s] /\ effects'[s] = effects[s]
      BY <2>1, <2>3
    <3>5. row'[q].status = Outcome(e)'
      BY <2>3, <3>2
    <3>6. /\ ClaimsHold /\ q \in Requests
          /\ exec'[e].req = q
          /\ HoldsClaim(e)' => row'[q].status = "executing" /\ row'[q].age <= RunLimit
          /\ exec'[e].pc \in {"claimed", "ready"} => effects'[q] = << >>
          /\ exec'[e].pc = "ready" => exec'[e].input = row'[q].hash
          /\ exec'[e].pc = "post" => row'[q].status = Outcome(e)'
      BY <1>0, <2>1, <2>4, <3>2, <3>5
    <3> QED BY <3>3, <3>4, <3>6, OneClaimMoves
  <2>7. EffectsHold'
    <3>1. ASSUME NEW s \in Requests \ {q}
          PROVE  /\ row'[s] = row[s] /\ effects'[s] = effects[s]
                 /\ audited[s] \subseteq audited'[s]
      BY <2>1, <2>3, <2>5
    <3>2. /\ Entry("approved", row[q].hash) \in audited[q] /\ row[q].hash \in Inputs
          /\ effects[q] # << >> => effects[q] = <<row[q].hash>>
      BY <1>0, <2>1 DEF EffectsHold, WasAgreed
    <3>3. /\ Entry("approved", row'[q].hash) \in audited'[q] /\ row'[q].hash \in Inputs
          /\ effects'[q] # << >> => effects'[q] = <<row'[q].hash>>
      BY <2>1, <2>3, <2>5, <3>2
    <3>4. row'[q].status \in {"succeeded", "failed"}
      BY <2>2, <2>3
    <3> HIDE DEF q
    <3> QED BY <1>0, <3>1, <3>3, <3>4 DEF EffectsHold, WasAgreed
  <2>8. \A r \in Requests : Runs(r)
    BY <2>1, <2>2, <2>3 DEF Runs
  <2>9. \A f \in Executors : HoldsClaim(f)' => HoldsClaim(f) /\ exec'[f].req = exec[f].req
    BY <2>4 DEF HoldsClaim
  <2> QED BY <2>1, <2>6, <2>7, <2>8, <2>9, RunKeepsMemory
<1>10. ASSUME ExecPost(e)
       PROVE  ClaimsHold' /\ EffectsHold' /\ MemoryHolds' /\ SealedWhileOpen' /\ PostsAgree'
  <2>1. PostsAgree'
    BY <1>0, <1>10 DEF ExecPost, Posted, ClaimsHold, PostsAgree
  <2> QED BY <1>0, <1>3, <1>10, <2>1 DEF ExecPost
<1> QED BY <1>2, <1>4, <1>5, <1>7, <1>8, <1>9, <1>10 DEF ExecNext

LEMMA SweepIInv ==
  ASSUME IInv, SweepNext
  PROVE  ClaimsHold' /\ EffectsHold' /\ MemoryHolds' /\ SealedWhileOpen' /\ PostsAgree'
<1>0. /\ ClaimsHold /\ EffectsHold /\ MemoryHolds /\ SealedWhileOpen /\ PostsAgree
      /\ row \in [Requests -> RowType] /\ audited \in [Requests -> SUBSET AuditType]
      /\ sweep \in SweepType /\ posts \in [Requests -> SUBSET Final]
  BY DEF IInv, TypeOK
<1>1. sweep.stuck \subseteq Requests /\ sweep.left \subseteq Requests
  BY <1>0 DEF SweepType
\* A step that leaves the rows alone and only forgets what the sweep remembered.
<1>2. ASSUME UNCHANGED <<row, audited, effects, handler, exec>>,
             sweep'.stuck \subseteq sweep.stuck,
             \/ sweep'.left \subseteq sweep.left /\ sweep'.pc = sweep.pc
             \/ sweep'.pc \in {"idle", "unclaimed"}
      PROVE  ClaimsHold' /\ EffectsHold' /\ MemoryHolds' /\ SealedWhileOpen'
  <2>1. MemoryHolds'
    BY <1>0, <1>2 DEF MemoryHolds, HoldsClaim
  <2> QED BY <1>0, <1>2, <2>1, ClaimsFrame, EffectsFrame, RowFrame
<1>3. ASSUME SweepExpire
      PROVE  ClaimsHold' /\ EffectsHold' /\ MemoryHolds' /\ SealedWhileOpen' /\ PostsAgree'
  <2> DEFINE expired == {r \in InStatus("pending") : row[r].age > TTL(row[r].tier)}
  <2>1. /\ expired \in SUBSET InStatus("pending") /\ expired \in SUBSET Requests
        /\ row' = Moved(row, expired, "expired")
        /\ \A s \in Requests : audited[s] \subseteq audited'[s]
        /\ UNCHANGED <<effects, posts, exec, handler>>
        /\ sweep'.pc = "expired" /\ sweep'.left = expired
        /\ sweep'.stuck = Older("executing", StuckAfter)
    BY <1>0, <1>3 DEF SweepExpire, InStatus, Audit
  <2>2. \A r \in expired : row[r].status = "pending"
    BY DEF InStatus
  <2> HIDE DEF expired
  <2>3. ClaimsHold' /\ EffectsHold' /\ SealedWhileOpen' /\ PostsAgree'
    BY <2>1, EndPending
  <2>4. \A r \in Requests : /\ r \notin expired => row'[r] = row[r]
                            /\ r \in expired => row'[r].status = "expired"
    BY <1>0, <2>1, MovedRow
  <2>5. MemoryHolds'
    <3>1. ASSUME NEW r \in sweep'.stuck
          PROVE  /\ row'[r].status = "executing"
                 /\ \A e \in Executors : HoldsClaim(e)' => exec'[e].req # r
      <4>1. r \in Requests /\ row[r].status = "executing" /\ row[r].age > StuckAfter
        BY <2>1 DEF Older, InStatus
      <4>2. row[r].age \in Nat
        BY <1>0, <4>1, AgeType DEF RowType
      <4>3. \A e \in Executors : HoldsClaim(e) => exec[e].req # r
        BY <1>0, <4>1, <4>2, TimeAssumption DEF ClaimsHold
      <4>4. row'[r] = row[r]
        BY <2>2, <2>4, <4>1
      <4> QED BY <2>1, <4>1, <4>3, <4>4 DEF HoldsClaim
    <3>2. \A r \in sweep'.left : row'[r].status = "expired"
      BY <2>1, <2>4
    <3>3. \A h \in Handlers : handler[h].pc \in {"checked", "post"} =>
            /\ handler[h].req \in Requests
            /\ row[handler[h].req].status # "none" => row'[handler[h].req].status # "none"
            /\ row[handler[h].req].status # "pending" =>
                 row'[handler[h].req].status = row[handler[h].req].status
      BY <1>0, <2>2, <2>4 DEF MemoryHolds
    <3> QED BY <1>0, <2>1, <3>1, <3>2, <3>3 DEF MemoryHolds
  <2> QED BY <2>3, <2>5
<1>4. ASSUME SweepStuck
      PROVE  ClaimsHold' /\ EffectsHold' /\ MemoryHolds' /\ SealedWhileOpen' /\ PostsAgree'
  <2> DEFINE stuck == sweep.stuck \cap InStatus("executing")
  <2>1. /\ stuck \in SUBSET Requests /\ stuck \subseteq sweep.stuck
        /\ \A r \in stuck : row[r].status = "executing"
        /\ row' = Moved(row, stuck, "failed")
        /\ \A s \in Requests : audited[s] \subseteq audited'[s]
        /\ UNCHANGED <<effects, posts, exec, handler>>
        /\ sweep'.pc = "failed" /\ sweep'.left = stuck /\ sweep'.stuck = sweep.stuck
    BY <1>0, <1>4 DEF SweepStuck, InStatus, Audit, SweepType
  <2> HIDE DEF stuck
  <2>2. \A r \in Requests : /\ r \notin stuck => row'[r] = row[r]
                            /\ r \in stuck => /\ row'[r].status = "failed"
                                              /\ row'[r].hash = row[r].hash
                                              /\ row'[r].sealed = None
    BY <1>0, <2>1, MovedRow
  <2>3. \A r \in stuck, e \in Executors : HoldsClaim(e) => exec[e].req # r
    BY <1>0, <2>1 DEF MemoryHolds
  <2>4. \A r \in stuck, e \in Executors : exec[e].pc = "post" => exec[e].req # r
    BY <1>0, <2>1 DEF ClaimsHold, Outcome
  <2>5. ClaimsHold'
    BY <1>0, <2>1, <2>2, <2>3, <2>4 DEF ClaimsHold, HoldsClaim, Outcome
  <2>6. EffectsHold'
    BY <1>0, <2>1, <2>2 DEF EffectsHold, WasAgreed
  <2>7. MemoryHolds'
    BY <1>0, <1>1, <2>1, <2>2 DEF MemoryHolds, HoldsClaim
  <2>8. SealedWhileOpen'
    BY <1>0, <2>1, <2>2 DEF SealedWhileOpen
  <2>9. PostsAgree'
    BY <1>0, <2>1, <2>2 DEF PostsAgree
  <2> QED BY <2>5, <2>6, <2>7, <2>8, <2>9
<1>5. ASSUME NEW r \in Requests, SweepPost(r)
      PROVE  ClaimsHold' /\ EffectsHold' /\ MemoryHolds' /\ SealedWhileOpen' /\ PostsAgree'
  <2>1. /\ sweep'.pc = sweep.pc /\ sweep'.stuck = sweep.stuck
        /\ sweep'.left \subseteq sweep.left
        /\ UNCHANGED <<row, audited, effects, handler, exec>>
    BY <1>0, <1>5 DEF SweepPost, SweepType
  <2>2. PostsAgree'
    BY <1>0, <1>5 DEF SweepPost, Posted, MemoryHolds, PostsAgree
  <2> QED BY <1>2, <2>1, <2>2
<1>6. ASSUME NEW r \in Requests, SweepHandOver(r) \/ SweepSkips(r)
      PROVE  ClaimsHold' /\ EffectsHold' /\ MemoryHolds' /\ SealedWhileOpen' /\ PostsAgree'
  <2>1. /\ sweep'.pc = sweep.pc /\ sweep'.stuck = sweep.stuck
        /\ sweep'.left \subseteq sweep.left
        /\ UNCHANGED <<row, audited, effects, posts, handler, exec>>
    BY <1>0, <1>6 DEF SweepHandOver, SweepSkips, SweepType
  <2> QED BY <1>0, <1>2, <2>1, RowFrame
<1>7. ASSUME SweepUnclaimed \/ SweepEnd \/ SweepDies
      PROVE  ClaimsHold' /\ EffectsHold' /\ MemoryHolds' /\ SealedWhileOpen' /\ PostsAgree'
  <2>1. /\ sweep'.pc \in {"idle", "unclaimed"} /\ sweep'.stuck \subseteq sweep.stuck
        /\ UNCHANGED <<row, audited, effects, posts, handler, exec>>
    <3>1. CASE sweep' = IdleSweep
      BY <1>7, <3>1 DEF SweepUnclaimed, SweepEnd, SweepDies, IdleSweep
    <3>2. CASE SweepUnclaimed
      BY <1>0, <3>2 DEF SweepUnclaimed, SweepType
    <3> QED BY <1>7, <3>1, <3>2 DEF SweepEnd, SweepDies
  <2> QED BY <1>0, <1>2, <2>1, RowFrame
<1> QED BY <1>3, <1>4, <1>5, <1>6, <1>7 DEF SweepNext

LEMMA OutsideIInv ==
  ASSUME IInv, OutsideNext
  PROVE  ClaimsHold' /\ EffectsHold' /\ MemoryHolds' /\ SealedWhileOpen' /\ PostsAgree'
<1>0. /\ ClaimsHold /\ EffectsHold /\ MemoryHolds /\ SealedWhileOpen /\ PostsAgree
      /\ row \in [Requests -> RowType] /\ audited \in [Requests -> SUBSET AuditType]
      /\ sweep \in SweepType
  BY DEF IInv, TypeOK
\* A pause, and a person leaving, end the requests that wait.
<1>1. ASSUME NEW R \in SUBSET InStatus("pending"), NEW to \in {"expired", "cancelled"},
             row' = Moved(row, R, to),
             UNCHANGED <<audited, effects, posts, handler, exec, sweep>>
      PROVE  ClaimsHold' /\ EffectsHold' /\ MemoryHolds' /\ SealedWhileOpen' /\ PostsAgree'
  <2>1. R \in SUBSET Requests /\ \A r \in R : row[r].status = "pending"
    BY DEF InStatus
  <2>2. ClaimsHold' /\ EffectsHold' /\ SealedWhileOpen' /\ PostsAgree'
    BY <1>1, EndPending
  <2>3. \A r \in Requests : /\ r \notin R => row'[r] = row[r]
                            /\ r \in R => row'[r].status = to
    BY <1>0, <1>1, <2>1, MovedRow
  <2>4. sweep.stuck \subseteq Requests /\ sweep.left \subseteq Requests
    BY <1>0 DEF SweepType
  <2>5. MemoryHolds'
    BY <1>0, <1>1, <2>1, <2>3, <2>4 DEF MemoryHolds, HoldsClaim
  <2> QED BY <2>2, <2>5
<1>2. CASE Pause
  BY <1>1, <1>2 DEF Pause
<1>3. ASSUME NEW u \in People, Deactivate(u)
      PROVE  ClaimsHold' /\ EffectsHold' /\ MemoryHolds' /\ SealedWhileOpen' /\ PostsAgree'
  BY <1>1, <1>3 DEF Deactivate
<1>4. ASSUME UNCHANGED <<row, audited, effects, posts, handler, exec, sweep>>
      PROVE  ClaimsHold' /\ EffectsHold' /\ MemoryHolds' /\ SealedWhileOpen' /\ PostsAgree'
  BY <1>0, <1>4, ClaimsFrame, EffectsFrame, MemoryFrame, RowFrame
<1>5. ASSUME NEW u \in People, StartTurn(u) \/ EndTurn(u) \/ Reactivate(u)
      PROVE  ClaimsHold' /\ EffectsHold' /\ MemoryHolds' /\ SealedWhileOpen' /\ PostsAgree'
  BY <1>4, <1>5 DEF StartTurn, EndTurn, Reactivate
<1>6. CASE Unpause \/ ChangeService
  BY <1>4, <1>6 DEF Unpause, ChangeService
<1>7. CASE Tick
  <2>1. ASSUME NEW r \in Requests
        PROVE  /\ row'[r].status = row[r].status /\ row'[r].hash = row[r].hash
               /\ row'[r].sealed = row[r].sealed
               /\ row'[r].age \in {row[r].age, row[r].age + 1}
    <3>1. ASSUME NEW x \in RowType, NEW y, y = [x EXCEPT !.age = @ + 1]
          PROVE  /\ y.status = x.status /\ y.hash = x.hash /\ y.sealed = x.sealed
                 /\ y.age = x.age + 1
      BY <3>1 DEF RowType
    <3>2. row[r] \in RowType
      BY <1>0
    <3> QED BY <1>7, <3>1, <3>2 DEF Tick
  <2>2. /\ UNCHANGED <<audited, effects, posts, handler, exec, sweep>>
        /\ \A e \in Executors : HoldsClaim(e) => row[exec[e].req].age < RunLimit
    BY <1>7 DEF Tick
  <2>3. \A r \in Requests : row[r].age \in Nat
    BY <1>0, AgeType DEF RowType
  <2>4. ClaimsHold'
    <3>1. ASSUME NEW e \in Executors, HoldsClaim(e)
          PROVE  row'[exec[e].req].age <= RunLimit
      <4>1. exec[e].req \in Requests /\ row[exec[e].req].age < RunLimit
        BY <1>0, <2>2, <3>1 DEF ClaimsHold, HoldsClaim
      <4> QED BY <2>1, <2>3, <4>1, TimeAssumption
    <3> QED BY <1>0, <2>1, <2>2, <3>1 DEF ClaimsHold, HoldsClaim, Outcome
  <2>5. EffectsHold'
    BY <1>0, <2>1, <2>2 DEF EffectsHold, WasAgreed
  <2>6. MemoryHolds'
    <3>1. sweep.stuck \subseteq Requests /\ sweep.left \subseteq Requests
      BY <1>0 DEF SweepType
    <3> QED BY <1>0, <2>1, <2>2, <3>1 DEF MemoryHolds, HoldsClaim
  <2>7. SealedWhileOpen' /\ PostsAgree'
    BY <1>0, <2>1, <2>2 DEF SealedWhileOpen, PostsAgree
  <2> QED BY <2>4, <2>5, <2>6, <2>7
<1> QED BY <1>2, <1>3, <1>5, <1>6, <1>7 DEF OutsideNext

-----------------------------------------------------------------------------
(* The theorems.                                                           *)

LEMMA InitIInv == Init => IInv
<1> SUFFICES ASSUME Init PROVE IInv
  OBVIOUS
<1>1. TypeOK
  BY InitTypeOK
<1>2. ClaimsHold
  BY DEF Init, ClaimsHold, HoldsClaim, IdleExec
<1>3. EffectsHold
  BY DEF Init, EffectsHold, WasAgreed, Blank
<1>4. MemoryHolds
  BY DEF Init, MemoryHolds, IdleSweep, IdleHandler
<1>5. SealedWhileOpen /\ PostsAgree
  BY DEF Init, SealedWhileOpen, PostsAgree, Blank
<1> QED BY <1>1, <1>2, <1>3, <1>4, <1>5 DEF IInv

LEMMA NextIInv == IInv /\ [Next]_vars => IInv'
<1> SUFFICES ASSUME IInv, [Next]_vars PROVE IInv'
  OBVIOUS
<1>0. /\ ClaimsHold /\ EffectsHold /\ MemoryHolds /\ SealedWhileOpen /\ PostsAgree
  BY DEF IInv
<1>1. TypeOK'
  BY NextTypeOK
<1>2. ASSUME UNCHANGED <<row, audited, effects, posts, handler, exec, sweep>>
      PROVE  ClaimsHold' /\ EffectsHold' /\ MemoryHolds' /\ SealedWhileOpen' /\ PostsAgree'
  BY <1>0, <1>2, ClaimsFrame, EffectsFrame, MemoryFrame, RowFrame
<1>3. ASSUME NEW r \in Requests, ResultExpires(r) \/ HandOverLost(r)
      PROVE  ClaimsHold' /\ EffectsHold' /\ MemoryHolds' /\ SealedWhileOpen' /\ PostsAgree'
  BY <1>2, <1>3 DEF ResultExpires, HandOverLost
<1>4. ASSUME UNCHANGED vars
      PROVE  ClaimsHold' /\ EffectsHold' /\ MemoryHolds' /\ SealedWhileOpen' /\ PostsAgree'
  <2>1. UNCHANGED <<row, audited, effects, posts, handler, exec, sweep>>
    BY <1>4 DEF vars
  <2> QED BY <1>2, <2>1
<1>5. ASSUME NEW h \in Handlers, HandlerNext(h)
      PROVE  ClaimsHold' /\ EffectsHold' /\ MemoryHolds' /\ SealedWhileOpen' /\ PostsAgree'
  BY <1>5, HandlerIInv
<1>6. ASSUME NEW e \in Executors, ExecNext(e)
      PROVE  ClaimsHold' /\ EffectsHold' /\ MemoryHolds' /\ SealedWhileOpen' /\ PostsAgree'
  BY <1>6, ExecIInv
<1>7. ASSUME SweepNext \/ OutsideNext
      PROVE  ClaimsHold' /\ EffectsHold' /\ MemoryHolds' /\ SealedWhileOpen' /\ PostsAgree'
  BY <1>7, SweepIInv, OutsideIInv
<1>8. ASSUME NEW r \in Requests, NEW u \in People, NEW tier \in {"asker", "approver"},
             NEW i \in Inputs, Submit(r, u, tier, i)
      PROVE  ClaimsHold' /\ EffectsHold' /\ MemoryHolds' /\ SealedWhileOpen' /\ PostsAgree'
  BY <1>8, SubmitIInv
<1>9. ClaimsHold' /\ EffectsHold' /\ MemoryHolds' /\ SealedWhileOpen' /\ PostsAgree'
  BY <1>3, <1>4, <1>5, <1>6, <1>7, <1>8 DEF Next
<1> QED BY <1>1, <1>9 DEF IInv

\* The inductive invariant holds of every execution: one live claim per request, what
\* runs and ran is what was approved, and what the sweep and a handler remember of a
\* row is still true of it when they act.
THEOREM Invariance == Spec => []IInv
BY InitIInv, NextIInv, PTL DEF Spec

\* Every variable keeps its type.
THEOREM TypeCorrect == Spec => []TypeOK
<1>1. IInv => TypeOK
  BY DEF IInv
<1> QED BY Invariance, <1>1, PTL

\* No request reaches the system outside twice, for any number of executors, sweeps,
\* crashes and repeated hand-overs (executor.execute's claim).
THEOREM AtMostOnce == Spec => []RunsAtMostOnce
<1>1. IInv => RunsAtMostOnce
  <2> SUFFICES ASSUME IInv, NEW r \in Requests PROVE Len(effects[r]) <= 1
    BY DEF RunsAtMostOnce
  <2>1. effects[r] = << >> \/ effects[r] = <<row[r].hash>>
    BY DEF IInv, EffectsHold
  <2>2. CASE effects[r] = << >>
    BY <2>2
  <2>3. CASE effects[r] = <<row[r].hash>>
    BY <2>3
  <2> QED BY <2>1, <2>2, <2>3
<1> QED BY Invariance, <1>1, PTL

\* What reached the outside is the input whose hash the approval was audited with,
\* whoever edited or decided it (approvals.resolve, unseal).
THEOREM OnlyWhatWasApproved == Spec => []RunsOnlyWhatWasApproved
<1>1. IInv => RunsOnlyWhatWasApproved
  <2> SUFFICES ASSUME IInv, NEW r \in Requests, effects[r] # << >>
               PROVE  Entry("approved", effects[r][1]) \in audited[r]
    BY DEF RunsOnlyWhatWasApproved
  <2>1. effects[r] = <<row[r].hash>> /\ WasAgreed(r)
    BY DEF IInv, EffectsHold, WasAgreed
  <2>2. effects[r][1] = row[r].hash
    BY <2>1
  <2>3. Entry("approved", row[r].hash) \in audited[r]
    BY <2>1 DEF IInv, EffectsHold
  <2> QED BY <2>2, <2>3
<1> QED BY Invariance, <1>1, PTL

\* The sealed input is kept exactly while the request is open.
THEOREM Sealed == Spec => []SealedWhileOpen
<1>1. IInv => SealedWhileOpen
  BY DEF IInv
<1> QED BY Invariance, <1>1, PTL

\* The conversation is only ever told the request's own ending, also when the sweep
\* and an executor both believe they ended it.
THEOREM PostsTellTheEnding == Spec => []PostsAgree
<1>1. IInv => PostsAgree
  BY DEF IInv
<1> QED BY Invariance, <1>1, PTL

\* No step runs a request that is not executing: what the sweep gave up on is over.
THEOREM NothingRunsLate == Spec => RunsOnlyWhileExecuting
<1>1. ASSUME IInv, [Next]_vars, NEW r \in Requests, effects'[r] # effects[r]
      PROVE  row[r].status = "executing"
  <2>1. PICK e \in Executors : RunTool(e)
    <3>1. ASSUME NEW h \in Handlers, HandlerNext(h) PROVE UNCHANGED effects
      BY <3>1 DEF HandlerNext, OpenDecision, CommitDecision, Withdraw, HandlerDispatch,
           HandlerPost, HandlerDies
    <3>2. ASSUME NEW e \in Executors, ExecNext(e) PROVE RunTool(e) \/ UNCHANGED effects
      BY <3>2 DEF ExecNext, StartJob, Claim, Recheck, Record, ExecPost, JobTimesOut,
           ExecDies
    <3>3. CASE SweepNext
      BY <1>1, <3>3 DEF SweepNext, SweepExpire, SweepStuck, SweepUnclaimed, SweepEnd,
           SweepDies, SweepPost, SweepHandOver, SweepSkips
    <3>4. CASE OutsideNext
      BY <1>1, <3>4 DEF OutsideNext, StartTurn, EndTurn, Deactivate, Reactivate, Pause,
           Unpause, ChangeService, Tick
    <3>5. ASSUME NEW s \in Requests, ResultExpires(s) \/ HandOverLost(s)
          PROVE  UNCHANGED effects
      BY <3>5 DEF ResultExpires, HandOverLost
    <3>6. ASSUME NEW s \in Requests, NEW u, NEW tier, NEW i, Submit(s, u, tier, i)
          PROVE  UNCHANGED effects
      BY <3>6 DEF Submit
    <3>7. CASE UNCHANGED vars
      BY <1>1, <3>7 DEF vars
    <3> QED BY <1>1, <3>1, <3>2, <3>3, <3>4, <3>5, <3>6, <3>7 DEF Next
  <2>2. r = exec[e].req
    BY <1>1, <2>1 DEF RunTool, IInv, TypeOK
  <2>3. row[exec[e].req].status = "executing"
    BY <1>1, <2>1 DEF RunTool, IInv, ClaimsHold, HoldsClaim
  <2> QED BY <2>2, <2>3
<1>2. IInv /\ [Next]_vars =>
        [\A r \in Requests : effects'[r] # effects[r] => row[r].status = "executing"]_vars
  BY <1>1
<1> QED BY Invariance, <1>2, PTL DEF Spec, RunsOnlyWhileExecuting

-----------------------------------------------------------------------------
(* The kinds of steps.                                                     *)

\* The row of s means the same before and after.
Same(s) == row'[s].status = row[s].status /\ row'[s].hash = row[s].hash

SameBut(R) ==
  /\ \A s \in Requests \ R : Same(s) /\ audited'[s] = audited[s]
  /\ UNCHANGED effects

Rests == UNCHANGED <<effects, audited>> /\ \A s \in Requests : Same(s)

Raises(r) ==
  /\ row[r].status = "none" /\ row'[r].status = "pending"
  /\ audited'[r] = {Entry("submitted", row'[r].hash)}
  /\ SameBut({r})

Decides(r) ==
  /\ row[r].status = "pending" /\ row'[r].status \in {"approved", "denied"}
  /\ audited'[r] = audited[r] \cup {Entry(row'[r].status, row'[r].hash)}
  /\ SameBut({r})

\* From, to, and the word the audit has for it; a pause, a deactivation and a claim
\* leave no entry.
Passages ==
  {<<"pending", "cancelled", "withdrawn">>, <<"pending", "cancelled", "silent">>,
   <<"pending", "expired", "expired">>, <<"pending", "expired", "silent">>,
   <<"approved", "executing", "silent">>,
   <<"executing", "succeeded", "executed">>, <<"executing", "failed", "failed">>}

Passes(R, p) ==
  /\ \A s \in R : /\ row[s].status = p[1]
                  /\ row'[s].status = p[2] /\ row'[s].hash = row[s].hash
                  /\ audited'[s] = audited[s] \cup
                       (IF p[3] = "silent" THEN {} ELSE {Entry(p[3], row[s].hash)})
  /\ SameBut(R)

Performs(r) ==
  /\ UNCHANGED <<row, audited>>
  /\ row[r].status = "executing" /\ effects[r] = << >>
  /\ effects' = [effects EXCEPT ![r] = <<row[r].hash>>]

StepKinds ==
  \/ Rests
  \/ \E r \in Requests : Raises(r) \/ Decides(r) \/ Performs(r)
  \/ \E R \in SUBSET Requests, p \in Passages : Passes(R, p)

-----------------------------------------------------------------------------
(* Every step is of one of these kinds.                                    *)

\* A conditional UPDATE that finds the rows R, with the entries of Audit or none.
LEMMA MovedPasses ==
  ASSUME NEW R \in SUBSET Requests, NEW p \in Passages,
         row \in [Requests -> RowType], audited \in [Requests -> SUBSET AuditType],
         row' = Moved(row, R, p[2]), UNCHANGED effects,
         \A s \in R : row[s].status = p[1],
         p[3] = "silent" => UNCHANGED audited,
         p[3] # "silent" => Audit(R, p[3])
  PROVE  Passes(R, p)
<1>1. p[2] \in Status
  <2>1. \/ p = <<"pending", "cancelled", "withdrawn">> \/ p = <<"pending", "cancelled", "silent">>
        \/ p = <<"pending", "expired", "expired">> \/ p = <<"pending", "expired", "silent">>
        \/ p = <<"approved", "executing", "silent">>
        \/ p = <<"executing", "succeeded", "executed">> \/ p = <<"executing", "failed", "failed">>
    BY DEF Passages
  <2>2. p[2] \in {"cancelled", "expired", "executing", "succeeded", "failed"}
    BY <2>1
  <2> QED BY <2>2 DEF Status, Open, Final
<1>2. ASSUME NEW s \in R PROVE row'[s].status = p[2] /\ row'[s].hash = row[s].hash
  BY <1>1, <1>2, MovedRow
<1>3. ASSUME NEW s \in Requests \ R PROVE Same(s)
  BY <1>1, <1>3, MovedRow DEF Same
<1>4. CASE p[3] = "silent"
  BY <1>2, <1>3, <1>4 DEF Passes, SameBut
<1>5. CASE p[3] # "silent"
  <2>1. \A s \in Requests : audited'[s] = IF s \in R
          THEN audited[s] \cup {Entry(p[3], row[s].hash)} ELSE audited[s]
    BY <1>5 DEF Audit
  <2> QED BY <1>2, <1>3, <1>5, <2>1 DEF Passes, SameBut
<1> QED BY <1>4, <1>5

LEMMA Resting ==
  ASSUME UNCHANGED <<row, audited, effects>> PROVE StepKinds
BY DEF StepKinds, Rests, Same

LEMMA Kinds == IInv /\ [Next]_vars => StepKinds
<1> SUFFICES ASSUME IInv, [Next]_vars PROVE StepKinds
  OBVIOUS
<1>0. /\ row \in [Requests -> RowType] /\ audited \in [Requests -> SUBSET AuditType]
      /\ effects \in [Requests -> Seq(Inputs)] /\ ClaimsHold
  BY DEF IInv, TypeOK
<1>1. ASSUME NEW r \in Requests, NEW u \in People, NEW tier \in {"asker", "approver"},
             NEW i \in Inputs, Submit(r, u, tier, i)
      PROVE  StepKinds
  <2>1. Raises(r)
    BY <1>0, <1>1 DEF Submit, Raises, SameBut, Same
  <2> QED BY <2>1 DEF StepKinds
<1>2. ASSUME NEW h \in Handlers, HandlerNext(h) PROVE StepKinds
  <2>1. CASE CommitDecision(h) /\ ~StillDecidable(handler[h].req)
    BY <2>1, Resting DEF CommitDecision
  <2>2. CASE CommitDecision(h) /\ StillDecidable(handler[h].req)
    <3> DEFINE r == handler[h].req
               d == handler[h]
    <3>1. /\ r \in Requests /\ d.verdict \in {"approved", "denied"}
      BY <2>2 DEF IInv, MemoryHolds, CommitDecision
    <3>2. /\ row' = Decided(r, d.by, d.verdict, d.edit)
          /\ audited' = [audited EXCEPT ![r] = @ \cup {Entry(d.verdict, row'[r].hash)}]
          /\ UNCHANGED effects /\ row[r].status = "pending"
      BY <2>2 DEF CommitDecision, DecisionEntry, StillDecidable
    <3>3. row'[r].status = d.verdict /\ \A s \in Requests \ {r} : row'[s] = row[s]
      BY <1>0, <3>1, <3>2 DEF Decided
    <3>4. Decides(r)
      BY <1>0, <3>1, <3>2, <3>3 DEF Decides, SameBut, Same
    <3> QED BY <3>1, <3>4 DEF StepKinds
  <2>3. ASSUME NEW r \in Requests, Withdraw(h, r) PROVE StepKinds
    <3> DEFINE p == <<"pending", "cancelled", "withdrawn">>
    <3>1. p \in Passages
      BY DEF Passages
    <3>2. Passes({r}, p)
      BY <1>0, <2>3, <3>1, MovedPasses DEF Withdraw
    <3> QED BY <3>1, <3>2 DEF StepKinds
  <2>4. CASE \/ \E u \in People, r \in Requests, verdict \in {"approved", "denied"},
                   edit \in Inputs \cup {None} : OpenDecision(h, u, r, verdict, edit)
             \/ HandlerDispatch(h) \/ HandlerPost(h) \/ HandlerDies(h)
    BY <2>4, Resting DEF OpenDecision, HandlerDispatch, HandlerPost, HandlerDies
  <2> QED BY <1>2, <2>1, <2>2, <2>3, <2>4 DEF HandlerNext
<1>3. ASSUME NEW e \in Executors, ExecNext(e) PROVE StepKinds
  <2>1. CASE Claim(e)
    <3>1. CASE ~Claimable(exec[e].req)
      BY <2>1, <3>1, Resting DEF Claim
    <3>2. CASE Claimable(exec[e].req)
      <4> DEFINE p == <<"approved", "executing", "silent">>
      <4>1. p \in Passages
        BY DEF Passages
      <4>2. exec[e].req \in Requests
        BY <1>0, <2>1 DEF Claim, ClaimsHold
      <4>3. /\ row' = Moved(row, {exec[e].req}, "executing")
            /\ UNCHANGED <<audited, effects>> /\ row[exec[e].req].status = "approved"
        BY <2>1, <3>2 DEF Claim, Claimable
      <4>4. Passes({exec[e].req}, p)
        BY <1>0, <4>1, <4>2, <4>3, MovedPasses
      <4> QED BY <4>1, <4>2, <4>4 DEF StepKinds
    <3> QED BY <3>1, <3>2
  <2>2. CASE RunTool(e)
    <3> DEFINE r == exec[e].req
    <3>1. /\ r \in Requests /\ effects[r] = << >> /\ row[r].status = "executing"
          /\ exec[e].input = row[r].hash
      BY <1>0, <2>2 DEF RunTool, ClaimsHold, HoldsClaim
    <3>2. UNCHANGED <<row, audited>>
      BY <2>2 DEF RunTool
    <3>3. UNCHANGED effects \/ effects' = [effects EXCEPT ![r] = Append(@, exec[e].input)]
      BY <2>2 DEF RunTool
    <3>4. CASE UNCHANGED effects
      BY <3>2, <3>4, Resting
    <3>5. CASE effects' = [effects EXCEPT ![r] = Append(@, exec[e].input)]
      <4>1. Append(effects[r], exec[e].input) = <<row[r].hash>>
        BY <3>1
      <4>2. Performs(r)
        BY <3>1, <3>2, <3>5, <4>1 DEF Performs
      <4> QED BY <3>1, <4>2 DEF StepKinds
    <3> QED BY <3>3, <3>4, <3>5
  <2>3. CASE Record(e)
    <3> DEFINE r == exec[e].req
               word == IF exec[e].ok THEN "executed" ELSE "failed"
               p == <<"executing", Outcome(e), word>>
    <3>1. p \in Passages
      BY DEF Passages, Outcome
    <3>2. r \in Requests /\ row[r].status = "executing"
      BY <1>0, <2>3 DEF Record, ClaimsHold, HoldsClaim
    <3>3. {r} \cap InStatus("executing") = {r}
      BY <3>2 DEF InStatus
    <3>4. row' = Moved(row, {r}, Outcome(e)) /\ Audit({r}, word) /\ UNCHANGED effects
      BY <2>3, <3>3 DEF Record
    <3>5. Passes({r}, p)
      BY <1>0, <3>1, <3>2, <3>4, MovedPasses
    <3> QED BY <3>1, <3>2, <3>5 DEF StepKinds
  <2>4. CASE \/ \E r \in Requests : StartJob(e, r)
             \/ Recheck(e) \/ ExecPost(e) \/ JobTimesOut(e) \/ ExecDies(e)
    BY <2>4, Resting DEF StartJob, Recheck, ExecPost, JobTimesOut, ExecDies
  <2> QED BY <1>3, <2>1, <2>2, <2>3, <2>4 DEF ExecNext
<1>4. CASE SweepNext
  <2>1. CASE SweepExpire
    <3> DEFINE R == {s \in InStatus("pending") : row[s].age > TTL(row[s].tier)}
               p == <<"pending", "expired", "expired">>
    <3>1. p \in Passages
      BY DEF Passages
    <3>2. R \in SUBSET Requests /\ \A s \in R : row[s].status = "pending"
      BY DEF InStatus
    <3>3. row' = Moved(row, R, "expired") /\ Audit(R, "expired") /\ UNCHANGED effects
      BY <2>1 DEF SweepExpire
    <3> HIDE DEF R
    <3>4. Passes(R, p)
      BY <1>0, <3>1, <3>2, <3>3, MovedPasses
    <3> QED BY <3>1, <3>2, <3>4 DEF StepKinds
  <2>2. CASE SweepStuck
    <3> DEFINE R == sweep.stuck \cap InStatus("executing")
               p == <<"executing", "failed", "failed">>
    <3>1. p \in Passages
      BY DEF Passages
    <3>2. R \in SUBSET Requests /\ \A s \in R : row[s].status = "executing"
      BY DEF InStatus
    <3>3. row' = Moved(row, R, "failed") /\ Audit(R, "failed") /\ UNCHANGED effects
      BY <2>2 DEF SweepStuck
    <3> HIDE DEF R
    <3>4. Passes(R, p)
      BY <1>0, <3>1, <3>2, <3>3, MovedPasses
    <3> QED BY <3>1, <3>2, <3>4 DEF StepKinds
  <2>3. CASE \/ SweepUnclaimed \/ SweepEnd \/ SweepDies
             \/ \E r \in Requests : SweepPost(r) \/ SweepHandOver(r) \/ SweepSkips(r)
    BY <2>3, Resting DEF SweepUnclaimed, SweepEnd, SweepDies, SweepPost, SweepHandOver,
         SweepSkips
  <2> QED BY <1>4, <2>1, <2>2, <2>3 DEF SweepNext
<1>5. CASE OutsideNext
  <2>1. ASSUME NEW u \in People, Deactivate(u) PROVE StepKinds
    <3> DEFINE R == {s \in InStatus("pending") : row[s].asker = u}
               p == <<"pending", "cancelled", "silent">>
    <3>1. p \in Passages
      BY DEF Passages
    <3>2. R \in SUBSET Requests /\ \A s \in R : row[s].status = "pending"
      BY DEF InStatus
    <3>3. row' = Moved(row, R, "cancelled") /\ UNCHANGED <<audited, effects>>
      BY <2>1 DEF Deactivate
    <3> HIDE DEF R
    <3>4. Passes(R, p)
      BY <1>0, <3>1, <3>2, <3>3, MovedPasses
    <3> QED BY <3>1, <3>2, <3>4 DEF StepKinds
  <2>2. CASE Pause
    <3> DEFINE R == InStatus("pending")
               p == <<"pending", "expired", "silent">>
    <3>1. p \in Passages
      BY DEF Passages
    <3>2. R \in SUBSET Requests /\ \A s \in R : row[s].status = "pending"
      BY DEF InStatus
    <3>3. row' = Moved(row, R, "expired") /\ UNCHANGED <<audited, effects>>
      BY <2>2 DEF Pause
    <3> HIDE DEF R
    <3>4. Passes(R, p)
      BY <1>0, <3>1, <3>2, <3>3, MovedPasses
    <3> QED BY <3>1, <3>2, <3>4 DEF StepKinds
  <2>3. CASE Tick
    <3>1. \A s \in Requests : Same(s)
      <4> SUFFICES ASSUME NEW s \in Requests PROVE Same(s)
        OBVIOUS
      <4>1. row'[s] = row[s] \/ row'[s] = [row[s] EXCEPT !.age = @ + 1]
        BY <2>3 DEF Tick
      <4>2. row[s] \in RowType
        BY <1>0
      <4> QED BY <4>1, <4>2 DEF Same, RowType
    <3>2. UNCHANGED <<effects, audited>>
      BY <2>3 DEF Tick
    <3> QED BY <3>1, <3>2 DEF StepKinds, Rests
  <2>4. CASE \/ \E u \in People : StartTurn(u) \/ EndTurn(u) \/ Reactivate(u)
             \/ Unpause \/ ChangeService
    BY <2>4, Resting DEF StartTurn, EndTurn, Reactivate, Unpause, ChangeService
  <2> QED BY <1>5, <2>1, <2>2, <2>3, <2>4 DEF OutsideNext
<1>6. ASSUME NEW r \in Requests, ResultExpires(r) \/ HandOverLost(r) PROVE StepKinds
  BY <1>6, Resting DEF ResultExpires, HandOverLost
<1>7. CASE UNCHANGED vars
  BY <1>7, Resting DEF vars
<1> QED BY <1>1, <1>2, <1>3, <1>4, <1>5, <1>6, <1>7 DEF Next

-----------------------------------------------------------------------------
(* The state machine of a row.                                             *)

\* The passages, one by one.
LEMMA PassageCases ==
  ASSUME NEW p \in Passages
  PROVE  \/ p[1] = "pending" /\ p[2] = "cancelled" /\ p[3] \in {"withdrawn", "silent"}
         \/ p[1] = "pending" /\ p[2] = "expired" /\ p[3] \in {"expired", "silent"}
         \/ p[1] = "approved" /\ p[2] = "executing" /\ p[3] = "silent"
         \/ p[1] = "executing" /\ p[2] = "succeeded" /\ p[3] = "executed"
         \/ p[1] = "executing" /\ p[2] = "failed" /\ p[3] = "failed"
<1>1. \/ p = <<"pending", "cancelled", "withdrawn">> \/ p = <<"pending", "cancelled", "silent">>
      \/ p = <<"pending", "expired", "expired">> \/ p = <<"pending", "expired", "silent">>
      \/ p = <<"approved", "executing", "silent">>
      \/ p = <<"executing", "succeeded", "executed">> \/ p = <<"executing", "failed", "failed">>
  BY DEF Passages
<1> QED BY <1>1

\* Whatever happens, a row only ever makes the moves of models/approval.py.
THEOREM OnlyLegalMoves == Spec => StatusMoves
<1>1. ASSUME StepKinds, NEW r \in Requests, row'[r].status # row[r].status
      PROVE  <<row[r].status, row'[r].status>> \in Moves
  <2>1. CASE Rests
    BY <1>1, <2>1 DEF Rests, Same
  <2>2. ASSUME NEW s \in Requests, Raises(s) \/ Decides(s) \/ Performs(s)
        PROVE  <<row[r].status, row'[r].status>> \in Moves
    <3>1. CASE r = s
      BY <1>1, <2>2, <3>1 DEF Raises, Decides, Performs, Moves
    <3>2. CASE r # s
      BY <1>1, <2>2, <3>2 DEF Raises, Decides, Performs, SameBut, Same
    <3> QED BY <3>1, <3>2
  <2>3. ASSUME NEW R \in SUBSET Requests, NEW p \in Passages, Passes(R, p)
        PROVE  <<row[r].status, row'[r].status>> \in Moves
    <3>1. r \in R /\ row[r].status = p[1] /\ row'[r].status = p[2]
      BY <1>1, <2>3 DEF Passes, SameBut, Same
    <3> QED BY <3>1, PassageCases DEF Moves
  <2> QED BY <1>1, <2>1, <2>2, <2>3 DEF StepKinds
<1>2. IInv /\ [Next]_vars =>
        [\A r \in Requests : row'[r].status # row[r].status =>
           <<row[r].status, row'[r].status>> \in Moves]_vars
  BY <1>1, Kinds
<1> QED BY Invariance, <1>2, PTL DEF Spec, StatusMoves

-----------------------------------------------------------------------------
(* The story the audit tells.                                              *)

\* What is told of a request in each status; a pause or a deactivation ends one
\* without a word.
Stories(s) ==
  CASE s = "none" -> {{}}
    [] s = "pending" -> {{"submitted"}}
    [] s \in {"approved", "executing"} -> {{"submitted", "approved"}}
    [] s = "succeeded" -> {{"submitted", "approved", "executed"}}
    [] s = "failed" -> {{"submitted", "approved", "failed"}}
    [] s = "denied" -> {{"submitted", "denied"}}
    [] s = "expired" -> {{"submitted"}, {"submitted", "expired"}}
    [] s = "cancelled" -> {{"submitted"}, {"submitted", "withdrawn"}}

Tells(r) ==
  /\ Told(r) \in Stories(row[r].status)
  /\ \A x, y \in audited[r] : x.what = y.what => x = y

StoryInv == \A r \in Requests : Tells(r)

\* A word not said before is added to the story.
LEMMA NewWord ==
  ASSUME NEW r \in Requests, NEW w, NEW i, w \notin Told(r),
         \A x, y \in audited[r] : x.what = y.what => x = y,
         audited'[r] = audited[r] \cup {Entry(w, i)}
  PROVE  /\ Told(r)' = Told(r) \cup {w}
         /\ \A x, y \in audited'[r] : x.what = y.what => x = y
<1>1. Entry(w, i).what = w
  BY DEF Entry
<1>2. Told(r)' = Told(r) \cup {w}
  BY <1>1 DEF Told
<1>3. \A x \in audited[r] : x.what # w
  BY DEF Told
<1> QED BY <1>1, <1>2, <1>3

LEMMA StoryInit == Init => StoryInv
BY DEF Init, StoryInv, Tells, Told, Stories, Blank

LEMMA StoryStep == TypeOK /\ StoryInv /\ StepKinds => StoryInv'
<1> SUFFICES ASSUME TypeOK, StoryInv, StepKinds, NEW r \in Requests PROVE Tells(r)'
  BY DEF StoryInv
<1>0. Tells(r)
  BY DEF StoryInv
<1>1. ASSUME Same(r), audited'[r] = audited[r] PROVE Tells(r)'
  BY <1>0, <1>1 DEF Tells, Told, Same
<1>2. CASE Rests
  BY <1>1, <1>2 DEF Rests
<1>3. ASSUME NEW s \in Requests, Raises(s) \/ Decides(s) \/ Performs(s), r # s
      PROVE  Tells(r)'
  BY <1>1, <1>3 DEF Raises, Decides, Performs, SameBut, Same
<1>4. CASE Raises(r)
  <2>1. audited'[r] = {Entry("submitted", row'[r].hash)} /\ row'[r].status = "pending"
    BY <1>4 DEF Raises
  <2>2. Told(r)' = {"submitted"}
    BY <2>1 DEF Told, Entry
  <2> QED BY <2>1, <2>2 DEF Tells, Stories
<1>5. CASE Decides(r)
  <2>1. Told(r) = {"submitted"}
    BY <1>0, <1>5 DEF Decides, Tells, Stories
  <2>2. row'[r].status \in {"approved", "denied"}
    BY <1>5 DEF Decides
  <2>3. /\ Told(r)' = Told(r) \cup {row'[r].status}
        /\ \A x, y \in audited'[r] : x.what = y.what => x = y
    BY <1>0, <1>5, <2>1, <2>2, NewWord DEF Decides, Tells
  <2>4. Told(r)' \in Stories(row'[r].status)
    BY <2>1, <2>2, <2>3 DEF Stories
  <2> QED BY <2>3, <2>4 DEF Tells
<1>6. CASE Performs(r)
  BY <1>1, <1>6 DEF Performs, Same
<1>7. ASSUME NEW R \in SUBSET Requests, NEW p \in Passages, Passes(R, p)
      PROVE  Tells(r)'
  <2>1. CASE r \notin R
    BY <1>1, <1>7, <2>1 DEF Passes, SameBut
  <2>2. CASE r \in R
    <3>1. /\ row[r].status = p[1] /\ row'[r].status = p[2]
          /\ audited'[r] = audited[r] \cup
               (IF p[3] = "silent" THEN {} ELSE {Entry(p[3], row[r].hash)})
      BY <1>7, <2>2 DEF Passes
    <3>2. Told(r) \in Stories(p[1])
      BY <1>0, <3>1 DEF Tells
    <3>3. CASE p[3] = "silent"
      <4>1. audited'[r] = audited[r] /\ Told(r)' = Told(r)
        BY <3>1, <3>3 DEF Told
      <4>2. Told(r)' \in Stories(p[2])
        BY <3>2, <3>3, <4>1, PassageCases DEF Stories
      <4> QED BY <1>0, <3>1, <4>1, <4>2 DEF Tells
    <3>4. CASE p[3] # "silent"
      <4>1. p[3] \notin Told(r)
        BY <3>2, <3>4, PassageCases DEF Stories
      <4>2. /\ Told(r)' = Told(r) \cup {p[3]}
            /\ \A x, y \in audited'[r] : x.what = y.what => x = y
        BY <1>0, <3>1, <3>4, <4>1, NewWord DEF Tells
      <4>3. Told(r)' \in Stories(p[2])
        BY <3>2, <3>4, <4>2, PassageCases DEF Stories
      <4> QED BY <3>1, <4>2, <4>3 DEF Tells
    <3> QED BY <3>3, <3>4
  <2> QED BY <2>1, <2>2
<1> QED BY <1>2, <1>3, <1>4, <1>5, <1>6, <1>7 DEF StepKinds

\* The audit of every request tells one story, the one of its row.
THEOREM AuditTellsTheRow == Spec => []OneStory
<1>1. StoryInv /\ TypeOK => OneStory
  <2> SUFFICES ASSUME StoryInv, TypeOK, NEW r \in Requests
               PROVE  /\ \A x, y \in audited[r] : x.what = y.what => x = y
                      /\ "approved" \in Told(r) <=>
                           row[r].status \in {"approved", "executing", "succeeded", "failed"}
                      /\ "executed" \in Told(r) <=> row[r].status = "succeeded"
                      /\ "failed" \in Told(r) <=> row[r].status = "failed"
                      /\ "denied" \in Told(r) <=> row[r].status = "denied"
    BY DEF OneStory
  <2>1. Tells(r)
    BY DEF StoryInv
  <2>2. row[r].status \in {"none", "pending", "approved", "executing", "denied", "expired",
                           "cancelled", "succeeded", "failed"}
    BY DEF TypeOK, RowType, Status, Open, Final
  <2> QED BY <2>1, <2>2 DEF Tells, Stories
<1>2. IInv => TypeOK
  BY DEF IInv
<1>3. IInv /\ StoryInv /\ [Next]_vars => StoryInv'
  BY <1>2, Kinds, StoryStep
<1> QED BY Invariance, StoryInit, <1>1, <1>2, <1>3, PTL DEF Spec

-----------------------------------------------------------------------------
(* The contract.                                                           *)

\* The initial states are the contract's.
LEMMA ContractInit == Init => Contract!Init
BY DEF Init, Contract!Init, Phase, WasAgreed, Final, Blank

\* What the mapping makes of a row depends on its status and its hash.
LEMMA SameMaps ==
  ASSUME NEW s \in Requests, Same(s)
  PROVE  /\ Phase(row[s].status)' = Phase(row[s].status)
         /\ WasAgreed(s)' = WasAgreed(s)
         /\ (IF WasAgreed(s) THEN row[s].hash ELSE None)'
              = (IF WasAgreed(s) THEN row[s].hash ELSE None)
BY DEF Same, Phase, WasAgreed, Final

\* Every step is one of the contract's, or changes nothing it sees.
LEMMA ContractStep ==
  IInv /\ IInv' /\ StepKinds => [Contract!Next]_(Contract!cvars)
<1> DEFINE phase == [r \in Requests |-> Phase(row[r].status)]
           agreed == [r \in Requests |-> IF WasAgreed(r) THEN row[r].hash ELSE None]
<1> SUFFICES ASSUME IInv, IInv', StepKinds PROVE [Contract!Next]_(Contract!cvars)
  OBVIOUS
<1>0. effects \in [Requests -> Seq(Inputs)] /\ row \in [Requests -> RowType]
  BY DEF IInv, TypeOK
<1>1. ASSUME UNCHANGED effects, \A s \in Requests : Same(s)
      PROVE  UNCHANGED Contract!cvars
  BY <1>1, SameMaps DEF Contract!cvars
<1>2. CASE Rests
  BY <1>1, <1>2 DEF Rests
<1>3. ASSUME NEW r \in Requests, Raises(r) PROVE Contract!Ask(r)
  <2>1. phase[r] = "none" /\ phase'[r] = "asked" /\ agreed[r] = None /\ agreed'[r] = None
    BY <1>3 DEF Raises, Phase, WasAgreed, Final
  <2>2. \A s \in Requests \ {r} : phase'[s] = phase[s] /\ agreed'[s] = agreed[s]
    BY <1>3, SameMaps DEF Raises, SameBut
  <2>3. UNCHANGED effects
    BY <1>3 DEF Raises, SameBut
  <2>4. phase' = [phase EXCEPT ![r] = "asked"]
    BY <2>1, <2>2
  <2>5. agreed' = agreed
    BY <2>1, <2>2
  <2> QED BY <2>1, <2>3, <2>4, <2>5 DEF Contract!Ask
<1>4. ASSUME NEW r \in Requests, NEW i \in Inputs,
             Decides(r), row'[r].status = "approved", row'[r].hash = i
      PROVE  Contract!Agree(r, i)
  <2>1. phase[r] = "asked" /\ phase'[r] = "agreed" /\ agreed'[r] = i
    BY <1>4 DEF Decides, Phase, WasAgreed, Final
  <2>2. \A s \in Requests \ {r} : phase'[s] = phase[s] /\ agreed'[s] = agreed[s]
    BY <1>4, SameMaps DEF Decides, SameBut
  <2>3. UNCHANGED effects
    BY <1>4 DEF Decides, SameBut
  <2>4. phase' = [phase EXCEPT ![r] = "agreed"] /\ agreed' = [agreed EXCEPT ![r] = i]
    BY <2>1, <2>2
  <2> QED BY <2>1, <2>3, <2>4 DEF Contract!Agree
<1>5. ASSUME NEW R \in SUBSET Requests, UNCHANGED effects,
             \A s \in R : /\ phase[s] \in {"asked", "agreed"} /\ phase'[s] = "ended"
                          /\ agreed'[s] = agreed[s],
             \A s \in Requests \ R : phase'[s] = phase[s] /\ agreed'[s] = agreed[s]
      PROVE  Contract!End(R)
  <2>1. phase' = [r \in Requests |-> IF r \in R THEN "ended" ELSE phase[r]]
    BY <1>5
  <2>2. agreed' = agreed
    BY <1>5
  <2> QED BY <1>5, <2>1, <2>2 DEF Contract!End
<1>6. ASSUME NEW r \in Requests, Decides(r), row'[r].status = "denied"
      PROVE  Contract!End({r})
  <2>1. phase[r] = "asked" /\ phase'[r] = "ended" /\ agreed[r] = None /\ agreed'[r] = None
    BY <1>6 DEF Decides, Phase, WasAgreed, Final
  <2>2. \A s \in Requests \ {r} : phase'[s] = phase[s] /\ agreed'[s] = agreed[s]
    BY <1>6, SameMaps DEF Decides, SameBut
  <2>3. UNCHANGED effects
    BY <1>6 DEF Decides, SameBut
  <2> QED BY <1>5, <2>1, <2>2, <2>3
<1>7. ASSUME NEW r \in Requests, Performs(r) PROVE Contract!Perform(r)
  <2>1. phase[r] = "agreed" /\ agreed[r] = row[r].hash
    BY <1>7 DEF Performs, Phase, WasAgreed, Final
  <2>2. phase' = phase /\ agreed' = agreed
    BY <1>7 DEF Performs, Phase, WasAgreed, Final
  <2> QED BY <1>7, <2>1, <2>2 DEF Performs, Contract!Perform
<1>8. ASSUME NEW R \in SUBSET Requests, NEW p \in Passages, Passes(R, p)
      PROVE  [Contract!Next]_(Contract!cvars)
  <2>1. /\ UNCHANGED effects
        /\ \A s \in Requests \ R : phase'[s] = phase[s] /\ agreed'[s] = agreed[s]
    BY <1>8, SameMaps DEF Passes, SameBut
  <2>2. \A s \in R : /\ row[s].status = p[1] /\ row'[s].status = p[2]
                     /\ row'[s].hash = row[s].hash
    BY <1>8 DEF Passes
  <2>3. CASE p[1] = "approved"
    <3>1. \A s \in R : phase'[s] = phase[s] /\ agreed'[s] = agreed[s]
      BY <2>2, <2>3, PassageCases DEF Phase, WasAgreed, Final
    <3>2. phase' = phase /\ agreed' = agreed
      BY <2>1, <3>1
    <3> QED BY <2>1, <3>2 DEF Contract!cvars
  <2>4. CASE p[1] # "approved"
    <3>1. \A s \in R : /\ phase[s] \in {"asked", "agreed"} /\ phase'[s] = "ended"
                       /\ agreed'[s] = agreed[s]
      BY <2>2, <2>4, PassageCases DEF Phase, WasAgreed, Final
    <3>2. Contract!End(R)
      BY <1>5, <2>1, <3>1
    <3> QED BY <3>2 DEF Contract!Next
  <2> QED BY <2>3, <2>4
<1>9. ASSUME NEW r \in Requests, Decides(r) PROVE Contract!Next
  <2>1. row'[r].status \in {"approved", "denied"}
    BY <1>9 DEF Decides
  <2>2. CASE row'[r].status = "approved"
    <3>1. PICK i \in Inputs : row'[r].hash = i
      BY <2>2 DEF IInv, EffectsHold
    <3>2. Contract!Agree(r, i)
      BY <1>4, <1>9, <2>2, <3>1
    <3> QED BY <3>1, <3>2 DEF Contract!Next
  <2>3. CASE row'[r].status = "denied"
    <3>1. Contract!End({r}) /\ {r} \in SUBSET Requests
      BY <1>6, <1>9, <2>3
    <3> QED BY <3>1 DEF Contract!Next
  <2> QED BY <2>1, <2>2, <2>3
<1>10. ASSUME NEW r \in Requests, Raises(r) \/ Performs(r) PROVE Contract!Next
  BY <1>3, <1>7, <1>10 DEF Contract!Next
<1> QED BY <1>2, <1>8, <1>9, <1>10 DEF StepKinds

\* Approvals implements the contract of models/approval.py: whatever processes,
\* crashes, clocks and people do, a request is performed at most once, with what was
\* agreed to, and between the yes and its one ending.
THEOREM Implements == Spec => KeepsContract
<1>1. IInv /\ IInv' /\ [Next]_vars => [Contract!Next]_(Contract!cvars)
  BY Kinds, ContractStep
<1> QED BY Invariance, ContractInit, <1>1, PTL DEF Spec, KeepsContract, Contract!Spec
=============================================================================
