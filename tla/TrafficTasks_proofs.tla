------------------------ MODULE TrafficTasks_proofs -------------------------
(***************************************************************************)
(* Theorems of the traffic ledger, for every number of runners, domains,   *)
(* months, tokens and attempts.                                            *)
(***************************************************************************)
EXTENDS TrafficTasks, TLAPS

(* A task that exists has a generation, and a claimed one waits for no      *)
(* retry.                                                                   *)
Kept(task) ==
  /\ task.status # "absent" => task.generation >= 1
  /\ task.status = "processing" => task.retry = "due"

Numbered == \A k \in Keys : Kept(tasks[k])

(* An execution holds a result the provider can give for its month, has     *)
(* stored it before it says so, and is the one its token was drawn for.     *)
Honest ==
  \A e \in executions :
    /\ e.result \in Results(e.key[2])
    /\ e.phase = "completing" /\ e.result.status = "done" => rows[e.key] # "absent"
    /\ e.token = tasks[e.key].token => e.attempt = tasks[e.key].attempts

IInv == TypeOK /\ Numbered /\ Honest

-----------------------------------------------------------------------------
(* Lemmas about the helpers.                                                *)

LEMMA Bounds ==
  /\ LastMonth \in Nat \ {0} /\ MaxAttempts \in Nat \ {0}
  /\ MaxGeneration \in Nat \ {0} /\ NoToken \notin Tokens
  BY LedgerAssumption

LEMMA KeyParts ==
  ASSUME NEW k \in Keys
  PROVE  k[1] \in Domains /\ k[2] \in Months /\ k = <<k[1], k[2]>>
  BY DEF Keys

(* The upsert keeps the table typed, loses no row, and stores the months of *)
(* the response.                                                            *)
LEMMA StoredGrows ==
  ASSUME rows \in [Keys -> RowKinds], NEW d \in Domains,
         NEW response \in [Months -> RowKinds]
  PROVE  /\ Stored(d, response) \in [Keys -> RowKinds]
         /\ \A k \in Keys :
              /\ k[1] # d => Stored(d, response)[k] = rows[k]
              /\ rows[k] = "measured" => Stored(d, response)[k] = "measured"
              /\ rows[k] # "absent" => Stored(d, response)[k] # "absent"
              /\ k[1] = d /\ response[k[2]] # "absent"
                   => Stored(d, response)[k] # "absent"
<1>1. \A k \in Keys : k[2] \in Months
  BY KeyParts
<1> QED
  BY <1>1 DEF Stored, Merged, RowKinds

LEMMA FailureIsResult ==
  /\ Failure \in Result
  /\ \A m \in Months : Failure \in Results(m)
<1>1. NoRows \in [Months -> RowKinds]
  BY DEF NoRows, RowKinds
<1>2. Failure \in Result
  BY <1>1 DEF Failure, Result
<1> QED
  BY <1>2 DEF Failure, Results

LEMMA QueuedTyped ==
  ASSUME NEW task \in Task, task.generation < MaxGeneration
  PROVE  /\ Queued(task) \in Task
         /\ Kept(task) => Kept(Queued(task))
         /\ Queued(task) # task => /\ task.status \in {"absent", "done"}
                                   /\ Queued(task).status = "queued"
                                   /\ Queued(task).token = NoToken
                                   /\ Queued(task).generation >= 1
<1>1. task.generation + 1 \in 0..MaxGeneration /\ task.generation + 1 >= 1
  BY Bounds DEF Task
<1>2. NoTask \in Task
  BY Bounds DEF NoTask, Task, TaskStatuses
<1>3. [NoTask EXCEPT !.status = "queued", !.generation = task.generation + 1] \in Task
  BY <1>1, <1>2 DEF Task, TaskStatuses
<1> QED
  BY <1>1, <1>3 DEF Queued, NoTask, Kept

LEMMA CompletedTyped ==
  ASSUME TypeOK, NEW e \in executions
  PROVE  /\ Completed(e) \in Task
         /\ Completed(e).status \notin {"absent", "processing"}
         /\ Completed(e).generation = tasks[e.key].generation
         /\ Completed(e).attempts = tasks[e.key].attempts
         /\ Completed(e).token = NoToken
<1>1. e \in Execution /\ tasks[e.key] \in Task
  BY DEF TypeOK, Execution
<1>2. e.result.status \in TaskStatuses \ {"absent", "processing"}
  BY <1>1 DEF Execution, Result, TaskStatuses
<1>3. (e.result.status = "failed" /\ e.attempt >= MaxAttempts) \in BOOLEAN
  OBVIOUS
<1> QED
  BY <1>1, <1>2, <1>3 DEF Completed, Task

-----------------------------------------------------------------------------
LEMMA InitInv == Init => IInv
<1> SUFFICES ASSUME Init PROVE IInv
  OBVIOUS
<1>1. NoTask \in Task
  BY Bounds DEF NoTask, Task, TaskStatuses
<1>2. 1 \in Months
  BY Bounds DEF Months
<1>3. Idle(1) \in Runner
  BY <1>2 DEF Idle, Runner, RunPhases
<1>4. TypeOK
  BY <1>1, <1>2, <1>3 DEF Init, TypeOK, Release, RowKinds
<1>5. Numbered /\ Honest
  BY DEF Init, Numbered, Kept, Honest, NoTask
<1> QED
  BY <1>4, <1>5 DEF IInv

(* What an execution says stays true while its task keeps token and         *)
(* attempts or loses the token, and rows only grow.                         *)
LEMMA HonestKept ==
  ASSUME IInv, executions' \subseteq executions, TypeOK',
         \A k \in Keys : rows[k] # "absent" => rows'[k] # "absent",
         \A k \in Keys : \/ tasks'[k].token = NoToken
                         \/ /\ tasks'[k].token = tasks[k].token
                            /\ tasks'[k].attempts = tasks[k].attempts
  PROVE  Honest'
<1> SUFFICES ASSUME NEW e \in executions'
             PROVE  /\ e.result \in Results(e.key[2])
                    /\ e.phase = "completing" /\ e.result.status = "done"
                         => rows'[e.key] # "absent"
                    /\ e.token = tasks'[e.key].token
                         => e.attempt = tasks'[e.key].attempts
  BY DEF Honest, Results
<1>1. e \in executions /\ e.key \in Keys /\ e.token # NoToken
  BY Bounds DEF IInv, TypeOK, Execution
<1> QED
  BY <1>1 DEF IInv, Honest

(* The gate and the phases of a run touch no task.                          *)
LEMMA RunInv ==
  ASSUME IInv, NEW r \in Runners,
         \/ StartRun(r) \/ SelectMissing(r) \/ EndQueueing(r)
         \/ EndClaiming(r) \/ EndRun(r)
         \/ \E verdict \in Verdicts : FinishProbe(r, verdict)
  PROVE  IInv'
<1>1. runners[r] \in Runner /\ target \in Months /\ runners[r].month \in Months
  BY DEF IInv, TypeOK, Runner
<1>2. UNCHANGED <<tasks, rows, target, executions>>
  BY DEF StartRun, SelectMissing, EndQueueing, EndClaiming, EndRun, FinishProbe
<1>3. runners' \in [Runners -> Runner]
  <2>1. \A phase \in RunPhases : [runners[r] EXCEPT !.phase = phase] \in Runner
    BY <1>1 DEF Runner
  <2>2. \A phase \in RunPhases : Enter(r, phase) => runners' \in [Runners -> Runner]
    BY <2>1 DEF Enter, IInv, TypeOK
  <2>3. /\ Idle(runners[r].month) \in Runner
        /\ [Idle(target) EXCEPT !.phase = "selecting"] \in Runner
        /\ [Idle(target) EXCEPT !.phase = "probing"] \in Runner
    BY <1>1 DEF Idle, Runner, RunPhases
  <2>4. [runners[r] EXCEPT !.phase = "queueing",
           !.todo = {d \in Domains : Missing(<<d, runners[r].month>>)}] \in Runner
    BY <1>1 DEF Runner, RunPhases
  <2>5. CASE StartRun(r)
    BY <2>3, <2>5 DEF StartRun, IInv, TypeOK
  <2>6. CASE SelectMissing(r)
    BY <2>4, <2>6 DEF SelectMissing, IInv, TypeOK
  <2>7. CASE EndQueueing(r) \/ EndClaiming(r)
    BY <2>2, <2>7 DEF EndQueueing, EndClaiming, RunPhases
  <2>8. CASE EndRun(r)
    BY <2>3, <2>8 DEF EndRun, IInv, TypeOK
  <2>9. ASSUME NEW verdict \in Verdicts, FinishProbe(r, verdict)
        PROVE  runners' \in [Runners -> Runner]
    BY <2>2, <2>9 DEF FinishProbe, RunPhases
  <2> QED
    BY <2>5, <2>6, <2>7, <2>8, <2>9
<1>4. release' \in [Months -> Release]
  <2>1. CASE UNCHANGED release
    BY <2>1 DEF IInv, TypeOK
  <2>2. ASSUME NEW verdict \in Verdicts, FinishProbe(r, verdict)
        PROVE  release' \in [Months -> Release]
    <3>1. [status |-> verdict, due |-> verdict = "available"] \in Release
      BY DEF Verdicts, Release
    <3> QED
      BY <2>2, <3>1 DEF FinishProbe, IInv, TypeOK
  <2> QED
    BY <2>1, <2>2 DEF StartRun, SelectMissing, EndQueueing, EndClaiming, EndRun
<1>5. TypeOK'
  BY <1>2, <1>3, <1>4 DEF IInv, TypeOK
<1>6. Numbered'
  BY <1>2 DEF IInv, Numbered
<1>7. Honest'
  BY <1>2, <1>5, HonestKept
<1> QED
  BY <1>5, <1>6, <1>7 DEF IInv

LEMMA QueueMissingTaskInv ==
  ASSUME IInv, NEW r \in Runners, NEW d \in Domains, QueueMissingTask(r, d)
  PROVE  IInv'
<1> DEFINE k == <<d, runners[r].month>>
<1>1. runners[r] \in Runner /\ k \in Keys /\ tasks[k] \in Task
  BY DEF IInv, TypeOK, Runner, Keys
<1>2. /\ tasks' = [tasks EXCEPT ![k] = Queued(tasks[k])]
      /\ runners' = [runners EXCEPT ![r].todo = runners[r].todo \ {d}]
      /\ tasks[k].generation < MaxGeneration
      /\ UNCHANGED <<rows, release, target, executions>>
  BY DEF QueueMissingTask
<1>3. /\ Queued(tasks[k]) \in Task
      /\ Kept(Queued(tasks[k]))
      /\ Queued(tasks[k]) # tasks[k] => Queued(tasks[k]).token = NoToken
  BY <1>1, <1>2, QueuedTyped DEF IInv, Numbered
<1>4. [runners[r] EXCEPT !.todo = runners[r].todo \ {d}] \in Runner
  BY <1>1 DEF Runner
<1>5. TypeOK'
  BY <1>1, <1>2, <1>3, <1>4 DEF IInv, TypeOK
<1>6. Numbered'
  BY <1>1, <1>2, <1>3 DEF IInv, TypeOK, Numbered
<1>7. \A j \in Keys : \/ tasks'[j].token = NoToken
                      \/ /\ tasks'[j].token = tasks[j].token
                         /\ tasks'[j].attempts = tasks[j].attempts
  BY <1>1, <1>2, <1>3 DEF IInv, TypeOK
<1>8. Honest'
  BY <1>2, <1>5, <1>7, HonestKept
<1> QED
  BY <1>5, <1>6, <1>8 DEF IInv

LEMMA ClaimTaskInv ==
  ASSUME IInv, NEW r \in Runners, NEW k \in Keys, ClaimTask(r, k)
  PROVE  IInv'
<1> DEFINE token == CHOOSE t \in FreeTokens : TRUE
           attempt == tasks[k].attempts + 1
           claimed == [tasks[k] EXCEPT !.status = "processing", !.attempts = attempt,
                         !.retry = "due", !.lease = "held", !.token = token]
           new == [runner |-> r, key |-> k, generation |-> tasks[k].generation,
                   attempt |-> attempt, token |-> token,
                   phase |-> "fetching", result |-> Failure]
<1>1. /\ tasks' = [tasks EXCEPT ![k] = claimed]
      /\ executions' = executions \cup {new}
      /\ Claimable(k) /\ FreeTokens # {}
      /\ UNCHANGED <<rows, release, target, runners>>
  BY DEF ClaimTask
<1>2. token \in FreeTokens
  BY <1>1
<1>3. token \in Tokens /\ \A e \in executions : e.token # token
  BY <1>2 DEF FreeTokens
<1>4. /\ tasks[k] \in Task /\ tasks[k].attempts < MaxAttempts
      /\ tasks[k].status # "absent"
  BY <1>1 DEF IInv, TypeOK, Claimable
<1>5. attempt \in 1..MaxAttempts /\ attempt \in 0..MaxAttempts
  BY <1>4, Bounds DEF Task
<1>6. tasks[k].generation \in 1..MaxGeneration
  BY <1>4, Bounds DEF IInv, Numbered, Kept, Task
<1> HIDE DEF token, attempt
<1>7. claimed \in Task
  BY <1>3, <1>4, <1>5 DEF Task, TaskStatuses
<1>8. new \in Execution
  BY <1>3, <1>5, <1>6, FailureIsResult DEF Execution
<1>9. TypeOK'
  BY <1>1, <1>7, <1>8 DEF IInv, TypeOK
<1>10. Numbered'
  <2>1. Kept(claimed)
    BY <1>4, <1>6 DEF Kept, Task
  <2> QED
    BY <1>1, <2>1 DEF IInv, TypeOK, Numbered
<1>11. Honest'
  <2> SUFFICES ASSUME NEW e \in executions'
               PROVE  /\ e.result \in Results(e.key[2])
                      /\ e.phase = "completing" /\ e.result.status = "done"
                           => rows'[e.key] # "absent"
                      /\ e.token = tasks'[e.key].token
                           => e.attempt = tasks'[e.key].attempts
    BY DEF Honest, Results
  <2>1. CASE e = new
    <3>1. tasks'[k].attempts = attempt
      BY <1>1, <1>4 DEF IInv, TypeOK, Task
    <3> QED
      BY <2>1, <3>1, KeyParts, FailureIsResult
  <2>2. CASE e \in executions
    <3>1. e.token # token /\ e.key \in Keys
      BY <1>3, <2>2 DEF IInv, TypeOK, Execution
    <3>2. tasks'[k].token = token
      BY <1>1, <1>4 DEF IInv, TypeOK, Task
    <3> QED
      BY <1>1, <2>2, <3>1, <3>2 DEF IInv, TypeOK, Honest
  <2> QED
    BY <1>1, <2>1, <2>2
<1> QED
  BY <1>9, <1>10, <1>11 DEF IInv

-----------------------------------------------------------------------------
(* The work on one task.                                                    *)

LEMMA AdvancedTyped ==
  ASSUME TypeOK, NEW e \in executions, NEW result \in Result,
         NEW phase \in {"fetching", "storing", "completing"}, Advance(e, phase, result)
  PROVE  executions' \subseteq Execution
<1>1. [e EXCEPT !.phase = phase, !.result = result] \in Execution
  BY DEF TypeOK, Execution
<1> QED
  BY <1>1 DEF Advance, TypeOK

(* An execution that advances stays honest if its new result is one of its  *)
(* month and is stored when it is to be completed as done.                  *)
LEMMA HonestAdvanced ==
  ASSUME IInv, NEW e \in executions, NEW result, NEW phase,
         Advance(e, phase, result), TypeOK',
         result \in Results(e.key[2]),
         phase = "completing" /\ result.status = "done" => rows'[e.key] # "absent",
         \A k \in Keys : rows[k] # "absent" => rows'[k] # "absent",
         \A k \in Keys : \/ tasks'[k].token = NoToken
                         \/ /\ tasks'[k].token = tasks[k].token
                            /\ tasks'[k].attempts = tasks[k].attempts
  PROVE  Honest'
<1> DEFINE new == [e EXCEPT !.phase = phase, !.result = result]
<1>1. e \in Execution
  BY DEF IInv, TypeOK
<1>2. /\ new.result = result /\ new.phase = phase /\ new.key = e.key
      /\ new.token = e.token /\ new.attempt = e.attempt
  BY <1>1 DEF Execution
<1>3. executions' = (executions \ {e}) \cup {new}
  BY DEF Advance
<1> HIDE DEF new
<1> SUFFICES ASSUME NEW f \in executions'
             PROVE  /\ f.result \in Results(f.key[2])
                    /\ f.phase = "completing" /\ f.result.status = "done"
                         => rows'[f.key] # "absent"
                    /\ f.token = tasks'[f.key].token
                         => f.attempt = tasks'[f.key].attempts
  BY DEF Honest, Results
<1>4. CASE f = new
  <2>1. e.key \in Keys /\ e.token # NoToken
    BY <1>1, Bounds DEF Execution
  <2>2. f.result \in Results(f.key[2])
    BY <1>2, <1>4
  <2>3. f.phase = "completing" /\ f.result.status = "done" => rows'[f.key] # "absent"
    BY <1>2, <1>4
  <2>4. f.token = tasks'[f.key].token => f.attempt = tasks'[f.key].attempts
    BY <1>2, <1>4, <2>1 DEF IInv, Honest
  <2> QED
    BY <2>2, <2>3, <2>4
<1>5. CASE f \in executions
  <2>1. f.key \in Keys /\ f.token # NoToken
    BY <1>5, Bounds DEF IInv, TypeOK, Execution
  <2> QED
    BY <1>5, <2>1 DEF IInv, Honest
<1> QED
  BY <1>3, <1>4, <1>5

(* Renewing and completing write well formed tasks, and hand out no token.  *)
LEMMA TaskWrites ==
  ASSUME IInv, NEW e \in executions,
         \/ UNCHANGED tasks
         \/ Renew(e)
         \/ Complete(e)
  PROVE  /\ tasks' \in [Keys -> Task]
         /\ Numbered'
         /\ \A k \in Keys : \/ tasks'[k].token = NoToken
                            \/ /\ tasks'[k].token = tasks[k].token
                               /\ tasks'[k].attempts = tasks[k].attempts
<1>1. e.key \in Keys /\ tasks \in [Keys -> Task] /\ tasks[e.key] \in Task
  BY DEF IInv, TypeOK, Execution
<1>2. CASE UNCHANGED tasks
  BY <1>1, <1>2 DEF IInv, Numbered
<1>3. CASE Renew(e)
  <2>1. [tasks[e.key] EXCEPT !.lease = "held"] \in Task
    BY <1>1 DEF Task
  <2> QED
    BY <1>1, <1>3, <2>1 DEF Renew, IInv, Numbered, Kept, Task
<1>4. CASE Complete(e)
  <2>1. CASE ~HoldsLease(e)
    BY <1>1, <1>4, <2>1 DEF Complete, IInv, Numbered
  <2>2. CASE HoldsLease(e)
    <3>1. /\ Completed(e) \in Task /\ Completed(e).token = NoToken
          /\ Completed(e).generation = tasks[e.key].generation
          /\ Completed(e).status # "processing"
      BY CompletedTyped DEF IInv
    <3>2. tasks[e.key].status # "absent"
      BY <2>2 DEF HoldsLease
    <3>3. tasks' = [tasks EXCEPT ![e.key] = Completed(e)]
      BY <1>4, <2>2 DEF Complete
    <3> QED
      BY <1>1, <3>1, <3>2, <3>3 DEF IInv, Numbered, Kept
  <2> QED
    BY <2>1, <2>2
<1> QED
  BY <1>2, <1>3, <1>4

LEMMA ResultsTyped ==
  ASSUME NEW m, NEW result \in Results(m)
  PROVE  /\ result \in Result /\ ToStore(result) \in [Months -> RowKinds]
         /\ result.status = "done" => result.response[m] # "absent"
  BY DEF Results, Result, ToStore

LEMMA RenewLeaseInv ==
  ASSUME IInv, NEW e \in executions, NEW result \in Results(e.key[2]),
         RenewLease(e, result)
  PROVE  IInv'
<1>1. /\ executions' \subseteq Execution
      /\ UNCHANGED <<rows, release, target, runners>>
      /\ UNCHANGED tasks \/ Renew(e)
  BY AdvancedTyped, ResultsTyped DEF RenewLease, IInv, TypeOK
<1>2. TypeOK' /\ Numbered'
  BY <1>1, TaskWrites DEF IInv, TypeOK
<1>3. Honest'
  <2>1. CASE HoldsLease(e)
    <3>1. Advance(e, "storing", result)
      BY <2>1 DEF RenewLease
    <3> QED
      BY <1>1, <1>2, <3>1, TaskWrites, HonestAdvanced
  <2>2. CASE ~HoldsLease(e)
    BY <1>1, <1>2, <2>2, TaskWrites, HonestKept DEF RenewLease
  <2> QED
    BY <2>1, <2>2
<1> QED
  BY <1>2, <1>3 DEF IInv

(* After an execution stored its response, its month has a row if its       *)
(* result is done, and no row got lost.                                     *)
LEMMA RowWrites ==
  ASSUME IInv, NEW e \in executions,
         rows' = Stored(e.key[1], ToStore(e.result))
  PROVE  /\ rows' \in [Keys -> RowKinds]
         /\ e.result.status = "done" => rows'[e.key] # "absent"
         /\ \A k \in Keys : rows[k] # "absent" => rows'[k] # "absent"
<1>1. e.key \in Keys /\ e.result \in Results(e.key[2]) /\ rows \in [Keys -> RowKinds]
  BY DEF IInv, TypeOK, Execution, Honest
<1>2. e.key[1] \in Domains
  BY <1>1, KeyParts
<1>3. /\ ToStore(e.result) \in [Months -> RowKinds]
      /\ e.result.status = "done" => ToStore(e.result)[e.key[2]] # "absent"
  BY <1>1, ResultsTyped DEF ToStore
<1> QED
  BY <1>1, <1>2, <1>3, StoredGrows

LEMMA StoreResultInv ==
  ASSUME IInv, NEW e \in executions, StoreResult(e)
  PROVE  IInv'
<1>1. /\ Advance(e, "completing", e.result)
      /\ rows' = Stored(e.key[1], ToStore(e.result))
      /\ UNCHANGED <<tasks, release, target, runners>>
  BY DEF StoreResult
<1>2. e.result \in Results(e.key[2]) /\ e.result \in Result
  BY ResultsTyped DEF IInv, Honest
<1>3. TypeOK' /\ Numbered'
  BY <1>1, <1>2, RowWrites, AdvancedTyped, TaskWrites DEF IInv, TypeOK
<1>4. Honest'
  BY <1>1, <1>2, <1>3, RowWrites, TaskWrites, HonestAdvanced
<1> QED
  BY <1>3, <1>4 DEF IInv

LEMMA WorkRaisesInv ==
  ASSUME IInv, NEW e \in executions, WorkRaises(e)
  PROVE  IInv'
<1>1. /\ Advance(e, "completing", Failure)
      /\ UNCHANGED rows \/ rows' = Stored(e.key[1], ToStore(e.result))
      /\ UNCHANGED tasks \/ Renew(e)
      /\ UNCHANGED <<release, target, runners>>
  BY DEF WorkRaises
<1>2. /\ rows' \in [Keys -> RowKinds]
      /\ \A k \in Keys : rows[k] # "absent" => rows'[k] # "absent"
  BY <1>1, RowWrites DEF IInv, TypeOK
<1>3. e.key[2] \in Months
  BY KeyParts DEF IInv, TypeOK, Execution
<1>4. TypeOK' /\ Numbered'
  BY <1>1, <1>2, FailureIsResult, AdvancedTyped, TaskWrites DEF IInv, TypeOK
<1>5. Failure.status # "done"
  BY DEF Failure
<1>6. Honest'
  BY <1>1, <1>2, <1>3, <1>4, <1>5, FailureIsResult, TaskWrites, HonestAdvanced
<1> QED
  BY <1>4, <1>6 DEF IInv

LEMMA CompletionInv ==
  ASSUME IInv, NEW e \in executions, CompleteTask(e) \/ CompleteRaises(e)
  PROVE  IInv'
<1>1. /\ Complete(e) \/ UNCHANGED tasks
      /\ executions' = executions \ {e} \/ Advance(e, "completing", Failure)
      /\ UNCHANGED <<rows, release, target, runners>>
  BY DEF CompleteTask, CompleteRaises
<1>2. executions' \subseteq Execution
  BY <1>1, FailureIsResult, AdvancedTyped DEF IInv, TypeOK
<1>3. TypeOK' /\ Numbered'
  BY <1>1, <1>2, TaskWrites DEF IInv, TypeOK
<1>4. Honest'
  <2>1. CASE executions' = executions \ {e}
    BY <1>1, <1>3, <2>1, TaskWrites, HonestKept
  <2>2. CASE Advance(e, "completing", Failure)
    <3>1. e.key[2] \in Months /\ Failure.status # "done"
      BY KeyParts DEF IInv, TypeOK, Execution, Failure
    <3> QED
      BY <1>1, <1>3, <2>2, <3>1, FailureIsResult, TaskWrites, HonestAdvanced
  <2> QED
    BY <1>1, <2>1, <2>2
<1> QED
  BY <1>3, <1>4 DEF IInv

-----------------------------------------------------------------------------
(* The environment, and every step.                                         *)

LEMMA EnvironmentInv ==
  ASSUME IInv,
         \/ \E r \in Runners : Crash(r)
         \/ \E k \in Keys : LeaseExpires(k) \/ RetryFallsDue(k)
         \/ \E m \in Months : ProbeFallsDue(m)
         \/ MonthEnds
  PROVE  IInv'
<1>1. /\ executions' \subseteq executions
      /\ UNCHANGED rows
  BY DEF Crash, LeaseExpires, RetryFallsDue, ProbeFallsDue, MonthEnds
<1> DEFINE Same(j) == /\ tasks'[j].token = tasks[j].token
                      /\ tasks'[j].attempts = tasks[j].attempts
                      /\ tasks'[j].status = tasks[j].status
                      /\ tasks'[j].generation = tasks[j].generation
                      /\ tasks[j].retry = "due" => tasks'[j].retry = "due"
<1>2. tasks' \in [Keys -> Task] /\ \A j \in Keys : Same(j)
  <2>1. CASE UNCHANGED tasks
    BY <2>1 DEF IInv, TypeOK
  <2>2. ASSUME NEW k \in Keys, LeaseExpires(k) \/ RetryFallsDue(k)
        PROVE  tasks' \in [Keys -> Task] /\ \A j \in Keys : Same(j)
    <3>1. tasks[k] \in Task
      BY DEF IInv, TypeOK
    <3>2. /\ [tasks[k] EXCEPT !.lease = "expired"] \in Task
          /\ [tasks[k] EXCEPT !.retry = "due"] \in Task
      BY <3>1 DEF Task
    <3>3. PICK task \in Task :
            /\ tasks' = [tasks EXCEPT ![k] = task]
            /\ task.token = tasks[k].token
            /\ task.attempts = tasks[k].attempts
            /\ task.status = tasks[k].status
            /\ task.generation = tasks[k].generation
            /\ tasks[k].retry = "due" => task.retry = "due"
      <4>1. CASE LeaseExpires(k)
        <5>1. tasks' = [tasks EXCEPT ![k] = [tasks[k] EXCEPT !.lease = "expired"]]
          BY <4>1 DEF LeaseExpires
        <5> QED
          BY <3>1, <3>2, <5>1 DEF Task
      <4>2. CASE RetryFallsDue(k)
        <5>1. tasks' = [tasks EXCEPT ![k] = [tasks[k] EXCEPT !.retry = "due"]]
          BY <4>2 DEF RetryFallsDue
        <5> QED
          BY <3>1, <3>2, <5>1 DEF Task
      <4> QED
        BY <2>2, <4>1, <4>2
    <3>4. tasks \in [Keys -> Task]
      BY DEF IInv, TypeOK
    <3>5. /\ tasks' \in [Keys -> Task] /\ tasks'[k] = task
          /\ \A j \in Keys : j # k => tasks'[j] = tasks[j]
      BY <3>3, <3>4
    <3>6. \A j \in Keys : Same(j)
      BY <3>3, <3>5
    <3> QED
      BY <3>5, <3>6
  <2> QED
    BY <2>1, <2>2 DEF Crash, ProbeFallsDue, MonthEnds
<1>3. runners' \in [Runners -> Runner]
  <2>1. ASSUME NEW r \in Runners, Crash(r)
        PROVE  runners' \in [Runners -> Runner]
    <3>1. Idle(runners[r].month) \in Runner
      BY DEF IInv, TypeOK, Idle, Runner, RunPhases
    <3> QED
      BY <2>1, <3>1 DEF Crash, IInv, TypeOK
  <2> QED
    BY <2>1 DEF IInv, TypeOK, LeaseExpires, RetryFallsDue, ProbeFallsDue, MonthEnds
<1>4. release' \in [Months -> Release]
  <2>1. ASSUME NEW m \in Months, ProbeFallsDue(m)
        PROVE  release' \in [Months -> Release]
    <3>1. [release[m] EXCEPT !.due = TRUE] \in Release
      BY DEF IInv, TypeOK, Release
    <3> QED
      BY <2>1, <3>1 DEF ProbeFallsDue, IInv, TypeOK
  <2> QED
    BY <2>1 DEF IInv, TypeOK, LeaseExpires, RetryFallsDue, Crash, MonthEnds
<1>5. target' \in Months
  BY Bounds DEF IInv, TypeOK, Months, LeaseExpires, RetryFallsDue, Crash,
               ProbeFallsDue, MonthEnds
<1>6. TypeOK'
  BY <1>1, <1>2, <1>3, <1>4, <1>5 DEF IInv, TypeOK
<1>7. Numbered'
  BY <1>2 DEF IInv, Numbered, Kept
<1>8. Honest'
  BY <1>1, <1>2, <1>6, HonestKept
<1> QED
  BY <1>6, <1>7, <1>8 DEF IInv

LEMMA NextInv == IInv /\ [Next]_vars => IInv'
<1> SUFFICES ASSUME IInv, [Next]_vars PROVE IInv'
  OBVIOUS
<1>1. CASE UNCHANGED vars
  BY <1>1 DEF vars, IInv, TypeOK, Numbered, Honest, Results
<1>2. ASSUME NEW r \in Runners, Run(r) PROVE IInv'
  BY <1>2, RunInv, QueueMissingTaskInv, ClaimTaskInv DEF Run
<1>3. ASSUME NEW e \in executions, Work(e) \/ WorkRaises(e) \/ CompleteRaises(e)
      PROVE  IInv'
  BY <1>3, RenewLeaseInv, StoreResultInv, WorkRaisesInv, CompletionInv DEF Work
<1>4. CASE TimePasses \/ \E r \in Runners : Crash(r)
  BY <1>4, EnvironmentInv DEF TimePasses
<1> QED
  BY <1>1, <1>2, <1>3, <1>4 DEF Next

(* Every reachable state satisfies the inductive invariant.                 *)
THEOREM Invariance == Spec => []IInv
  BY InitInv, NextInv, PTL DEF Spec

(* Type correctness: no task is tried more often than max_attempts, and an  *)
(* execution always carries a token, a generation and an attempt.           *)
THEOREM TypeCorrect == Spec => []TypeOK
<1>1. IInv => TypeOK
  BY DEF IInv
<1> QED
  BY <1>1, Invariance, PTL

-----------------------------------------------------------------------------
(* The fence.                                                               *)

ItsLeaseExpires(k) == tasks'[k] = [tasks[k] EXCEPT !.lease = "expired"]

IsClaimedAgain(k) ==
  /\ tasks[k].lease = "expired"
  /\ tasks'[k].status = "processing"
  /\ tasks'[k].attempts = tasks[k].attempts + 1
  /\ tasks'[k].generation = tasks[k].generation

ItsHolderActs(k) ==
  \E e \in executions \ executions' :
    /\ e.key = k
    /\ e.token = tasks[k].token
    /\ e.generation = tasks[k].generation
    /\ e.attempt = tasks[k].attempts

Fenced(k) == ItsLeaseExpires(k) \/ IsClaimedAgain(k) \/ ItsHolderActs(k)

(* An execution that writes a task holds its lease, and moves on.           *)
LEMMA HolderActs ==
  ASSUME IInv, NEW e \in executions, HoldsLease(e), e \notin executions',
         NEW k \in Keys, tasks'[k] # tasks[k],
         Renew(e) \/ tasks' = [tasks EXCEPT ![e.key] = Completed(e)]
  PROVE  ItsHolderActs(k)
<1>1. e.key \in Keys /\ tasks \in [Keys -> Task]
  BY DEF IInv, TypeOK, Execution
<1>2. k = e.key
  BY <1>1 DEF Renew
<1>3. e.attempt = tasks[k].attempts
  BY <1>2 DEF HoldsLease, IInv, Honest
<1> QED
  BY <1>2, <1>3 DEF ItsHolderActs, HoldsLease

(* An execution that advances is another one afterwards.                    *)
LEMMA AdvancedMoves ==
  ASSUME IInv, NEW e \in executions, NEW result, NEW phase,
         Advance(e, phase, result), phase # e.phase \/ result # e.result
  PROVE  e \notin executions'
<1>1. e \in Execution
  BY DEF IInv, TypeOK
<1>2. /\ [e EXCEPT !.phase = phase, !.result = result].phase = phase
      /\ [e EXCEPT !.phase = phase, !.result = result].result = result
  BY <1>1 DEF Execution
<1> QED
  BY <1>2 DEF Advance

LEMMA StepFenced ==
  ASSUME IInv, [Next]_vars, NEW k \in Keys,
         tasks[k].status = "processing", tasks'[k] # tasks[k]
  PROVE  Fenced(k)
<1>1. tasks \in [Keys -> Task] /\ tasks[k] \in Task
  BY DEF IInv, TypeOK
<1>2. ASSUME NEW r \in Runners, Run(r) PROVE Fenced(k)
  <2>1. ASSUME NEW d \in Domains, QueueMissingTask(r, d) PROVE FALSE
    <3>1. <<d, runners[r].month>> \in Keys
      BY DEF IInv, TypeOK, Runner, Keys
    <3> QED
      BY <1>1, <2>1, <3>1 DEF QueueMissingTask, Queued
  <2>2. ASSUME NEW j \in Keys, ClaimTask(r, j) PROVE Fenced(k)
    <3>1. k = j
      BY <1>1, <2>2 DEF ClaimTask
    <3>2. tasks[k].lease = "expired"
      BY <2>2, <3>1 DEF ClaimTask, Claimable
    <3>3. PICK token : tasks' = [tasks EXCEPT ![k] =
            [tasks[k] EXCEPT !.status = "processing",
                             !.attempts = tasks[k].attempts + 1,
                             !.retry = "due", !.lease = "held", !.token = token]]
      BY <2>2, <3>1 DEF ClaimTask
    <3> QED
      BY <1>1, <3>2, <3>3 DEF Fenced, IsClaimedAgain, Task
  <2>3. tasks' = tasks \/ (\E d \in Domains : QueueMissingTask(r, d))
          \/ (\E j \in Keys : ClaimTask(r, j))
    BY <1>2 DEF Run, StartRun, SelectMissing, EndQueueing, EndClaiming, EndRun,
                FinishProbe
  <2> QED
    BY <2>1, <2>2, <2>3
<1>3. ASSUME NEW e \in executions, Work(e) \/ WorkRaises(e) \/ CompleteRaises(e)
      PROVE  Fenced(k)
  <2>1. /\ HoldsLease(e)
        /\ Renew(e) \/ tasks' = [tasks EXCEPT ![e.key] = Completed(e)]
    BY <1>3 DEF Work, RenewLease, StoreResult, CompleteTask, Complete, WorkRaises,
                CompleteRaises
  <2>2. e \notin executions'
    <3>1. ASSUME NEW result \in Results(e.key[2]), RenewLease(e, result)
          PROVE  e \notin executions'
      BY <2>1, <3>1, AdvancedMoves DEF RenewLease, At
    <3>2. CASE CompleteTask(e)
      BY <3>2 DEF CompleteTask
    <3>3. CASE WorkRaises(e)
      BY <3>3, AdvancedMoves DEF WorkRaises, At
    <3>4. CASE CompleteRaises(e)
      BY <3>4, AdvancedMoves DEF CompleteRaises
    <3>5. CASE StoreResult(e)
      BY <3>5, AdvancedMoves DEF StoreResult, At
    <3> QED
      BY <1>3, <3>1, <3>2, <3>3, <3>4, <3>5 DEF Work
  <2> QED
    BY <2>1, <2>2, HolderActs DEF Fenced
<1>4. CASE TimePasses
  <2>1. ASSUME NEW j \in Keys, LeaseExpires(j) PROVE Fenced(k)
    BY <1>1, <2>1 DEF LeaseExpires, Fenced, ItsLeaseExpires
  <2>2. ASSUME NEW j \in Keys, RetryFallsDue(j) PROVE FALSE
    <3>1. k = j
      BY <1>1, <2>2 DEF RetryFallsDue
    <3> QED
      BY <2>2, <3>1 DEF RetryFallsDue, IInv, Numbered, Kept
  <2> QED
    BY <1>4, <2>1, <2>2 DEF TimePasses, ProbeFallsDue, MonthEnds
<1>5. CASE \E r \in Runners : Crash(r)
  BY <1>5 DEF Crash
<1>6. CASE UNCHANGED vars
  BY <1>6 DEF vars
<1> QED
  BY <1>2, <1>3, <1>4, <1>5, <1>6 DEF Next

(* A claimed task is changed only by its lease's expiry, a claim after that *)
(* or its holder, on every step of the program.                             *)
THEOREM FenceHolds == Spec => OnlyTheHolderSettles
<1>1. IInv /\ [Next]_vars =>
        [\A k \in Keys :
           LET old == tasks[k]
               new == tasks'[k]
               itsLeaseExpires == new = [old EXCEPT !.lease = "expired"]
               isClaimedAgain == /\ old.lease = "expired"
                                 /\ new.status = "processing"
                                 /\ new.attempts = old.attempts + 1
                                 /\ new.generation = old.generation
               itsHolderActs == \E e \in executions \ executions' :
                                  /\ e.key = k
                                  /\ e.token = old.token
                                  /\ e.generation = old.generation
                                  /\ e.attempt = old.attempts
           IN old.status = "processing" /\ new # old =>
                itsLeaseExpires \/ isClaimedAgain \/ itsHolderActs]_vars
  BY StepFenced DEF Fenced, ItsLeaseExpires, IsClaimedAgain, ItsHolderActs
<1> QED
  BY <1>1, Invariance, PTL DEF Spec, OnlyTheHolderSettles

-----------------------------------------------------------------------------
(* The ledger implements the collection.                                    *)

LEMMA InitRefined == Init => Collection!Init
  BY DEF Init, Collection!Init, Collection!Keys, Keys, TaskProgress, Shown, NoTask

(* What a step does to the months a reader sees: nothing, or one month is   *)
(* opened or settled.                                                       *)
LEMMA ProgressOf ==
  ASSUME TypeOK, NEW k \in Keys, NEW task, tasks' = [tasks EXCEPT ![k] = task]
  PROVE  TaskProgress' = [TaskProgress EXCEPT ![k] = Shown(task)]
<1>1. tasks \in [Keys -> Task]
  BY DEF TypeOK
<1>2. tasks'[k] = task /\ \A j \in Keys : j # k => tasks'[j] = tasks[j]
  BY <1>1
<1> QED
  BY <1>1, <1>2 DEF TaskProgress

LEMMA CompletionRefined ==
  ASSUME IInv, NEW e \in executions, Complete(e), UNCHANGED rows,
         e.phase = "completing"
  PROVE  \/ UNCHANGED <<TaskProgress, rows>>
         \/ Collection!Next
<1>1. e.key \in Keys /\ e.result.status \in {"done", "no_data", "forbidden", "failed"}
  BY DEF IInv, TypeOK, Execution, Result
<1>2. CASE ~HoldsLease(e)
  BY <1>2 DEF Complete, TaskProgress
<1>3. CASE HoldsLease(e)
  <2>1. tasks' = [tasks EXCEPT ![e.key] = Completed(e)]
    BY <1>3 DEF Complete
  <2>2. Completed(e).status = e.result.status
    BY <1>1 DEF Completed, IInv, TypeOK, Task
  <2>3. TaskProgress' = [TaskProgress EXCEPT ![e.key] = e.result.status]
    <3>1. Shown(Completed(e)) = e.result.status
      BY <1>1, <2>2 DEF Shown
    <3> QED
      BY <1>1, <2>1, <3>1, ProgressOf DEF IInv
  <2>4. TaskProgress[e.key] = "open"
    BY <1>1, <1>3 DEF HoldsLease, TaskProgress, Shown
  <2>5. e.result.status = "done" => rows[e.key] # "absent"
    BY DEF IInv, Honest
  <2>6. Collection!Settle(e.key, e.result.status)
    BY <2>3, <2>4, <2>5 DEF Collection!Settle
  <2> QED
    BY <1>1, <2>6 DEF Collection!Next, Collection!Keys, Keys, Collection!Outcomes,
                     Collection!Absences
<1> QED
  BY <1>2, <1>3

LEMMA StoringRefined ==
  ASSUME IInv, NEW e \in executions, UNCHANGED tasks,
         rows' = Stored(e.key[1], ToStore(e.result))
  PROVE  Collection!Next
<1> DEFINE d == e.key[1]
<1>1. /\ e.key \in Keys /\ e.result \in Results(e.key[2])
      /\ rows \in [Keys -> RowKinds]
  BY DEF IInv, TypeOK, Execution, Honest
<1>2. d \in Domains /\ ToStore(e.result) \in [Months -> RowKinds]
  BY <1>1, KeyParts, ResultsTyped
<1>3. /\ rows' \in [Keys -> RowKinds]
      /\ \A k \in Keys : /\ k[1] # d => rows'[k] = rows[k]
                         /\ rows[k] = "measured" => rows'[k] = "measured"
                         /\ rows[k] # "absent" => rows'[k] # "absent"
  BY <1>1, <1>2, StoredGrows
<1> HIDE DEF d
<1>4. \A k \in Keys : Collection!Holds(rows'[k]) >= Collection!Holds(rows[k])
  BY <1>1, <1>3 DEF Collection!Holds, RowKinds
<1>5. Collection!Receive(d)
  <2> DEFINE seen == [m \in Months |-> rows'[d, m]]
  <2>1. seen \in [Months -> Collection!RowKinds]
    BY <1>2, <1>3 DEF Keys, Collection!RowKinds, RowKinds
  <2>2. \A m \in Months : Collection!Holds(seen[m]) >= Collection!Holds(rows[d, m])
    BY <1>2, <1>4 DEF Keys
  <2>3. rows' = [k \in Keys |-> IF k[1] = d THEN seen[k[2]] ELSE rows[k]]
    BY <1>3, KeyParts
  <2> HIDE DEF seen
  <2> QED
    BY <1>2, <2>1, <2>2, <2>3 DEF Collection!Receive, Collection!Keys, Keys, TaskProgress
<1> QED
  BY <1>2, <1>5 DEF Collection!Next

LEMMA OpeningRefined ==
  ASSUME IInv, NEW k \in Keys, NEW task, tasks' = [tasks EXCEPT ![k] = task],
         task.status \in {"queued", "processing"}, UNCHANGED rows,
         tasks[k].status \notin {"no_data", "forbidden"}
  PROVE  UNCHANGED <<TaskProgress, rows>> \/ Collection!Next
<1>1. TaskProgress' = [TaskProgress EXCEPT ![k] = "open"]
  <2>1. Shown(task) = "open"
    BY DEF Shown
  <2> QED
    BY <2>1, ProgressOf DEF IInv
<1>2. CASE TaskProgress[k] = "open"
  BY <1>1, <1>2 DEF TaskProgress
<1>3. CASE TaskProgress[k] # "open"
  <2>1. TaskProgress[k] \in {"absent", "failed", "done"}
    BY <1>3 DEF TaskProgress, Shown, IInv, TypeOK, Task, TaskStatuses
  <2>2. Collection!Open(k)
    BY <1>1, <2>1 DEF Collection!Open
  <2> QED
    BY <2>2 DEF Collection!Next, Collection!Keys, Keys
<1> QED
  BY <1>2, <1>3

LEMMA StepRefined ==
  ASSUME IInv, [Next]_vars
  PROVE  [Collection!Next]_(Collection!collection)
<1> SUFFICES UNCHANGED <<TaskProgress, rows>> \/ Collection!Next
  BY DEF Collection!collection
<1>1. tasks \in [Keys -> Task]
  BY DEF IInv, TypeOK
<1>2. ASSUME tasks' = tasks, rows' = rows
      PROVE  UNCHANGED <<TaskProgress, rows>>
  BY <1>2 DEF TaskProgress
<1>3. ASSUME NEW r \in Runners, Run(r)
      PROVE  UNCHANGED <<TaskProgress, rows>> \/ Collection!Next
  <2>1. ASSUME NEW d \in Domains, QueueMissingTask(r, d)
        PROVE  UNCHANGED <<TaskProgress, rows>> \/ Collection!Next
    <3> DEFINE k == <<d, runners[r].month>>
    <3>1. k \in Keys
      BY DEF IInv, TypeOK, Runner, Keys
    <3>2. /\ tasks' = [tasks EXCEPT ![k] = Queued(tasks[k])]
          /\ tasks[k].generation < MaxGeneration /\ UNCHANGED rows
      BY <2>1 DEF QueueMissingTask
    <3>3. tasks[k] \in Task
      BY <1>1, <3>1
    <3> HIDE DEF k
    <3>4. CASE Queued(tasks[k]) = tasks[k]
      BY <1>1, <1>2, <3>1, <3>2, <3>4
    <3>5. CASE Queued(tasks[k]) # tasks[k]
      BY <3>1, <3>2, <3>3, <3>5, QueuedTyped, OpeningRefined
    <3> QED
      BY <3>4, <3>5
  <2>2. ASSUME NEW k \in Keys, ClaimTask(r, k)
        PROVE  UNCHANGED <<TaskProgress, rows>> \/ Collection!Next
    <3>1. PICK token : tasks' = [tasks EXCEPT ![k] =
            [tasks[k] EXCEPT !.status = "processing",
                             !.attempts = tasks[k].attempts + 1,
                             !.retry = "due", !.lease = "held", !.token = token]]
      BY <2>2 DEF ClaimTask
    <3>2. [tasks[k] EXCEPT !.status = "processing",
                           !.attempts = tasks[k].attempts + 1, !.retry = "due",
                           !.lease = "held", !.token = token].status = "processing"
      BY <1>1 DEF Task
    <3>3. tasks[k].status \notin {"no_data", "forbidden"} /\ UNCHANGED rows
      BY <2>2 DEF ClaimTask, Claimable
    <3> QED
      BY <3>1, <3>2, <3>3, OpeningRefined
  <2>3. \/ tasks' = tasks /\ rows' = rows
        \/ \E d \in Domains : QueueMissingTask(r, d)
        \/ \E k \in Keys : ClaimTask(r, k)
    BY <1>3 DEF Run, StartRun, SelectMissing, EndQueueing, EndClaiming, EndRun,
                FinishProbe
  <2> QED
    BY <1>2, <2>1, <2>2, <2>3
<1>4. ASSUME NEW j \in Keys, NEW task, tasks' = [tasks EXCEPT ![j] = task],
             task.status = tasks[j].status, rows' = rows
      PROVE  UNCHANGED <<TaskProgress, rows>>
  <2>1. TaskProgress' = [TaskProgress EXCEPT ![j] = TaskProgress[j]]
    <3>1. Shown(task) = TaskProgress[j]
      BY <1>4 DEF Shown, TaskProgress
    <3> QED
      BY <1>4, <3>1, ProgressOf DEF IInv
  <2> QED
    BY <1>4, <2>1 DEF TaskProgress
<1>5. ASSUME NEW e \in executions, Work(e) \/ WorkRaises(e) \/ CompleteRaises(e)
      PROVE  UNCHANGED <<TaskProgress, rows>> \/ Collection!Next
  <2>1. e.key \in Keys /\ tasks[e.key] \in Task
    BY <1>1 DEF IInv, TypeOK, Execution
  <2>2. CASE Renew(e) /\ UNCHANGED rows
    <3>1. tasks' = [tasks EXCEPT ![e.key] = [tasks[e.key] EXCEPT !.lease = "held"]]
      BY <2>2 DEF Renew
    <3>2. [tasks[e.key] EXCEPT !.lease = "held"].status = tasks[e.key].status
      BY <2>1 DEF Task
    <3> QED
      BY <1>4, <2>1, <2>2, <3>1, <3>2
  <2>3. CASE Complete(e) /\ e.phase = "completing" /\ UNCHANGED rows
    BY <2>3, CompletionRefined
  <2>4. CASE UNCHANGED tasks /\ rows' = Stored(e.key[1], ToStore(e.result))
    BY <2>4, StoringRefined
  <2>5. CASE UNCHANGED <<tasks, rows>>
    BY <1>2, <2>5
  <2> QED
    BY <1>5, <2>2, <2>3, <2>4, <2>5 DEF Work, RenewLease, StoreResult, CompleteTask,
                                       WorkRaises, CompleteRaises, At
<1>6. CASE TimePasses
  <2>1. ASSUME NEW k \in Keys, LeaseExpires(k) \/ RetryFallsDue(k)
        PROVE  UNCHANGED <<TaskProgress, rows>>
    <3>1. tasks[k] \in Task
      BY <1>1
    <3>2. CASE LeaseExpires(k)
      <4>1. /\ tasks' = [tasks EXCEPT ![k] = [tasks[k] EXCEPT !.lease = "expired"]]
            /\ rows' = rows
        BY <3>2 DEF LeaseExpires
      <4> QED
        BY <1>4, <3>1, <4>1 DEF Task
    <3>3. CASE RetryFallsDue(k)
      <4>1. /\ tasks' = [tasks EXCEPT ![k] = [tasks[k] EXCEPT !.retry = "due"]]
            /\ rows' = rows
        BY <3>3 DEF RetryFallsDue
      <4> QED
        BY <1>4, <3>1, <4>1 DEF Task
    <3> QED
      BY <2>1, <3>2, <3>3
  <2> QED
    BY <1>2, <1>6, <2>1 DEF TimePasses, ProbeFallsDue, MonthEnds
<1>7. CASE \E r \in Runners : Crash(r)
  BY <1>2, <1>7 DEF Crash
<1>8. CASE UNCHANGED vars
  BY <1>2, <1>8 DEF vars
<1> QED
  BY <1>3, <1>5, <1>6, <1>7, <1>8 DEF Next

(* The ledger implements the collection, whatever runners, leases and       *)
(* exceptions do.                                                           *)
THEOREM LedgerImplementsCollection == Spec => ImplementsCollection
<1>1. Spec => Collection!Init /\ [][Collection!Next]_(Collection!collection)
  BY InitRefined, Invariance, StepRefined, PTL DEF Spec
<1> QED
  BY <1>1 DEF ImplementsCollection, Collection!Spec
=============================================================================
