---------------------------- MODULE TrafficTasks ----------------------------
(***************************************************************************)
(* The traffic workload: the release gate of a month, the queue of missing *)
(* months, and the fenced task ledger.  Runners share one database and     *)
(* nothing else.  A run reads the gate, queues what is missing, claims due *)
(* tasks and works them off concurrently: fetch, renew the lease, store    *)
(* the rows, complete the task.  Storing is not fenced, completing is.     *)
(* Time is reduced to what the guards see: a lease that expired, a retry   *)
(* or a probe that fell due.                                               *)
(***************************************************************************)
EXTENDS Naturals

CONSTANTS
  Domains,        \* monitored domains
  LastMonth,      \* bound: the calendar stops here
  Runners,        \* processes that run the workload
  Tokens,         \* lease tokens; their number bounds concurrent claims
  NoToken,        \* a NULL lease token
  MaxAttempts,    \* max_attempts of a task
  MaxGeneration,  \* bound: generations of a task
  Faults          \* kinds of faults, a subset of FaultKinds

VARIABLES
  tasks,       \* table traffic_tasks
  rows,        \* table domain_traffic_monthly
  release,     \* table traffic_month_release_checks
  target,      \* previous_traffic_month of the calendar
  runners,     \* per runner: where its run is
  executions   \* claimed tasks a runner works off

vars == <<tasks, rows, release, target, runners, executions>>

Months == 1..LastMonth
Keys == Domains \X Months

(* What a reader of traffic_tasks learns of a month.                        *)
Shown(task) ==
  IF task.status \in {"queued", "processing"} THEN "open" ELSE task.status

TaskProgress == [k \in Keys |-> Shown(tasks[k])]

Collection == INSTANCE TrafficCollection WITH progress <- TaskProgress

(* error: an exception in the work on one task; crash: a run ends early.    *)
FaultKinds == {"error", "crash"}

ASSUME LedgerAssumption ==
  /\ {LastMonth, MaxAttempts, MaxGeneration} \subseteq Nat \ {0}
  /\ NoToken \notin Tokens
  /\ Faults \subseteq FaultKinds

-----------------------------------------------------------------------------
(* Rows.                                                                    *)

TaskStatuses ==
  {"absent", "queued", "processing", "done", "no_data", "forbidden", "failed"}

(* retry: next_retry_at lies ahead, or is NULL or past; dead: dead_letter_at *)
(* is set.                                                                  *)
Task == [status : TaskStatuses, attempts : 0..MaxAttempts,
         generation : 0..MaxGeneration, retry : {"ahead", "due"}, dead : BOOLEAN,
         lease : {"none", "held", "expired"}, token : Tokens \cup {NoToken}]

Release == [status : {"absent", "unavailable", "error", "available"},
            due : BOOLEAN]

RunPhases == {"idle", "probing", "selecting", "queueing", "claiming", "working"}

Runner == [phase : RunPhases, month : Months, todo : SUBSET Domains]

(* What one fetch returns: a status, and the rows of the response; a row    *)
(* without visits is stored when only a rank, or nothing, was observed.     *)
RowKinds == {"absent", "unmeasured", "measured"}

Result == [status : {"done", "no_data", "forbidden", "failed"},
           response : [Months -> RowKinds]]

NoRows == [m \in Months |-> "absent"]

Failure == [status |-> "failed", response |-> NoRows]

(* done needs the requested month with visits or a rank; no_data may come   *)
(* with rows of other months, or with an empty row of this one.             *)
Results(m) ==
  {result \in Result :
     /\ result.status = "done" => result.response[m] # "absent"
     /\ result.status = "no_data" => result.response[m] # "measured"
     /\ result.status \in {"forbidden", "failed"} => result.response = NoRows}

Execution == [runner : Runners, key : Keys, generation : 1..MaxGeneration,
              attempt : 1..MaxAttempts, token : Tokens,
              phase : {"fetching", "storing", "completing"}, result : Result]

TypeOK ==
  /\ tasks \in [Keys -> Task]
  /\ rows \in [Keys -> RowKinds]
  /\ release \in [Months -> Release]
  /\ target \in Months
  /\ runners \in [Runners -> Runner]
  /\ executions \subseteq Execution

NoTask == [status |-> "absent", attempts |-> 0, generation |-> 0, retry |-> "due",
           dead |-> FALSE, lease |-> "none", token |-> NoToken]

Idle(month) == [phase |-> "idle", month |-> month, todo |-> {}]

Init ==
  /\ tasks = [k \in Keys |-> NoTask]
  /\ rows = [k \in Keys |-> "absent"]
  /\ release = [m \in Months |-> [status |-> "absent", due |-> TRUE]]
  /\ target = 1
  /\ runners = [r \in Runners |-> Idle(1)]
  /\ executions = {}

-----------------------------------------------------------------------------
(* The gate of a run.                                                       *)

Enter(r, phase) == runners' = [runners EXCEPT ![r].phase = phase]

ExecutionsOf(r) == {e \in executions : e.runner = r}

(* check_or_probe reads the release row of the target month.                *)
StartRun(r) ==
  /\ runners[r].phase = "idle"
  /\ \/ /\ release[target].status = "available"
        /\ runners' = [runners EXCEPT ![r] =
                         [Idle(target) EXCEPT !.phase = "selecting"]]
     \/ /\ release[target].status # "available" /\ release[target].due
        /\ runners' = [runners EXCEPT ![r] =
                         [Idle(target) EXCEPT !.phase = "probing"]]
  /\ UNCHANGED <<tasks, rows, release, target, executions>>

(* The upsert does not look at what the row says by now.                    *)
FinishProbe(r, verdict) ==
  /\ runners[r].phase = "probing"
  /\ release' = [release EXCEPT ![runners[r].month] =
                   [status |-> verdict, due |-> verdict = "available"]]
  /\ Enter(r, IF verdict = "available" THEN "selecting" ELSE "idle")
  /\ UNCHANGED <<tasks, rows, target, executions>>

-----------------------------------------------------------------------------
(* Queueing: one SELECT, then one upsert per candidate.                     *)

Missing(k) ==
  /\ rows[k] = "absent"
  /\ tasks[k].status \in {"absent", "done"}

SelectMissing(r) ==
  /\ runners[r].phase = "selecting"
  /\ runners' = [runners EXCEPT ![r] =
       [runners[r] EXCEPT
          !.phase = "queueing",
          !.todo = {d \in Domains : Missing(<<d, runners[r].month>>)}]]
  /\ UNCHANGED <<tasks, rows, release, target, executions>>

(* Mutant: the conflict clause revives every settled task.                  *)
QueuedAny(task) ==
  IF task.status = "processing" THEN task
  ELSE [NoTask EXCEPT !.status = "queued", !.generation = task.generation + 1]

(* INSERT ... ON CONFLICT DO UPDATE ... WHERE status = 'done'.              *)
Queued(task) ==
  IF task.status \notin {"absent", "done"} THEN task
  ELSE [NoTask EXCEPT !.status = "queued", !.generation = task.generation + 1]

QueueMissingTask(r, d) ==
  LET k == <<d, runners[r].month>> IN
  /\ runners[r].phase = "queueing" /\ d \in runners[r].todo
  /\ tasks[k].generation < MaxGeneration
  /\ tasks' = [tasks EXCEPT ![k] = Queued(tasks[k])]
  /\ runners' = [runners EXCEPT ![r].todo = runners[r].todo \ {d}]
  /\ UNCHANGED <<rows, release, target, executions>>

(* The bound on generations ends the queueing early.                        *)
Queueable(r) ==
  {d \in runners[r].todo :
     tasks[<<d, runners[r].month>>].generation < MaxGeneration}

EndQueueing(r) ==
  /\ runners[r].phase = "queueing" /\ Queueable(r) = {}
  /\ Enter(r, "claiming")
  /\ UNCHANGED <<tasks, rows, release, target, executions>>

-----------------------------------------------------------------------------
(* Claiming: due tasks of any month.                                        *)

(* Mutant: the attempts are not counted against max_attempts.               *)
ClaimableForEver(k) ==
  /\ ~tasks[k].dead
  /\ \/ tasks[k].status \in {"queued", "failed"} /\ tasks[k].retry = "due"
     \/ tasks[k].status = "processing" /\ tasks[k].lease = "expired"

Claimable(k) ==
  /\ ~tasks[k].dead /\ tasks[k].attempts < MaxAttempts
  /\ \/ tasks[k].status \in {"queued", "failed"} /\ tasks[k].retry = "due"
     \/ tasks[k].status = "processing" /\ tasks[k].lease = "expired"

(* randomblob(16) never returns a token something still mentions.           *)
FreeTokens ==
  Tokens \ ({tasks[k].token : k \in Keys} \cup {e.token : e \in executions})

ClaimTask(r, k) ==
  /\ runners[r].phase = "claiming"
  /\ Claimable(k) /\ FreeTokens # {}
  /\ LET token == CHOOSE t \in FreeTokens : TRUE
         attempt == tasks[k].attempts + 1
     IN /\ tasks' = [tasks EXCEPT ![k] =
             [tasks[k] EXCEPT !.status = "processing", !.attempts = attempt,
                              !.retry = "due", !.lease = "held", !.token = token]]
        /\ executions' = executions \cup
             {[runner |-> r, key |-> k, generation |-> tasks[k].generation,
               attempt |-> attempt, token |-> token,
               phase |-> "fetching", result |-> Failure]}
  /\ UNCHANGED <<rows, release, target, runners>>

EndClaiming(r) ==
  /\ runners[r].phase = "claiming"
  /\ Enter(r, "working")
  /\ UNCHANGED <<tasks, rows, release, target, executions>>

-----------------------------------------------------------------------------
(* Working: asyncio.gather over the claimed tasks.                          *)

Faulty(kind) == kind \in Faults

(* Mutant: the ledger is fenced by the generation alone.                    *)
HoldsLeaseByGeneration(e) ==
  /\ tasks[e.key].status = "processing"
  /\ tasks[e.key].generation = e.generation

(* The fence of every task write; whether the lease expired is not asked.   *)
HoldsLease(e) ==
  /\ tasks[e.key].status = "processing"
  /\ tasks[e.key].generation = e.generation
  /\ tasks[e.key].token = e.token

At(e, phase) == e.phase = phase /\ runners[e.runner].phase = "working"

Advance(e, phase, result) ==
  executions' = (executions \ {e}) \cup
    {[e EXCEPT !.phase = phase, !.result = result]}

Renew(e) == tasks' = [tasks EXCEPT ![e.key].lease = "held"]

(* The fetch attempts are over and renew_lease is sent: false means stale.  *)
RenewLease(e, result) ==
  /\ At(e, "fetching")
  /\ IF HoldsLease(e)
       THEN /\ Renew(e)
            /\ Advance(e, "storing", result)
       ELSE /\ executions' = executions \ {e}
            /\ UNCHANGED tasks
  /\ UNCHANGED <<rows, release, target, runners>>

(* Mutant: rows without visits are not stored.                              *)
ToStoreMeasured(result) ==
  [m \in Months |-> IF result.response[m] = "measured" THEN "measured"
                    ELSE "absent"]

ToStore(result) == result.response

(* Mutant: the visits of a later response win, also when it has none.       *)
MergedOverwrite(old, new) == IF new = "absent" THEN old ELSE new

(* visits = coalesce(excluded.visits, visits)                               *)
Merged(old, new) == IF old = "measured" \/ new = "absent" THEN old ELSE new

(* One transaction upserts the rows of every month in the response.         *)
Stored(d, response) ==
  [k \in Keys |-> IF k[1] = d THEN Merged(rows[k], response[k[2]]) ELSE rows[k]]

(* insert_result: the months of the response in one transaction.            *)
StoreResult(e) ==
  /\ At(e, "storing")
  /\ rows' = Stored(e.key[1], ToStore(e.result))
  /\ Advance(e, "completing", e.result)
  /\ UNCHANGED <<tasks, release, target, runners>>

(* Something raises: before the fetch is over, in the renewal (applied or    *)
(* not), or while rows and their projections are stored (the rows stored or *)
(* not).  The task is completed as failed.                                  *)
WorkRaises(e) ==
  /\ Faulty("error")
  /\ \/ /\ At(e, "fetching") \/ At(e, "storing")
        /\ UNCHANGED <<tasks, rows>>
     \/ /\ At(e, "fetching") /\ HoldsLease(e)
        /\ Renew(e)
        /\ UNCHANGED rows
     \/ /\ At(e, "storing")
        /\ rows' = Stored(e.key[1], ToStore(e.result))
        /\ UNCHANGED tasks
  /\ Advance(e, "completing", Failure)
  /\ UNCHANGED <<release, target, runners>>

(* Mutant: a task that failed for the last time waits for another retry.    *)
CompletedNeverDead(e) ==
  [tasks[e.key] EXCEPT !.status = e.result.status,
                       !.retry = IF e.result.status = "failed" THEN "ahead" ELSE "due",
                       !.lease = "none", !.token = NoToken]

(* A failed attempt waits a day, or is the last one.                        *)
Completed(e) ==
  LET failed == e.result.status = "failed"
      exhausted == e.attempt >= MaxAttempts
  IN [tasks[e.key] EXCEPT !.status = e.result.status,
                          !.retry = IF failed /\ ~exhausted THEN "ahead" ELSE "due",
                          !.dead = failed /\ exhausted,
                          !.lease = "none", !.token = NoToken]

Complete(e) ==
  tasks' = IF HoldsLease(e) THEN [tasks EXCEPT ![e.key] = Completed(e)]
           ELSE tasks

CompleteTask(e) ==
  /\ At(e, "completing")
  /\ Complete(e)
  /\ executions' = executions \ {e}
  /\ UNCHANGED <<rows, release, target, runners>>

(* The completion raises, applied or not, and is sent again as failed.      *)
CompleteRaises(e) ==
  /\ Faulty("error")
  /\ At(e, "completing") /\ e.result # Failure
  /\ Complete(e) \/ UNCHANGED tasks
  /\ Advance(e, "completing", Failure)
  /\ UNCHANGED <<rows, release, target, runners>>

EndRun(r) ==
  /\ runners[r].phase = "working" /\ ExecutionsOf(r) = {}
  /\ runners' = [runners EXCEPT ![r] = Idle(runners[r].month)]
  /\ UNCHANGED <<tasks, rows, release, target, executions>>

-----------------------------------------------------------------------------
(* The environment.                                                         *)

(* The process stops; a statement outside the work on one task raises; or   *)
(* the second completion of a task raises and takes the batch with it.      *)
Crash(r) ==
  /\ Faulty("crash") /\ runners[r].phase # "idle"
  /\ runners' = [runners EXCEPT ![r] = Idle(runners[r].month)]
  /\ executions' = executions \ ExecutionsOf(r)
  /\ UNCHANGED <<tasks, rows, release, target>>

LeaseExpires(k) ==
  /\ tasks[k].lease = "held"
  /\ tasks' = [tasks EXCEPT ![k].lease = "expired"]
  /\ UNCHANGED <<rows, release, target, runners, executions>>

RetryFallsDue(k) ==
  /\ tasks[k].retry = "ahead"
  /\ tasks' = [tasks EXCEPT ![k].retry = "due"]
  /\ UNCHANGED <<rows, release, target, runners, executions>>

ProbeFallsDue(m) ==
  /\ ~release[m].due
  /\ release' = [release EXCEPT ![m].due = TRUE]
  /\ UNCHANGED <<tasks, rows, target, runners, executions>>

MonthEnds ==
  /\ target < LastMonth
  /\ target' = target + 1
  /\ UNCHANGED <<tasks, rows, release, runners, executions>>

Verdicts == {"available", "unavailable", "error"}

Run(r) ==
  \/ StartRun(r) \/ SelectMissing(r) \/ EndQueueing(r) \/ EndClaiming(r) \/ EndRun(r)
  \/ \E verdict \in Verdicts : FinishProbe(r, verdict)
  \/ \E d \in Domains : QueueMissingTask(r, d)
  \/ \E k \in Keys : ClaimTask(r, k)

Work(e) ==
  \/ \E result \in Results(e.key[2]) : RenewLease(e, result)
  \/ StoreResult(e) \/ CompleteTask(e)

TimePasses ==
  \/ \E k \in Keys : LeaseExpires(k) \/ RetryFallsDue(k)
  \/ \E m \in Months : ProbeFallsDue(m)
  \/ MonthEnds

Next ==
  \/ \E r \in Runners : Run(r) \/ Crash(r)
  \/ \E e \in executions : Work(e) \/ WorkRaises(e) \/ CompleteRaises(e)
  \/ TimePasses

Spec == Init /\ [][Next]_vars

(***************************************************************************)
(* The loop of a runner never ends and the container restarts it; a fetch  *)
(* has a timeout; leases, retries and probes fall due; and the provider    *)
(* releases a month that is probed again and again.                        *)
(***************************************************************************)
Fairness ==
  /\ \A r \in Runners :
       /\ WF_vars(StartRun(r) \/ SelectMissing(r) \/ EndQueueing(r) \/ EndRun(r))
       /\ WF_vars(\E d \in Domains : QueueMissingTask(r, d))
       /\ WF_vars(EndClaiming(r))
       /\ SF_vars(FinishProbe(r, "available"))
  /\ \A k \in Keys :
       /\ SF_vars(\E r \in Runners : ClaimTask(r, k))
       /\ WF_vars(LeaseExpires(k)) /\ WF_vars(RetryFallsDue(k))
  /\ \A m \in Months : WF_vars(ProbeFallsDue(m))
  /\ WF_vars(\E e \in executions : Work(e))

FairSpec == Spec /\ Fairness


-----------------------------------------------------------------------------
(* Properties.                                                              *)

(* A task in processing belongs to its lease: besides its expiry, and a     *)
(* claim after that, it is changed only by a step of the execution that was *)
(* given the current token for the current generation and attempt, however  *)
(* late the answers of earlier executions arrive (claim_due_tasks,          *)
(* renew_lease, complete_task, queue_missing_traffic_tasks).                *)
OnlyTheHolderSettles ==
  [][\A k \in Keys :
       LET old == tasks[k]
           new == tasks'[k]
           itsLeaseExpires == new = [old EXCEPT !.lease = "expired"]
           isClaimedAgain == /\ old.lease = "expired"
                             /\ new.status = "processing"
                             /\ new.attempts = old.attempts + 1
                             /\ new.generation = old.generation
           itsHolderActs == \E e \in executions \ executions' :
                              /\ e.key = k
                              /\ e.token = old.token
                              /\ e.generation = old.generation
                              /\ e.attempt = old.attempts
       IN old.status = "processing" /\ new # old =>
            itsLeaseExpires \/ isClaimedAgain \/ itsHolderActs]_vars

(* The ledger implements the collection: across runners, late answers,      *)
(* expired leases and exceptions, 'done' is said of stored months only, a   *)
(* measured month is never lost, and absence is never taken back (README,   *)
(* "no_data and forbidden remain terminal and are not revived").            *)
ImplementsCollection == Collection!Spec

(* Every queued month is eventually collected, found absent or given up:    *)
(* whatever fetches fail, whichever lease expires and whichever statement   *)
(* of a task raises, as long as no run ends early.                          *)
Finished(task) == task.status \in {"done", "no_data", "forbidden"} \/ task.dead

EveryTaskFinishes ==
  \A k \in Keys : (tasks[k].status = "queued") ~> Finished(tasks[k])

(* README, "The runner claims due D1 traffic tasks where status is queued,  *)
(* failed, sync_failed, or stale processing": a processing task whose lease *)
(* expired can be claimed.                                                  *)
StaleProcessingIsClaimed ==
  \A k \in Keys :
    tasks[k].status = "processing" /\ tasks[k].lease = "expired" => Claimable(k)
=============================================================================
