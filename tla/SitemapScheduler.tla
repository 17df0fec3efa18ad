-------------------------- MODULE SitemapScheduler --------------------------
(***************************************************************************)
(* The due-site scheduler and durable job ledger of sitemap_monitor.  Any   *)
(* number of scheduler processes share one database (D1 or SQLite) that     *)
(* holds sites, jobs and committed site scans.  A process claims a due      *)
(* site under a dispatch lease, inserts the job of that schedule            *)
(* occurrence, claims jobs under a job lease, scans, and completes the job  *)
(* with one fenced transaction.  Between two statements a process may stop, *)
(* stall, or be overtaken by another one.                                   *)
(***************************************************************************)
EXTENDS Integers, SitemapComparability

CONSTANTS
  Sites,            \* site ids the catalog can register
  Tokens,           \* lease tokens; their number bounds concurrent claims
  NoToken,          \* a NULL lease token
  Adapter,          \* "sqlite" or "d1": how statements are guarded and sent
  CheckInterval,    \* check_interval_sec of a site
  Offsets,          \* deterministic jitter added to a delay
  DispatchLease,    \* dispatch_lease_sec
  JobLease,         \* job_lease_sec
  MaxAttempts,      \* max_attempts of a job
  RetryBase,        \* retry_base_sec
  RetryMax,         \* retry_max_sec
  Cooldowns,        \* failure cooldowns: initial, extended, max
  ScanRetention,    \* scan_detail_retention_sec
  JobRetention,     \* job_retention_sec
  Observations,     \* what traversals may see
  Faults,           \* kinds of faults, a subset of FaultKinds
  SameMillisecond,  \* may two executions read the same finished_at?
  ResendWindow,     \* bound: D1 receives a completion this soon or never
  MaxNow,           \* bound: the clock stops here
  MaxVersion,       \* bound: schedule versions of a site
  FaultUntil        \* bound: no fault after this time

VARIABLES
  now,         \* the clock every process reads
  sites,       \* table sitemap_sites
  jobs,        \* table sitemap_jobs, by idempotency key
  scans,       \* table sitemap_site_scans (committed rows)
  dispatches,  \* due sites a process has claimed and not yet given a job
  scanning,    \* executions whose traversal and heartbeat are running
  finishing    \* executions about to send their completion

vars == <<now, sites, jobs, scans, dispatches, scanning, finishing>>

-----------------------------------------------------------------------------
(* Delays.                                                                  *)

(* The jitter is a hash of the job: an execution keeps its offset.          *)
Jittered(delay, offset) == IF delay + offset < 1 THEN 1 ELSE delay + offset

RetryDelay(attempts) ==
  LET delay == RetryBase * 2 ^ (attempts - 1) IN
  IF delay < RetryMax THEN delay ELSE RetryMax

(* Cooldown after the given number of consecutive dead jobs.                *)
CooldownFor(streak) == Cooldowns[IF streak < 3 THEN streak ELSE 3]

FaultKinds == {"crash", "transient", "context_read", "lost_reply"}

ASSUME PolicyAssumption ==
  /\ {CheckInterval, DispatchLease, JobLease, MaxAttempts, RetryBase, RetryMax,
      ScanRetention, JobRetention, MaxVersion} \subseteq Nat \ {0}
  /\ MaxNow \in Nat /\ FaultUntil \in Nat
  /\ Offsets \subseteq Int
  /\ Cooldowns \in [1..3 -> Nat \ {0}]
  /\ Adapter \in {"sqlite", "d1"}
  /\ Faults \subseteq FaultKinds
  /\ SameMillisecond \in BOOLEAN
  /\ ResendWindow \in 0..ScanRetention
  /\ \A o \in Offsets :
       /\ ResendWindow <= Jittered(CheckInterval, o)
       /\ \A streak \in 1..3 : ResendWindow <= Jittered(Cooldowns[streak], o)
  /\ NoToken \notin Tokens

(* The delays that are ever used are positive whole numbers.                *)
ASSUME RetryAssumption ==
  \A attempts \in 1..MaxAttempts : RetryDelay(attempts) \in Nat \ {0}

ASSUME ObservationAssumption == Observations \subseteq Observation

-----------------------------------------------------------------------------
(* Rows.                                                                    *)

(* The idempotency key hashes exactly these three values.                   *)
JobKey == [site : Sites, due : 0..MaxNow, version : 1..MaxVersion]

JobStatuses == {"absent", "pending", "running", "retry", "succeeded", "dead"}
OpenStatuses == {"pending", "running", "retry"}
TerminalStatuses == {"succeeded", "dead"}

Job == [status : JobStatuses, attempts : Nat, base : Nat, available : Nat,
        token : Tokens \cup {NoToken}, expires : Nat, finished : Nat,
        stamp : Tokens \cup {NoToken}]

ScanIds == [job : JobKey, attempt : Nat \ {0}]

Site == [status : {"absent", "active", "paused"}, version : 1..MaxVersion,
         next : Nat, streak : Nat, token : Tokens \cup {NoToken},
         expires : Nat, baseline : ScanIds \cup {NoScan}]

Scan == [job : JobKey, attempt : Nat \ {0}, base : ScanIds \cup {NoScan},
         status : ComparabilityStatuses, family : Families,
         promote : BOOLEAN, signal : BOOLEAN, at : Nat]

Dispatch == [key : JobKey, token : Tokens]

Scanning == [key : JobKey, token : Tokens, attempt : Nat \ {0}, base : Nat]

Finishing == [key : JobKey, token : Tokens, attempt : Nat \ {0}, base : Nat,
              at : Nat, offset : Offsets, ok : BOOLEAN, transient : BOOLEAN,
              scan : Scan \cup {NoScan}]

ASSUME NoScanAssumption == NoScan \notin ScanIds \cup Scan

TypeOK ==
  /\ now \in 0..MaxNow
  /\ sites \in [Sites -> Site]
  /\ jobs \in [JobKey -> Job]
  /\ scans \subseteq Scan
  /\ dispatches \subseteq Dispatch
  /\ scanning \subseteq Scanning
  /\ finishing \subseteq Finishing

NoJob == [status |-> "absent", attempts |-> 0, base |-> 0, available |-> 0,
          token |-> NoToken, expires |-> 0, finished |-> 0, stamp |-> NoToken]

Unregistered == [status |-> "absent", version |-> 1, next |-> 0, streak |-> 0,
                 token |-> NoToken, expires |-> 0, baseline |-> NoScan]

Init ==
  /\ now = 0
  /\ sites = [s \in Sites |-> Unregistered]
  /\ jobs = [k \in JobKey |-> NoJob]
  /\ scans = {}
  /\ dispatches = {} /\ scanning = {} /\ finishing = {}

-----------------------------------------------------------------------------
(* Helpers.                                                                 *)

(* randomblob(16) never returns a token that a row or a process still       *)
(* mentions.  Dispatch tokens and job tokens are never compared.            *)
FreeDispatchTokens ==
  Tokens \ ({sites[s].token : s \in Sites} \cup {d.token : d \in dispatches})

FreeJobTokens ==
  Tokens \ ({jobs[k].token : k \in JobKey}
              \cup {x.token : x \in scanning \cup finishing})

FreshOf(free) == CHOOSE t \in free : TRUE

Faulty(kind) == kind \in Faults /\ now <= FaultUntil

(* The occurrence a site is waiting for.                                    *)
Current(k) ==
  /\ sites[k.site].version = k.version
  /\ sites[k.site].next = k.due

(* The fence of every job write: the row is running under this token.      *)
HoldsLease(x) ==
  /\ jobs[x.key].status = "running"
  /\ jobs[x.key].token = x.token

Row(id) == CHOOSE row \in scans : ScanId(row) = id

(* The baseline row the scan context query joins to, if it is still there. *)
BaselineRow(s) ==
  IF \E row \in scans : ScanId(row) = sites[s].baseline
    THEN Row(sites[s].baseline) ELSE NoScan

(* The latest committed scans of a site; ties are broken by hash.           *)
PreviousRows(s) ==
  LET own == {row \in scans : row.job.site = s} IN
  IF own = {} THEN {NoScan}
  ELSE {row \in own : \A other \in own : other.at <= row.at}

(* Foreign key baseline_scan_id: an insert that breaks it raises, and the    *)
(* whole completion is rolled back.                                         *)
ReferencesKept(row) ==
  row = NoScan \/ row.base = NoScan \/ \E old \in scans : ScanId(old) = row.base

(* INSERT ... ON CONFLICT(id) DO NOTHING.                                   *)
WithScan(row) ==
  IF row = NoScan \/ \E old \in scans : ScanId(old) = ScanId(row)
    THEN scans ELSE scans \cup {row}

-----------------------------------------------------------------------------
(* Site registration and status.                                            *)

(* Mutant: the schedule changes under its old version.                      *)
NextVersionKept(row) == [row EXCEPT !.token = NoToken, !.expires = 0]

(* A schedule version bump drops the dispatch lease.                        *)
NextVersion(row) ==
  [row EXCEPT !.version = @ + 1, !.token = NoToken, !.expires = 0]

(* A new site is inserted; a changed homepage or interval reschedules it.   *)
EnsureSite(s) ==
  LET row == sites[s] IN
  /\ \/ /\ row.status = "absent"
        /\ sites' = [sites EXCEPT ![s] =
                       [row EXCEPT !.status = "active", !.next = now]]
     \/ /\ row.status # "absent" /\ row.version < MaxVersion
        /\ sites' = [sites EXCEPT ![s] = [NextVersion(row) EXCEPT !.next = now]]
  /\ UNCHANGED <<now, jobs, scans, dispatches, scanning, finishing>>

SetSiteStatus(s, from, to) ==
  LET row == sites[s] IN
  /\ row.status = from /\ row.version < MaxVersion
  /\ sites' = [sites EXCEPT ![s] =
                 [NextVersion(row) EXCEPT
                    !.status = to,
                    !.next = IF to = "active" THEN now ELSE @]]
  /\ UNCHANGED <<now, jobs, scans, dispatches, scanning, finishing>>

-----------------------------------------------------------------------------
(* Dispatch: enqueue_due claims a site, then ensures its job.               *)

ClaimDueSite(s) ==
  LET row == sites[s] IN
  /\ row.status = "active" /\ row.next <= now /\ row.expires <= now
  /\ FreeDispatchTokens # {}
  /\ sites' = [sites EXCEPT ![s] =
                 [row EXCEPT !.token = FreshOf(FreeDispatchTokens),
                             !.expires = now + DispatchLease]]
  /\ dispatches' = dispatches \cup
       {[key |-> [site |-> s, due |-> row.next, version |-> row.version],
         token |-> FreshOf(FreeDispatchTokens)]}
  /\ UNCHANGED <<now, jobs, scans, scanning, finishing>>

(* The SELECT that feeds the INSERT: the dispatch claim is still in force.  *)
DispatchInForce(d) ==
  /\ sites[d.key.site].version = d.key.version
  /\ sites[d.key.site].token = d.token

EnsureJob(d) ==
  /\ dispatches' = dispatches \ {d}
  /\ jobs' = IF DispatchInForce(d) /\ jobs[d.key].status = "absent"
               THEN [jobs EXCEPT ![d.key] =
                       [NoJob EXCEPT !.status = "pending",
                                     !.base = sites[d.key.site].streak,
                                     !.available = now]]
               ELSE jobs
  /\ UNCHANGED <<now, sites, scans, scanning, finishing>>

-----------------------------------------------------------------------------
(* Execution: claim, scan under a heartbeat, complete.                      *)

(* Mutant: an expired running job is not claimed again.                     *)
ClaimableNotExpired(k) ==
  /\ sites[k.site].status = "active"
  /\ sites[k.site].version = k.version
  /\ jobs[k].status \in {"pending", "retry"}
  /\ jobs[k].attempts < MaxAttempts
  /\ jobs[k].available <= now

Claimable(k) ==
  /\ sites[k.site].status = "active"
  /\ sites[k.site].version = k.version
  /\ \/ /\ jobs[k].status \in {"pending", "retry"}
        /\ jobs[k].attempts < MaxAttempts
        /\ jobs[k].available <= now
     \/ /\ jobs[k].status = "running"
        /\ jobs[k].expires <= now

ClaimJob(k) ==
  /\ Claimable(k)
  /\ FreeJobTokens # {}
  /\ jobs' = [jobs EXCEPT ![k] =
                [jobs[k] EXCEPT !.status = "running", !.attempts = @ + 1,
                                !.token = FreshOf(FreeJobTokens),
                                !.expires = now + JobLease,
                                !.finished = 0, !.stamp = NoToken]]
  /\ scanning' = scanning \cup
       {[key |-> k, token |-> FreshOf(FreeJobTokens),
         attempt |-> jobs[k].attempts + 1, base |-> jobs[k].base]}
  /\ UNCHANGED <<now, sites, scans, dispatches, finishing>>

RenewJobLease(e) ==
  /\ HoldsLease(e)
  /\ jobs' = [jobs EXCEPT ![e.key].expires = now + JobLease]
  /\ UNCHANGED <<now, sites, scans, dispatches, scanning, finishing>>

(* The execution is over: finished_at is read now, the completion is sent   *)
(* later.                                                                   *)
Conclude(e, ok, transient, scan) ==
  /\ scanning' = scanning \ {e}
  /\ \E offset \in Offsets :
       finishing' = finishing \cup
         {[key |-> e.key, token |-> e.token, attempt |-> e.attempt,
           base |-> e.base, at |-> now, offset |-> offset, ok |-> ok,
           transient |-> transient, scan |-> scan]}
  /\ UNCHANGED <<now, sites, jobs, scans, dispatches>>

(* The traversal raises, the renewal raises, or the heartbeat finds the     *)
(* lease gone and cancels the scan: a retryable error without a scan row.   *)
ScanRaises(e) ==
  /\ Faulty("transient") \/ ~HoldsLease(e)
  /\ Conclude(e, FALSE, TRUE, NoScan)

(* The traversal returns: its baseline and predecessor are read, the gate   *)
(* judges it, and the row to be committed is built.                         *)
ScanReturns(e, obs, previous) ==
  LET before == BaselineRow(e.key.site)
      row == [job |-> e.key, attempt |-> e.attempt,
              base |-> IF before = NoScan THEN NoScan ELSE ScanId(before),
              status |-> ComparabilityStatus(obs, before),
              family |-> obs.family,
              promote |-> PromoteSemanticBaseline(obs, before, previous),
              signal |-> obs.signal, at |-> now]
  IN /\ previous \in PreviousRows(e.key.site)
     /\ obs.transient /\ ~Usable(obs) => Faulty("transient")
     /\ Conclude(e, Usable(obs), obs.transient, row)

(* Reading the scan context raises after site_scan was built: the handler   *)
(* passes a scan without a comparability result, finish_job_failure refuses *)
(* the pair, and the exception leaves the execution with nothing written.   *)
ContextReadRaises(e) ==
  /\ Faulty("context_read")
  /\ scanning' = scanning \ {e}
  /\ UNCHANGED <<now, sites, jobs, scans, dispatches, finishing>>

-----------------------------------------------------------------------------
(* Completion.                                                              *)

(* finished_at is compared to the millisecond, and a unit of the model's     *)
(* clock holds many: the stamp tells two executions of one unit apart.      *)
Stamp(f) == IF Adapter = "d1" /\ ~SameMillisecond THEN f.token ELSE NoToken

(* Mutant: D1 guards the site statement by the status of the job alone.     *)
CompletionAppliesByStatus(f, status) ==
  /\ ReferencesKept(f.scan)
  /\ \/ HoldsLease(f)
     \/ Adapter = "d1" /\ jobs[f.key].status = status

(* SQLite stops at the first statement when the fence fails.  D1 runs the   *)
(* whole batch and guards the scan and the site statement by the job's      *)
(* status and finished_at instead of by the token.                          *)
CompletionApplies(f, status) ==
  /\ ReferencesKept(f.scan)
  /\ \/ HoldsLease(f)
     \/ /\ Adapter = "d1"
        /\ jobs[f.key].status = status
        /\ jobs[f.key].finished = f.at /\ jobs[f.key].stamp = Stamp(f)

(* One attempt to send the completion.  The D1 client sends a batch again   *)
(* when the reply is lost, within seconds; SQLite answers at once.          *)
Send(f) ==
  /\ Adapter = "d1" => now < f.at + ResendWindow
  /\ \/ finishing' = finishing \ {f}
     \/ Adapter = "d1" /\ Faulty("lost_reply") /\ finishing' = finishing

(* UPDATE sitemap_jobs ... WHERE status = 'running' AND lease_token = ?     *)
CloseJob(f, status, available) ==
  IF HoldsLease(f) /\ ReferencesKept(f.scan)
    THEN [jobs EXCEPT ![f.key] =
            [@ EXCEPT !.status = status, !.available = available,
                      !.token = NoToken, !.expires = 0,
                      !.finished = f.at, !.stamp = Stamp(f)]]
    ELSE jobs

(* Mutant: the site row is written under any schedule version.              *)
WriteSiteAnyVersion(f, status, row) ==
  sites' = IF CompletionApplies(f, status)
             THEN [sites EXCEPT ![f.key.site] = row] ELSE sites

(* The site row is written only under the schedule version of the job.     *)
WriteSite(f, status, row) ==
  sites' = IF /\ CompletionApplies(f, status)
              /\ sites[f.key.site].version = f.key.version
             THEN [sites EXCEPT ![f.key.site] = row] ELSE sites

FinishJobSuccess(f) ==
  LET row == sites[f.key.site] IN
  /\ f.ok
  /\ Send(f)
  /\ jobs' = CloseJob(f, "succeeded", jobs[f.key].available)
  /\ scans' = IF CompletionApplies(f, "succeeded") THEN WithScan(f.scan) ELSE scans
  /\ WriteSite(f, "succeeded",
       [row EXCEPT !.next = f.at + Jittered(CheckInterval, f.offset),
                   !.streak = 0, !.token = NoToken, !.expires = 0,
                   !.baseline = IF f.scan.promote THEN ScanId(f.scan) ELSE @])
  /\ UNCHANGED <<now, dispatches, scanning>>

(* available_at of a dead job is never read again: it is left alone.        *)
IsDead(f) == f.attempt >= MaxAttempts \/ ~f.transient

(* Mutant: the streak is added to instead of maximised.                     *)
LargerSum(m, n) == m + n

Larger(m, n) == IF m < n THEN n ELSE m

FinishJobDead(f) ==
  LET row == sites[f.key.site] IN
  /\ ~f.ok /\ IsDead(f)
  /\ Send(f)
  /\ jobs' = CloseJob(f, "dead", jobs[f.key].available)
  /\ scans' = IF CompletionApplies(f, "dead") THEN WithScan(f.scan) ELSE scans
  /\ WriteSite(f, "dead",
       [row EXCEPT !.next = f.at + Jittered(CooldownFor(f.base + 1), f.offset),
                   !.streak = Larger(@, jobs[f.key].base + 1),
                   !.token = NoToken, !.expires = 0])
  /\ UNCHANGED <<now, dispatches, scanning>>

FinishJobRetry(f) ==
  LET row == sites[f.key.site]
      available == f.at + Jittered(RetryDelay(f.attempt), f.offset) IN
  /\ ~f.ok /\ ~IsDead(f)
  /\ Send(f)
  /\ jobs' = CloseJob(f, "retry", available)
  /\ WriteSite(f, "retry", [row EXCEPT !.expires = available])
  /\ scans' = IF CompletionApplies(f, "retry") THEN WithScan(f.scan) ELSE scans
  /\ UNCHANGED <<now, dispatches, scanning>>

-----------------------------------------------------------------------------
(* Maintenance: one transaction that closes superseded jobs, then prunes    *)
(* scans nobody refers to, then terminal jobs without scans.                *)

(* Mutant: the occurrence the site waits for counts as superseded.          *)
SupersededInclusive(k) ==
  /\ jobs[k].status \in OpenStatuses
  /\ \/ sites[k.site].status # "active"
     \/ sites[k.site].version # k.version
     \/ k.due <= sites[k.site].next

(* Mutant: running jobs are left to their executions.                       *)
SupersededWaiting(k) ==
  /\ jobs[k].status \in {"pending", "retry"}
  /\ \/ sites[k.site].status # "active"
     \/ sites[k.site].version # k.version
     \/ k.due < sites[k.site].next

Superseded(k) ==
  /\ jobs[k].status \in OpenStatuses
  /\ \/ sites[k.site].status # "active"
     \/ sites[k.site].version # k.version
     \/ k.due < sites[k.site].next

(* Mutant: pruning forgets the semantic baselines.                          *)
PrunableScanBaseline(row) ==
  /\ row.at + ScanRetention < now
  /\ row.status \notin Changed
  /\ ~row.signal

(* Only the D1 statement also spares the scans other rows were compared to. *)
PrunableScan(row) ==
  /\ row.at + ScanRetention < now
  /\ row.status \notin Changed
  /\ ~row.signal
  /\ Adapter = "d1" => \A other \in scans : other.base # ScanId(row)
  /\ \A s \in Sites : sites[s].baseline # ScanId(row)

(* ON DELETE SET NULL.                                                      *)
Released(row, remaining) ==
  IF \E kept \in remaining : ScanId(kept) = row.base THEN row
  ELSE [row EXCEPT !.base = NoScan]

PrunableJob(k, remaining) ==
  /\ jobs[k].status \in TerminalStatuses
  /\ jobs[k].finished + JobRetention < now
  /\ \A row \in remaining : row.job # k

PerformMaintenance ==
  LET remaining == {row \in scans : ~PrunableScan(row)} IN
  /\ scans' = {Released(row, remaining) : row \in remaining}
  /\ jobs' = [k \in JobKey |->
       IF Superseded(k)
         THEN [jobs[k] EXCEPT !.status = "dead", !.token = NoToken,
                              !.expires = 0, !.finished = now,
                              !.stamp = NoToken]
       ELSE IF PrunableJob(k, remaining) THEN NoJob
       ELSE jobs[k]]
  /\ UNCHANGED <<now, sites, dispatches, scanning, finishing>>

-----------------------------------------------------------------------------
(* The environment.                                                         *)

Tick ==
  /\ now < MaxNow
  /\ now' = now + 1
  /\ UNCHANGED <<sites, jobs, scans, dispatches, scanning, finishing>>

(* A process dies, or an error leaves the tick: what it held in memory is   *)
(* lost, the rows stay as they are.                                         *)
Crash ==
  /\ Faulty("crash")
  /\ \/ /\ \E d \in dispatches : dispatches' = dispatches \ {d}
        /\ UNCHANGED <<scanning, finishing>>
     \/ /\ \E e \in scanning : scanning' = scanning \ {e}
        /\ UNCHANGED <<dispatches, finishing>>
     \/ /\ \E f \in finishing : finishing' = finishing \ {f}
        /\ UNCHANGED <<dispatches, scanning>>
  /\ UNCHANGED <<now, sites, jobs, scans>>

Finish(f) == FinishJobSuccess(f) \/ FinishJobDead(f) \/ FinishJobRetry(f)

(* The traversal ends in some way.                                          *)
EndScan(e) ==
  \/ ScanRaises(e)
  \/ \E obs \in Observations, previous \in PreviousRows(e.key.site) :
       ScanReturns(e, obs, previous)

Registration ==
  \E s \in Sites :
    \/ EnsureSite(s)
    \/ SetSiteStatus(s, "active", "paused")
    \/ SetSiteStatus(s, "paused", "active")

Scheduling ==
  \/ \E s \in Sites : ClaimDueSite(s)
  \/ \E d \in dispatches : EnsureJob(d)
  \/ PerformMaintenance

Execution ==
  \/ \E k \in JobKey : ClaimJob(k)
  \/ \E e \in scanning : RenewJobLease(e) \/ EndScan(e) \/ ContextReadRaises(e)
  \/ \E f \in finishing : Finish(f)

Next == Registration \/ Scheduling \/ Execution \/ Crash \/ Tick

Spec == Init /\ [][Next]_vars

(***************************************************************************)
(* The loop polls for ever and the container restarts it, every await of a  *)
(* traversal has a timeout, and the clock advances.                         *)
(***************************************************************************)
Fairness ==
  /\ WF_vars(Tick)
  /\ \A s \in Sites : WF_vars(ClaimDueSite(s))
  /\ WF_vars(\E d \in dispatches : EnsureJob(d))
  /\ WF_vars(\E k \in JobKey : ClaimJob(k))
  /\ WF_vars(\E e \in scanning : EndScan(e))
  /\ WF_vars(\E f \in finishing : Finish(f))

FairSpec == Spec /\ Fairness

-----------------------------------------------------------------------------
(* Properties.                                                              *)

(***************************************************************************)
(* No site is wedged: while an active site waits for an occurrence, the    *)
(* job of that occurrence, if there is one, is still open.  A terminal job *)
(* would make every later ensure_job a no-op (ON CONFLICT DO NOTHING) and  *)
(* the site would be claimed for dispatch for ever without being scanned.  *)
(***************************************************************************)
CurrentOccurrenceOpen ==
  \A k \in JobKey :
    sites[k.site].status = "active" /\ Current(k)
      => jobs[k].status \notin TerminalStatuses

(***************************************************************************)
(* The semantic baseline of a site is always a committed, promoted,        *)
(* complete scan of that site: neither a crash between the statements of a *)
(* tick, nor pruning, nor an incomplete scan can leave it dangling.        *)
(***************************************************************************)
BaselineSound ==
  \A s \in Sites : sites[s].baseline # NoScan =>
    \E row \in scans :
      /\ ScanId(row) = sites[s].baseline
      /\ row.job.site = s /\ row.promote /\ Complete(row)

(***************************************************************************)
(* An execution that still owns its job can commit: the baseline it was    *)
(* compared with when its traversal ended is not pruned before its         *)
(* completion is sent, so the insert never breaks the foreign key.         *)
(***************************************************************************)
CompletionCommits ==
  \A f \in finishing : HoldsLease(f) => ReferencesKept(f.scan)

(* When next_check_at or the error streak of a site moves within a schedule *)
(* version, a job of that very occurrence leaves 'running' in the same step.*)
AdvanceOwned ==
  \A s \in Sites :
    /\ sites[s].status # "absent" /\ sites'[s].version = sites[s].version
    /\ <<sites'[s].next, sites'[s].streak>> # <<sites[s].next, sites[s].streak>>
    => \E k \in JobKey :
         /\ k.site = s /\ Current(k)
         /\ jobs[k].status = "running" /\ jobs'[k].status \in TerminalStatuses

(***************************************************************************)
(* A job of an old schedule version cannot advance the new schedule: when  *)
(* next_check_at or the error streak moves within a version, a job of that *)
(* very occurrence leaves 'running' in the same transaction.               *)
(***************************************************************************)
OldScheduleCannotAdvance == [][AdvanceOwned]_vars

(* A longer streak is stored with the cooldown that belongs to it.          *)
CooldownPriced ==
  \A s \in Sites :
    /\ sites'[s].version = sites[s].version
    /\ sites'[s].streak > sites[s].streak
    => /\ sites'[s].streak = sites[s].streak + 1
       /\ \E f \in finishing :
            /\ f.key.site = s /\ HoldsLease(f)
            /\ sites'[s].next =
                 f.at + Jittered(CooldownFor(sites'[s].streak), f.offset)

(***************************************************************************)
(* The cooldown a dead job schedules is the one of the error streak the    *)
(* same transaction stores, although the delay is computed from the streak *)
(* the job captured at creation and the stored one from MAX over the row.  *)
(***************************************************************************)
CooldownMatchesStreak == [][CooldownPriced]_vars

(* The row a baseline is replaced by was compared with that baseline.       *)
ReplacesCompared ==
  \A s \in Sites : sites'[s].baseline # sites[s].baseline =>
    \E row \in scans' :
      ScanId(row) = sites'[s].baseline /\ row.base = sites[s].baseline

(***************************************************************************)
(* A promoted scan was judged against the baseline it replaces, although   *)
(* the baseline is read in one statement and replaced in a later one.      *)
(***************************************************************************)
BaselineComparedToCurrent == [][ReplacesCompared]_vars

(* The new baseline shows the resources of the old one, or of another scan. *)
ReplacesConfirmed ==
  \A s \in Sites :
    LET old == BaselineRow(s) IN
    /\ old # NoScan /\ sites'[s].baseline # sites[s].baseline
    => \E row \in scans' :
         /\ ScanId(row) = sites'[s].baseline
         /\ \/ row.family = old.family
            \/ \E seen \in scans :
                 /\ seen.job.site = s /\ ScanId(seen) # ScanId(old)
                 /\ seen.family = row.family /\ Complete(seen)

(***************************************************************************)
(* A different resource set becomes the baseline only after an earlier     *)
(* committed, complete scan of the same site showed the same set.          *)
(***************************************************************************)
ReplacementConfirmed == [][ReplacesConfirmed]_vars

(* Without its lease, a completion moves at most dispatch_lease_expires_at. *)
ResendIdle ==
  \A f \in finishing :
    Finish(f) /\ ~HoldsLease(f)
      => /\ UNCHANGED <<jobs, scans>>
         /\ \A s \in Sites :
              /\ sites'[s].next = sites[s].next
              /\ sites'[s].streak = sites[s].streak
              /\ sites'[s].token = sites[s].token
              /\ sites'[s].baseline = sites[s].baseline

(***************************************************************************)
(* A completion that is sent again, or arrives after the lease was lost,   *)
(* leaves jobs, scans and what decides the next occurrence as they are.    *)
(* Only dispatch_lease_expires_at may move.                                 *)
(***************************************************************************)
ResendHarmless == [][ResendIdle]_vars

(***************************************************************************)
(* The job ledger owns every failed execution: without a crash, a running  *)
(* job always has an execution that will write its outcome.                *)
(***************************************************************************)
LedgerOwnsExecutions ==
  \A k \in JobKey : jobs[k].status = "running" =>
    \E x \in scanning \cup finishing : x.token = jobs[k].token

(***************************************************************************)
(* Every occurrence that falls due is served or rescheduled, in spite of   *)
(* crashes, lost leases and superseded executions.  Deadline is a bound:    *)
(* the occurrences considered leave room before the clock stops.           *)
(***************************************************************************)
Deadline == FaultUntil

OccurrenceServed ==
  \A s \in Sites, v \in 1..MaxVersion, t \in 0..Deadline :
    (sites[s].status = "active" /\ sites[s].version = v /\ sites[s].next = t)
      ~> ~(sites[s].status = "active" /\ sites[s].version = v /\ sites[s].next = t)

(***************************************************************************)
(* Sites, jobs, leases and executions together implement the abstract      *)
(* schedule: each occurrence is served at most once, in order.             *)
(***************************************************************************)
SiteSchedules ==
  [s \in Sites |-> [status |-> sites[s].status, version |-> sites[s].version,
                    next |-> sites[s].next, streak |-> sites[s].streak]]

Schedule == INSTANCE SiteSchedule WITH schedule <- SiteSchedules

ImplementsSchedule == Schedule!Spec
=============================================================================
