----------------------- MODULE SitemapScheduler_proofs -----------------------
(***************************************************************************)
(* Theorems of the sitemap scheduler, for every number of sites, processes *)
(* and attempts, every policy and every set of observations.  Type         *)
(* correctness holds for every adapter.  The others hold for SQLite, which  *)
(* stops at the first failed fence, and for D1 as long as no two executions *)
(* of a job end in the same millisecond.  The argument has three layers:    *)
(* the order of occurrences, the fences of the job ledger, and on top of    *)
(* both the semantic baseline.                                              *)
(***************************************************************************)
EXTENDS SitemapScheduler, TLAPS

(* A successful execution carries the scan row it will commit.              *)
ScanCarried == \A f \in finishing : f.ok => f.scan \in Scan

Typed == TypeOK /\ ScanCarried

-----------------------------------------------------------------------------
(* Lemmas about the helpers.                                                *)

(* The policy's durations and limits are positive.                          *)
LEMMA PolicyNumbers ==
  /\ CheckInterval \in Nat \ {0} /\ DispatchLease \in Nat \ {0}
  /\ JobLease \in Nat \ {0} /\ MaxAttempts \in Nat \ {0}
  /\ MaxVersion \in Nat \ {0} /\ MaxNow \in Nat
  /\ Offsets \subseteq Int
  BY PolicyAssumption

(* Every jittered delay moves the clock forward.                            *)
LEMMA JitteredPositive ==
  ASSUME NEW delay \in Nat, NEW offset \in Int
  PROVE  Jittered(delay, offset) \in Nat \ {0}
  BY DEF Jittered

(* A cooldown exists for every streak that a dead job can store.            *)
LEMMA CooldownDefined ==
  ASSUME NEW streak \in Nat \ {0}
  PROVE  CooldownFor(streak) \in Nat \ {0}
  BY PolicyAssumption DEF CooldownFor

(* A generated token is a token.                                            *)
LEMMA FreshInPool ==
  ASSUME NEW free, free # {}
  PROVE  FreshOf(free) \in free
  BY DEF FreshOf

(* The gate always yields one of its statuses.                              *)
LEMMA StatusDefined ==
  ASSUME NEW obs \in Observation, NEW before
  PROVE  ComparabilityStatus(obs, before) \in ComparabilityStatuses
  BY DEF ComparabilityStatus, ComparabilityStatuses, Observation, Kinds

LEMMA PromoteBoolean ==
  ASSUME NEW obs, NEW before, NEW previous
  PROVE  PromoteSemanticBaseline(obs, before, previous) \in BOOLEAN
  BY DEF PromoteSemanticBaseline

(* The baseline row read for an execution is a committed scan or missing.   *)
LEMMA BaselineRowCommitted ==
  ASSUME NEW s
  PROVE  BaselineRow(s) \in scans \cup {NoScan}
  BY DEF BaselineRow, Row

LEMMA ScanIdTyped ==
  ASSUME NEW row \in Scan
  PROVE  ScanId(row) \in ScanIds
  BY DEF ScanId, ScanIds, Scan

(* Committing a row keeps the table typed.                                  *)
LEMMA WithScanTyped ==
  ASSUME scans \subseteq Scan, NEW row \in Scan \cup {NoScan}
  PROVE  WithScan(row) \subseteq Scan
  BY DEF WithScan

LEMMA CloseJobTyped ==
  ASSUME TypeOK, NEW f \in finishing, NEW status \in JobStatuses,
         NEW available \in Nat
  PROVE  CloseJob(f, status, available) \in [JobKey -> Job]
<1>1. f.key \in JobKey /\ f.at \in Nat /\ f.token \in Tokens
  BY DEF TypeOK, Finishing
<1>2. Stamp(f) \in Tokens \cup {NoToken}
  BY <1>1 DEF Stamp
<1> QED
  BY <1>1, <1>2 DEF CloseJob, TypeOK, Job

-----------------------------------------------------------------------------
(* Type correctness.                                                        *)

LEMMA InitTyped == Init => Typed
<1> SUFFICES ASSUME Init PROVE Typed
  OBVIOUS
<1>1. Unregistered \in Site
  BY PolicyAssumption DEF Unregistered, Site
<1>2. NoJob \in Job
  BY DEF NoJob, Job, JobStatuses
<1> QED
  BY <1>1, <1>2, PolicyAssumption DEF Init, Typed, TypeOK, ScanCarried

(* Registration and status changes write well formed site rows.             *)
LEMMA RegistrationTyped == Typed /\ Registration => Typed'
<1> SUFFICES ASSUME Typed, NEW s \in Sites,
                    \/ EnsureSite(s)
                    \/ SetSiteStatus(s, "active", "paused")
                    \/ SetSiteStatus(s, "paused", "active")
             PROVE  Typed'
  BY DEF Registration
<1>1. sites[s] \in Site /\ now \in Nat
  BY DEF Typed, TypeOK
<1>2. ASSUME sites[s].version < MaxVersion
      PROVE  NextVersion(sites[s]) \in Site
  <2>1. sites[s].version + 1 \in 1..MaxVersion
    BY <1>1, <1>2, PolicyNumbers DEF Site
  <2> QED
    BY <1>1, <2>1 DEF NextVersion, Site
<1>3. sites' \in [Sites -> Site]
  <2>1. CASE EnsureSite(s)
    <3>1. [sites[s] EXCEPT !.status = "active", !.next = now] \in Site
      BY <1>1 DEF Site
    <3>2. CASE sites[s].version < MaxVersion
      <4>1. [NextVersion(sites[s]) EXCEPT !.next = now] \in Site
        BY <1>1, <1>2, <3>2 DEF Site
      <4> QED
        BY <2>1, <3>1, <4>1 DEF EnsureSite, Typed, TypeOK
    <3>3. CASE ~(sites[s].version < MaxVersion)
      BY <2>1, <3>1, <3>3 DEF EnsureSite, Typed, TypeOK
    <3> QED
      BY <3>2, <3>3
  <2>2. ASSUME NEW from, NEW to \in {"active", "paused"}, SetSiteStatus(s, from, to)
        PROVE  sites' \in [Sites -> Site]
    <3>1. NextVersion(sites[s]) \in Site
      BY <1>2, <2>2 DEF SetSiteStatus
    <3>2. ASSUME NEW next \in Nat
          PROVE  [NextVersion(sites[s]) EXCEPT !.status = to, !.next = next] \in Site
      BY <3>1 DEF Site
    <3>3. [NextVersion(sites[s]) EXCEPT
             !.status = to, !.next = IF to = "active" THEN now ELSE @] \in Site
      <4>1. NextVersion(sites[s]).next \in Nat
        BY <3>1 DEF Site
      <4> QED
        BY <1>1, <3>2, <4>1
    <3> QED
      BY <2>2, <3>3 DEF SetSiteStatus, Typed, TypeOK
  <2> QED
    BY <2>1, <2>2
<1> QED
  BY <1>3 DEF Typed, TypeOK, ScanCarried, EnsureSite, SetSiteStatus

LEMMA ClaimDueSiteTyped ==
  ASSUME Typed, NEW s \in Sites, ClaimDueSite(s)
  PROVE  Typed'
<1> DEFINE token == FreshOf(FreeDispatchTokens)
<1>1. token \in Tokens
  BY FreshInPool DEF ClaimDueSite, FreeDispatchTokens
<1>2. sites[s] \in Site /\ now \in Nat
  BY DEF Typed, TypeOK
<1> HIDE DEF token
<1>3. sites' = [sites EXCEPT ![s] = [sites[s] EXCEPT !.token = token,
                                                     !.expires = now + DispatchLease]]
  BY DEF ClaimDueSite, token
<1>4. [sites[s] EXCEPT !.token = token, !.expires = now + DispatchLease] \in Site
  <2>1. now + DispatchLease \in Nat
    BY <1>2, PolicyNumbers
  <2> QED
    BY <1>1, <1>2, <2>1 DEF Site
<1>5. sites' \in [Sites -> Site]
  BY <1>3, <1>4 DEF Typed, TypeOK
<1>6. [site |-> s, due |-> sites[s].next, version |-> sites[s].version] \in JobKey
  BY <1>2, PolicyNumbers DEF ClaimDueSite, JobKey, Site, Typed, TypeOK
<1>7. dispatches' \subseteq Dispatch
  BY <1>1, <1>6 DEF ClaimDueSite, Dispatch, Typed, TypeOK, token
<1> QED
  BY <1>5, <1>7 DEF ClaimDueSite, Typed, TypeOK, ScanCarried

LEMMA EnsureJobTyped ==
  ASSUME Typed, NEW d \in dispatches, EnsureJob(d)
  PROVE  Typed'
<1>1. d.key \in JobKey /\ d.key.site \in Sites /\ now \in Nat
  BY DEF Typed, TypeOK, Dispatch, JobKey
<1>2. sites[d.key.site].streak \in Nat
  BY <1>1 DEF Typed, TypeOK, Site
<1>3. [NoJob EXCEPT !.status = "pending", !.base = sites[d.key.site].streak,
                    !.available = now] \in Job
  BY <1>1, <1>2 DEF NoJob, Job, JobStatuses
<1>4. jobs' \in [JobKey -> Job]
  BY <1>1, <1>3 DEF EnsureJob, Typed, TypeOK
<1> QED
  BY <1>4 DEF EnsureJob, Typed, TypeOK, ScanCarried

LEMMA ClaimJobTyped ==
  ASSUME Typed, NEW k \in JobKey, ClaimJob(k)
  PROVE  Typed'
<1> DEFINE token == FreshOf(FreeJobTokens)
<1>1. token \in Tokens
  BY FreshInPool DEF ClaimJob, FreeJobTokens
<1>2. jobs[k] \in Job /\ now \in Nat
  BY DEF Typed, TypeOK
<1>3. [jobs[k] EXCEPT !.status = "running", !.attempts = @ + 1, !.token = token,
                      !.expires = now + JobLease, !.finished = 0,
                      !.stamp = NoToken] \in Job
  <2> HIDE DEF token
  <2>1. now + JobLease \in Nat /\ jobs[k].attempts + 1 \in Nat
    BY <1>2, PolicyNumbers DEF Job
  <2> QED BY <1>1, <1>2, <2>1 DEF Job, JobStatuses
<1>4. jobs' \in [JobKey -> Job]
  BY <1>3 DEF ClaimJob, Typed, TypeOK
<1>5. [key |-> k, token |-> token, attempt |-> jobs[k].attempts + 1,
       base |-> jobs[k].base] \in Scanning
  <2> HIDE DEF token
  <2> QED BY <1>1, <1>2 DEF Scanning, Job
<1>6. scanning' \subseteq Scanning
  BY <1>5 DEF ClaimJob, Typed, TypeOK
<1> QED
  BY <1>4, <1>6 DEF ClaimJob, Typed, TypeOK, ScanCarried

LEMMA RenewJobLeaseTyped ==
  ASSUME Typed, NEW e \in scanning, RenewJobLease(e)
  PROVE  Typed'
<1>1. e.key \in JobKey /\ now \in Nat
  BY DEF Typed, TypeOK, Scanning
<1>2. jobs' \in [JobKey -> Job]
  BY <1>1, PolicyNumbers DEF RenewJobLease, Typed, TypeOK, Job
<1> QED
  BY <1>2 DEF RenewJobLease, Typed, TypeOK, ScanCarried

(* An execution that ends keeps its claim and records when it ended.        *)
LEMMA ConcludeTyped ==
  ASSUME Typed, NEW e \in scanning, NEW ok \in BOOLEAN, NEW transient \in BOOLEAN,
         NEW scan \in Scan \cup {NoScan}, ok => scan \in Scan,
         Conclude(e, ok, transient, scan)
  PROVE  Typed'
<1>1. PICK offset \in Offsets :
        finishing' = finishing \cup
          {[key |-> e.key, token |-> e.token, attempt |-> e.attempt,
            base |-> e.base, at |-> now, offset |-> offset, ok |-> ok,
            transient |-> transient, scan |-> scan]}
  BY DEF Conclude
<1>2. e \in Scanning /\ now \in Nat
  BY DEF Typed, TypeOK
<1>3. [key |-> e.key, token |-> e.token, attempt |-> e.attempt,
       base |-> e.base, at |-> now, offset |-> offset, ok |-> ok,
       transient |-> transient, scan |-> scan] \in Finishing
  BY <1>2 DEF Finishing, Scanning
<1>4. finishing' \subseteq Finishing
  BY <1>1, <1>3 DEF Typed, TypeOK
<1>5. ScanCarried'
  BY <1>1 DEF Typed, ScanCarried
<1> QED
  BY <1>4, <1>5 DEF Conclude, Typed, TypeOK

LEMMA ScanReturnsTyped ==
  ASSUME Typed, NEW e \in scanning, NEW obs \in Observations, NEW previous,
         ScanReturns(e, obs, previous)
  PROVE  Typed'
<1> DEFINE before == BaselineRow(e.key.site)
           row == [job |-> e.key, attempt |-> e.attempt,
                   base |-> IF before = NoScan THEN NoScan ELSE ScanId(before),
                   status |-> ComparabilityStatus(obs, before),
                   family |-> obs.family,
                   promote |-> PromoteSemanticBaseline(obs, before, previous),
                   signal |-> obs.signal, at |-> now]
<1>1. e \in Scanning /\ now \in Nat /\ obs \in Observation
  BY ObservationAssumption DEF Typed, TypeOK
<1>2. before \in Scan \cup {NoScan}
  BY BaselineRowCommitted DEF Typed, TypeOK
<1>3. (IF before = NoScan THEN NoScan ELSE ScanId(before)) \in ScanIds \cup {NoScan}
  BY <1>2, ScanIdTyped
<1>4. row \in Scan
  BY <1>1, <1>3, StatusDefined, PromoteBoolean DEF Scan, Scanning, Observation
<1>5. Conclude(e, Usable(obs), obs.transient, row)
  BY DEF ScanReturns
<1>6. Usable(obs) \in BOOLEAN /\ obs.transient \in BOOLEAN
  BY <1>1 DEF Usable, Observation
<1> HIDE DEF row
<1> QED
  BY <1>4, <1>5, <1>6, ConcludeTyped

LEMMA EndScanTyped ==
  ASSUME Typed, NEW e \in scanning, EndScan(e) \/ ContextReadRaises(e)
  PROVE  Typed'
<1>1. CASE ScanRaises(e)
  BY <1>1, ConcludeTyped DEF ScanRaises
<1>2. CASE \E obs \in Observations, previous \in PreviousRows(e.key.site) :
             ScanReturns(e, obs, previous)
  BY <1>2, ScanReturnsTyped
<1>3. CASE ContextReadRaises(e)
  BY <1>3 DEF ContextReadRaises, Typed, TypeOK, ScanCarried
<1> QED
  BY <1>1, <1>2, <1>3 DEF EndScan

(* When the outcome of an execution moves the clock of a row, it moves it   *)
(* beyond the moment the execution ended.                                   *)
LEMMA OutcomeDelays ==
  ASSUME Typed, NEW f \in finishing
  PROVE  /\ f.at + Jittered(CheckInterval, f.offset) \in Nat
         /\ f.at + Jittered(CheckInterval, f.offset) > f.at
         /\ f.at + Jittered(CooldownFor(f.base + 1), f.offset) \in Nat
         /\ f.at + Jittered(CooldownFor(f.base + 1), f.offset) > f.at
         /\ ~IsDead(f) => f.at + Jittered(RetryDelay(f.attempt), f.offset) \in Nat
<1>1. f.at \in Nat /\ f.base \in Nat /\ f.attempt \in Nat \ {0} /\ f.offset \in Int
  BY PolicyNumbers DEF Typed, TypeOK, Finishing
<1>2. Jittered(CheckInterval, f.offset) \in Nat \ {0}
  BY <1>1, JitteredPositive, PolicyNumbers
<1>3. Jittered(CooldownFor(f.base + 1), f.offset) \in Nat \ {0}
  <2>1. f.base + 1 \in Nat \ {0}
    BY <1>1
  <2> QED
    BY <1>1, <2>1, JitteredPositive, CooldownDefined
<1>4. ASSUME ~IsDead(f)
      PROVE  Jittered(RetryDelay(f.attempt), f.offset) \in Nat \ {0}
  <2>1. f.attempt \in 1..MaxAttempts
    BY <1>1, <1>4, PolicyNumbers DEF IsDead
  <2> QED
    BY <1>1, <2>1, JitteredPositive, RetryAssumption
<1> QED
  BY <1>1, <1>2, <1>3, <1>4

(* The site row is either left alone or replaced by the given one.          *)
LEMMA WriteSiteTyped ==
  ASSUME TypeOK, NEW f \in finishing, NEW status, NEW row \in Site,
         WriteSite(f, status, row)
  PROVE  sites' \in [Sites -> Site]
<1>1. f.key.site \in Sites
  BY DEF TypeOK, Finishing, JobKey
<1> QED
  BY <1>1 DEF WriteSite, TypeOK

LEMMA FinishTyped ==
  ASSUME Typed, NEW f \in finishing, Finish(f)
  PROVE  Typed'
<1> DEFINE row == sites[f.key.site]
<1>1. /\ f \in Finishing /\ f.key \in JobKey /\ f.scan \in Scan \cup {NoScan}
      /\ row \in Site /\ jobs[f.key] \in Job
  BY DEF Typed, TypeOK, Finishing, JobKey
<1>2. finishing' \subseteq finishing
  BY DEF Finish, FinishJobSuccess, FinishJobDead, FinishJobRetry, Send
<1>3. UNCHANGED <<now, dispatches, scanning>>
  BY DEF Finish, FinishJobSuccess, FinishJobDead, FinishJobRetry
<1>4. scans' \subseteq Scan
  BY <1>1, WithScanTyped
  DEF Finish, FinishJobSuccess, FinishJobDead, FinishJobRetry, Typed, TypeOK
<1>5. jobs' \in [JobKey -> Job]
  <2>1. jobs[f.key].available \in Nat
    BY <1>1 DEF Job
  <2>2. {"succeeded", "dead", "retry"} \subseteq JobStatuses
    BY DEF JobStatuses
  <2> QED
    BY <2>1, <2>2, CloseJobTyped, OutcomeDelays
    DEF Finish, FinishJobSuccess, FinishJobDead, FinishJobRetry, Typed
<1>6. sites' \in [Sites -> Site]
  <2>1. CASE FinishJobSuccess(f)
    <3> DEFINE next == f.at + Jittered(CheckInterval, f.offset)
               baseline == IF f.scan.promote THEN ScanId(f.scan) ELSE row.baseline
    <3>1. next \in Nat
      BY OutcomeDelays
    <3>2. baseline \in ScanIds \cup {NoScan}
      BY <1>1, <2>1, ScanIdTyped DEF FinishJobSuccess, Typed, ScanCarried, Site
    <3> DEFINE new == [row EXCEPT !.next = next, !.streak = 0, !.token = NoToken,
                                  !.expires = 0, !.baseline = baseline]
    <3>3. new \in Site
      <4> HIDE DEF next, baseline
      <4> QED BY <1>1, <3>1, <3>2 DEF Site
    <3>4. WriteSite(f, "succeeded", new)
      BY <2>1 DEF FinishJobSuccess
    <3> HIDE DEF new
    <3> QED
      BY <3>3, <3>4, WriteSiteTyped DEF Typed
  <2>2. CASE FinishJobDead(f)
    <3> DEFINE next == f.at + Jittered(CooldownFor(f.base + 1), f.offset)
               streak == Larger(row.streak, jobs[f.key].base + 1)
    <3>1. next \in Nat
      BY OutcomeDelays
    <3>2. streak \in Nat
      BY <1>1 DEF Larger, Site, Job
    <3> DEFINE new == [row EXCEPT !.next = next, !.streak = streak,
                                  !.token = NoToken, !.expires = 0]
    <3>3. new \in Site
      <4> HIDE DEF next, streak
      <4> QED BY <1>1, <3>1, <3>2 DEF Site
    <3>4. WriteSite(f, "dead", new)
      BY <2>2 DEF FinishJobDead
    <3> HIDE DEF new
    <3> QED
      BY <3>3, <3>4, WriteSiteTyped DEF Typed
  <2>3. CASE FinishJobRetry(f)
    <3> DEFINE available == f.at + Jittered(RetryDelay(f.attempt), f.offset)
    <3>1. available \in Nat
      BY <2>3, OutcomeDelays DEF FinishJobRetry
    <3> DEFINE new == [row EXCEPT !.expires = available]
    <3>2. new \in Site
      <4> HIDE DEF available
      <4> QED BY <1>1, <3>1 DEF Site
    <3>3. WriteSite(f, "retry", new)
      BY <2>3 DEF FinishJobRetry
    <3> HIDE DEF new
    <3> QED
      BY <3>2, <3>3, WriteSiteTyped DEF Typed
  <2> QED
    BY <2>1, <2>2, <2>3 DEF Finish
<1> QED
  BY <1>2, <1>3, <1>4, <1>5, <1>6 DEF Typed, TypeOK, ScanCarried

LEMMA PerformMaintenanceTyped == Typed /\ PerformMaintenance => Typed'
<1> SUFFICES ASSUME Typed, PerformMaintenance PROVE Typed'
  OBVIOUS
<1> DEFINE remaining == {row \in scans : ~PrunableScan(row)}
<1>1. NoJob \in Job
  BY DEF NoJob, Job, JobStatuses
<1>2. ASSUME NEW k \in JobKey
      PROVE  [jobs[k] EXCEPT !.status = "dead", !.token = NoToken, !.expires = 0,
                             !.finished = now, !.stamp = NoToken] \in Job
  <2>1. jobs[k] \in Job /\ now \in Nat
    BY DEF Typed, TypeOK
  <2> QED
    BY <2>1 DEF Job, JobStatuses
<1>3. jobs' \in [JobKey -> Job]
  <2>1. ASSUME NEW k \in JobKey
        PROVE  (IF Superseded(k)
                  THEN [jobs[k] EXCEPT !.status = "dead", !.token = NoToken,
                                       !.expires = 0, !.finished = now,
                                       !.stamp = NoToken]
                ELSE IF PrunableJob(k, remaining) THEN NoJob ELSE jobs[k]) \in Job
    BY <1>1, <1>2 DEF Typed, TypeOK
  <2> QED
    BY <2>1 DEF PerformMaintenance
<1>4. scans' \subseteq Scan
  <2>1. ASSUME NEW row \in Scan PROVE Released(row, remaining) \in Scan
    BY DEF Released, Scan
  <2> QED
    BY <2>1 DEF PerformMaintenance, Typed, TypeOK
<1> QED
  BY <1>3, <1>4 DEF PerformMaintenance, Typed, TypeOK, ScanCarried

LEMMA NextTyped == Typed /\ [Next]_vars => Typed'
<1> SUFFICES ASSUME Typed, [Next]_vars PROVE Typed'
  OBVIOUS
<1>1. CASE Registration
  BY <1>1, RegistrationTyped
<1>2. CASE Scheduling
  BY <1>2, ClaimDueSiteTyped, EnsureJobTyped, PerformMaintenanceTyped DEF Scheduling
<1>3. CASE Execution
  BY <1>3, ClaimJobTyped, RenewJobLeaseTyped, EndScanTyped, FinishTyped DEF Execution
<1>4. CASE Crash
  BY <1>4 DEF Crash, Typed, TypeOK, ScanCarried
<1>5. CASE Tick
  BY <1>5, PolicyNumbers DEF Tick, Typed, TypeOK, ScanCarried
<1>6. CASE UNCHANGED vars
  BY <1>6 DEF vars, Typed, TypeOK, ScanCarried
<1> QED
  BY <1>1, <1>2, <1>3, <1>4, <1>5, <1>6 DEF Next

(***************************************************************************)
(* Every row and every execution in memory has the type the schema gives    *)
(* it: keys, tokens, attempts, streaks and scan references stay in range   *)
(* whatever the interleaving.                                               *)
(***************************************************************************)
THEOREM TypeCorrect == Spec => []TypeOK
<1>1. Typed => TypeOK
  BY DEF Typed
<1> QED
  BY <1>1, InitTyped, NextTyped, PTL DEF Spec

-----------------------------------------------------------------------------
(***************************************************************************)
(* The order of occurrences.  A job that exists belongs to the present or   *)
(* an earlier schedule version.  In the present version an open job is for  *)
(* the occurrence the site waits for and captured its error streak; closed  *)
(* jobs are for earlier occurrences.                                        *)
(***************************************************************************)
JobOrdered(k) ==
  /\ k.version <= sites[k.site].version
  /\ k.due <= now
  /\ k.version = sites[k.site].version =>
       /\ sites[k.site].status = "active"
       /\ jobs[k].status \in OpenStatuses => /\ k.due = sites[k.site].next
                                             /\ jobs[k].base = sites[k.site].streak
       /\ jobs[k].status \in TerminalStatuses => k.due < sites[k.site].next

JobsOrdered == \A k \in JobKey : jobs[k].status # "absent" => JobOrdered(k)

(* A dispatch claim still in force is for the occurrence the site waits for.*)
DispatchesOrdered ==
  \A d \in dispatches :
    /\ d.key.due <= now
    /\ DispatchInForce(d) => /\ sites[d.key.site].status = "active"
                             /\ sites[d.key.site].next = d.key.due

(* No execution runs or ends before its occurrence falls due.               *)
ExecutionsOrdered ==
  /\ \A e \in scanning : e.key.due <= now
  /\ \A f \in finishing : f.key.due <= f.at

Ordered == JobsOrdered /\ DispatchesOrdered /\ ExecutionsOrdered

(***************************************************************************)
(* Who may still write.  No two executions share a token, and the one that *)
(* holds the lease of a job knows the attempt and the streak of its row.    *)
(***************************************************************************)
KnowsRow(x) ==
  HoldsLease(x) => x.attempt = jobs[x.key].attempts /\ x.base = jobs[x.key].base

Leased ==
  /\ \A x, y \in scanning : x.token = y.token => x = y
  /\ \A f, g \in finishing : f.token = g.token => f = g
  /\ \A x \in scanning, f \in finishing : x.token # f.token
  /\ \A x \in scanning \cup finishing : KnowsRow(x)

(* Attempts number the committed scans of a job: the present one has none   *)
(* while the job runs, and a job that is not there has none at all.         *)
RowNumbered(row) ==
  /\ row.attempt <= jobs[row.job].attempts
  /\ jobs[row.job].status = "running" => row.attempt < jobs[row.job].attempts

Numbered ==
  /\ \A k \in JobKey : jobs[k].status = "absent" => jobs[k].attempts = 0
  /\ \A row \in scans : RowNumbered(row)
  /\ \A a, b \in scans : ScanId(a) = ScanId(b) => a = b

(* What a completion carries was made by its own execution.                 *)
CarriesOwn(f) ==
  /\ f.at <= now
  /\ f.scan # NoScan => /\ f.scan.job = f.key /\ f.scan.attempt = f.attempt
                        /\ f.scan.at = f.at
                        /\ f.scan.promote => Complete(f.scan)

Carried == \A f \in finishing : CarriesOwn(f)

(***************************************************************************)
(* A completion that was applied and is still in flight, as its reply was   *)
(* lost.  What it says is in the rows already, as long as the client may   *)
(* send it again.                                                           *)
(***************************************************************************)
Outcome(f) == IF f.ok THEN "succeeded" ELSE IF IsDead(f) THEN "dead" ELSE "retry"

Applied(f) ==
  /\ jobs[f.key].status = Outcome(f)
  /\ jobs[f.key].finished = f.at /\ jobs[f.key].stamp = f.token

NextDue(f) ==
  f.at + Jittered(IF f.ok THEN CheckInterval ELSE CooldownFor(f.base + 1), f.offset)

(* The schedule and the baseline are those of the completion.               *)
Settled(f) ==
  LET site == sites[f.key.site] IN
  /\ site.next = NextDue(f) /\ site.token = NoToken
  /\ f.ok => site.streak = 0 /\ (f.scan.promote => site.baseline = ScanId(f.scan))
  /\ ~f.ok => site.streak >= jobs[f.key].base + 1

Effective(f) ==
  /\ f.scan # NoScan => \E row \in scans : ScanId(row) = ScanId(f.scan) /\ row.at = f.at
  /\ sites[f.key.site].version = f.key.version /\ Outcome(f) \in TerminalStatuses
       => Settled(f)

Resendable ==
  /\ \A e \in scanning : jobs[e.key].stamp # e.token
  /\ \A f \in finishing : Applied(f) /\ now < f.at + ResendWindow => Effective(f)

Fenced == Leased /\ Numbered /\ Carried /\ Resendable

IInv == Typed /\ Ordered /\ Fenced

(* A completion is told from every other one: SQLite stops at the first     *)
(* failed fence, and for D1 no two executions of a job end in the same      *)
(* millisecond.                                                             *)
Precise == Adapter = "sqlite" \/ ~SameMillisecond

LEMMA InitOrdered == Init => Ordered
  BY DEF Init, Ordered, JobsOrdered, DispatchesOrdered, ExecutionsOrdered, NoJob

LEMMA InitFenced == Init => Fenced
  BY DEF Init, Fenced, Leased, Numbered, Carried, Resendable, NoJob

(* Types of the numbers the order compares.                                 *)
LEMMA OrderNumbers ==
  ASSUME Typed
  PROVE  /\ now \in Nat
         /\ \A k \in JobKey : /\ k.site \in Sites /\ k.due \in Nat /\ k.version \in Nat
                              /\ jobs[k] \in Job
         /\ \A s \in Sites : sites[s] \in Site /\ sites[s].version \in Nat
                             /\ sites[s].next \in Nat
<1>1. now \in Nat
  BY PolicyNumbers DEF Typed, TypeOK
<1>2. ASSUME NEW k \in JobKey
      PROVE  k.site \in Sites /\ k.due \in Nat /\ k.version \in Nat /\ jobs[k] \in Job
  <2>1. k.site \in Sites /\ k.due \in 0..MaxNow /\ k.version \in 1..MaxVersion
    BY DEF JobKey
  <2> QED
    BY <2>1, PolicyNumbers DEF Typed, TypeOK
<1>3. ASSUME NEW s \in Sites
      PROVE  sites[s] \in Site /\ sites[s].version \in Nat /\ sites[s].next \in Nat
  <2>1. sites[s] \in Site
    BY DEF Typed, TypeOK
  <2>2. sites[s].version \in 1..MaxVersion /\ sites[s].next \in Nat
    BY <2>1 DEF Site
  <2> QED
    BY <2>1, <2>2, PolicyNumbers
<1> QED
  BY <1>1, <1>2, <1>3

(* Registration changes one site: a new row, or a new schedule version.      *)
Registers(s) ==
  /\ sites[s].status = "absent"
  /\ sites'[s] = [sites[s] EXCEPT !.status = "active", !.next = now]

Bumped(s) ==
  /\ sites[s].status # "absent"
  /\ sites'[s].version = sites[s].version + 1 /\ sites'[s].token = NoToken
  /\ sites'[s].streak = sites[s].streak /\ sites'[s].baseline = sites[s].baseline
  /\ sites'[s].status \in {"active", "paused"}

LEMMA RegistrationChanges ==
  ASSUME Typed, Registration
  PROVE  /\ UNCHANGED <<now, jobs, scans, dispatches, scanning, finishing>>
         /\ \E s \in Sites : /\ \A r \in Sites : r # s => sites'[r] = sites[r]
                             /\ Registers(s) \/ Bumped(s)
<1> PICK s \in Sites : \/ EnsureSite(s)
                      \/ SetSiteStatus(s, "active", "paused")
                      \/ SetSiteStatus(s, "paused", "active")
  BY DEF Registration
<1>1. UNCHANGED <<now, jobs, scans, dispatches, scanning, finishing>>
  BY DEF EnsureSite, SetSiteStatus
<1>2. sites[s] \in Site /\ sites \in [Sites -> Site]
  BY DEF Typed, TypeOK
<1>3. \A r \in Sites : r # s => sites'[r] = sites[r]
  BY <1>2 DEF EnsureSite, SetSiteStatus
<1>4. ASSUME NEW status, NEW next,
             sites'[s] = [NextVersion(sites[s]) EXCEPT !.status = status, !.next = next]
      PROVE  /\ sites'[s].version = sites[s].version + 1 /\ sites'[s].token = NoToken
             /\ sites'[s].streak = sites[s].streak
             /\ sites'[s].baseline = sites[s].baseline /\ sites'[s].status = status
  BY <1>2, <1>4 DEF NextVersion, Site
<1>5. ASSUME NEW next, sites'[s] = [NextVersion(sites[s]) EXCEPT !.next = next]
      PROVE  /\ sites'[s].version = sites[s].version + 1 /\ sites'[s].token = NoToken
             /\ sites'[s].streak = sites[s].streak
             /\ sites'[s].baseline = sites[s].baseline
             /\ sites'[s].status = sites[s].status
  BY <1>2, <1>5 DEF NextVersion, Site
<1> HIDE DEF NextVersion
<1>6. CASE EnsureSite(s) /\ sites[s].status = "absent"
  <2>1. Registers(s)
    BY <1>2, <1>6 DEF EnsureSite, Registers
  <2> QED
    BY <1>1, <1>3, <2>1
<1>7. CASE EnsureSite(s) /\ sites[s].status # "absent"
  <2>1. sites'[s] = [NextVersion(sites[s]) EXCEPT !.next = now]
    BY <1>2, <1>7 DEF EnsureSite
  <2>2. sites[s].status \in {"active", "paused"}
    BY <1>2, <1>7 DEF Site
  <2>3. Bumped(s)
    BY <1>5, <1>7, <2>1, <2>2 DEF Bumped
  <2> QED
    BY <1>1, <1>3, <2>3
<1>8. ASSUME NEW from \in {"active", "paused"}, NEW to \in {"active", "paused"},
             SetSiteStatus(s, from, to)
      PROVE  Bumped(s)
  <2>1. sites'[s] = [NextVersion(sites[s]) EXCEPT
                       !.status = to, !.next = IF to = "active" THEN now ELSE @]
    BY <1>2, <1>8 DEF SetSiteStatus
  <2>2. sites[s].status # "absent"
    BY <1>8 DEF SetSiteStatus
  <2> QED
    BY <1>4, <2>1, <2>2 DEF Bumped
<1> QED
  BY <1>1, <1>3, <1>6, <1>7, <1>8

LEMMA RegistrationOrdered == IInv /\ Registration => Ordered'
<1> SUFFICES ASSUME IInv, Registration PROVE Ordered'
  OBVIOUS
<1>1. UNCHANGED <<now, jobs, scans, dispatches, scanning, finishing>>
  BY RegistrationChanges DEF IInv
<1>0. PICK s \in Sites : /\ \A r \in Sites : r # s => sites'[r] = sites[r]
                         /\ Registers(s) \/ Bumped(s)
  BY RegistrationChanges DEF IInv
<1>2. \A r \in Sites : r # s => sites'[r] = sites[r]
  BY <1>0
<1>3. \/ /\ sites[s].status = "absent"
         /\ sites'[s] = [sites[s] EXCEPT !.status = "active", !.next = now]
      \/ sites'[s].version = sites[s].version + 1 /\ sites'[s].token = NoToken
  BY <1>0 DEF Registers, Bumped
<1>4. JobsOrdered'
  <2> SUFFICES ASSUME NEW k \in JobKey, jobs[k].status # "absent"
               PROVE  JobOrdered(k)'
    BY <1>1 DEF JobsOrdered
  <2>1. JobOrdered(k)
    BY DEF IInv, Ordered, JobsOrdered
  <2>2. CASE k.site # s
    BY <1>1, <1>2, <2>1, <2>2, OrderNumbers DEF IInv, JobOrdered
  <2>3. CASE k.site = s
    <3>1. CASE /\ sites[s].status = "absent"
               /\ sites'[s] = [sites[s] EXCEPT !.status = "active", !.next = now]
      <4>1. sites'[s].version = sites[s].version /\ now' = now
        BY <1>1, <3>1, OrderNumbers DEF IInv, Site
      <4>2. k.version # sites[s].version
        BY <2>1, <2>3, <3>1 DEF JobOrdered
      <4> QED
        BY <2>1, <2>3, <4>1, <4>2 DEF JobOrdered
    <3>2. CASE sites'[s].version = sites[s].version + 1 /\ sites'[s].token = NoToken
      BY <1>1, <2>1, <2>3, <3>2, OrderNumbers DEF IInv, JobOrdered
    <3> QED
      BY <1>3, <3>1, <3>2
  <2> QED
    BY <2>2, <2>3
<1>5. DispatchesOrdered'
  <2> SUFFICES ASSUME NEW d \in dispatches
               PROVE  /\ d.key.due <= now
                      /\ DispatchInForce(d)' =>
                           /\ sites'[d.key.site].status = "active"
                           /\ sites'[d.key.site].next = d.key.due
    BY <1>1 DEF DispatchesOrdered
  <2>1. d.key \in JobKey /\ d.key.site \in Sites /\ d.token \in Tokens
    BY DEF IInv, Typed, TypeOK, Dispatch, JobKey
  <2>2. /\ d.key.due <= now
        /\ DispatchInForce(d) => /\ sites[d.key.site].status = "active"
                                 /\ sites[d.key.site].next = d.key.due
    BY DEF IInv, Ordered, DispatchesOrdered
  <2>3. CASE d.key.site # s
    BY <1>2, <2>1, <2>2, <2>3 DEF DispatchInForce
  <2>4. CASE d.key.site = s
    <3>1. CASE /\ sites[s].status = "absent"
               /\ sites'[s] = [sites[s] EXCEPT !.status = "active", !.next = now]
      <4>1. sites'[s].version = sites[s].version /\ sites'[s].token = sites[s].token
        BY <3>1, OrderNumbers DEF IInv, Site
      <4> QED
        BY <2>2, <2>4, <3>1, <4>1 DEF DispatchInForce
    <3>2. CASE sites'[s].version = sites[s].version + 1 /\ sites'[s].token = NoToken
      BY <2>1, <2>2, <2>4, <3>2, PolicyAssumption DEF DispatchInForce
    <3> QED
      BY <1>3, <3>1, <3>2
  <2> QED
    BY <2>3, <2>4
<1>6. ExecutionsOrdered'
  BY <1>1 DEF IInv, Ordered, ExecutionsOrdered
<1> QED
  BY <1>4, <1>5, <1>6 DEF Ordered

LEMMA ClaimDueSiteOrdered ==
  ASSUME IInv, NEW s \in Sites, ClaimDueSite(s)
  PROVE  Ordered'
<1> DEFINE token == FreshOf(FreeDispatchTokens)
           claim == [key |-> [site |-> s, due |-> sites[s].next,
                              version |-> sites[s].version], token |-> token]
<1>1. token \in FreeDispatchTokens
  BY FreshInPool DEF ClaimDueSite
<1>2. UNCHANGED <<now, jobs, scanning, finishing>> /\ dispatches' = dispatches \cup {claim}
  BY DEF ClaimDueSite
<1>3. \A r \in Sites : /\ sites'[r].version = sites[r].version
                       /\ sites'[r].status = sites[r].status
                       /\ sites'[r].next = sites[r].next
                       /\ sites'[r].streak = sites[r].streak
                       /\ sites'[r].token = IF r = s THEN token ELSE sites[r].token
  <2>1. sites' = [sites EXCEPT ![s] = [sites[s] EXCEPT !.token = token,
                                                       !.expires = now + DispatchLease]]
    BY DEF ClaimDueSite
  <2>2. sites \in [Sites -> Site] /\ sites[s] \in Site
    BY DEF IInv, Typed, TypeOK
  <2> HIDE DEF token
  <2> QED
    BY <2>1, <2>2 DEF Site
<1>4. JobsOrdered'
  BY <1>2, <1>3, OrderNumbers DEF IInv, Ordered, JobsOrdered, JobOrdered
<1>5. DispatchesOrdered'
  <2>1. ASSUME NEW d \in dispatches
        PROVE  /\ d.key.due <= now
               /\ DispatchInForce(d)' => /\ sites'[d.key.site].status = "active"
                                         /\ sites'[d.key.site].next = d.key.due
    <3>1. d.token # token /\ d.key.site \in Sites
      BY <1>1 DEF FreeDispatchTokens, IInv, Typed, TypeOK, Dispatch, JobKey
    <3>2. /\ d.key.due <= now
          /\ DispatchInForce(d) => /\ sites[d.key.site].status = "active"
                                   /\ sites[d.key.site].next = d.key.due
      BY DEF IInv, Ordered, DispatchesOrdered
    <3>3. DispatchInForce(d)' => DispatchInForce(d)
      <4> HIDE DEF token
      <4> QED BY <1>3, <3>1 DEF DispatchInForce
    <3> QED
      BY <1>3, <3>1, <3>2, <3>3
  <2>2. /\ claim.key.due <= now
        /\ sites'[claim.key.site].status = "active"
        /\ sites'[claim.key.site].next = claim.key.due
    BY <1>3 DEF ClaimDueSite
  <2> HIDE DEF claim
  <2> QED
    BY <1>2, <2>1, <2>2 DEF DispatchesOrdered
<1>6. ExecutionsOrdered'
  BY <1>2 DEF IInv, Ordered, ExecutionsOrdered
<1> QED
  BY <1>4, <1>5, <1>6 DEF Ordered

LEMMA EnsureJobOrdered ==
  ASSUME IInv, NEW d \in dispatches, EnsureJob(d)
  PROVE  Ordered'
<1>1. UNCHANGED <<now, sites, scanning, finishing>> /\ dispatches' = dispatches \ {d}
  BY DEF EnsureJob
<1>2. JobsOrdered'
  <2>1. CASE DispatchInForce(d) /\ jobs[d.key].status = "absent"
    <3>1. d.key \in JobKey
      BY DEF IInv, Typed, TypeOK, Dispatch
    <3>2. /\ jobs'[d.key].status = "pending"
          /\ jobs'[d.key].base = sites[d.key.site].streak
          /\ \A k \in JobKey : k # d.key => jobs'[k] = jobs[k]
      BY <2>1, <3>1 DEF EnsureJob, NoJob, IInv, Typed, TypeOK
    <3>3. /\ d.key.version = sites[d.key.site].version
          /\ sites[d.key.site].status = "active"
          /\ sites[d.key.site].next = d.key.due
          /\ d.key.due <= now
      BY <2>1 DEF IInv, Ordered, DispatchesOrdered, DispatchInForce
    <3>4. JobOrdered(d.key)'
      BY <1>1, <3>1, <3>2, <3>3, OrderNumbers
      DEF IInv, JobOrdered, TerminalStatuses
    <3> QED
      BY <1>1, <3>2, <3>4 DEF IInv, Ordered, JobsOrdered, JobOrdered
  <2>2. CASE ~(DispatchInForce(d) /\ jobs[d.key].status = "absent")
    <3>1. jobs' = jobs
      BY <2>2 DEF EnsureJob
    <3> QED
      BY <1>1, <3>1 DEF IInv, Ordered, JobsOrdered, JobOrdered
  <2> QED
    BY <2>1, <2>2
<1>3. DispatchesOrdered'
  BY <1>1 DEF IInv, Ordered, DispatchesOrdered, DispatchInForce
<1>4. ExecutionsOrdered'
  BY <1>1 DEF IInv, Ordered, ExecutionsOrdered
<1> QED
  BY <1>2, <1>3, <1>4 DEF Ordered

LEMMA ClaimJobOrdered ==
  ASSUME IInv, NEW k \in JobKey, ClaimJob(k)
  PROVE  Ordered'
<1>1. UNCHANGED <<now, sites, dispatches, finishing>>
  BY DEF ClaimJob
<1>2. /\ jobs[k].status \in OpenStatuses /\ jobs'[k].status = "running"
      /\ jobs'[k].base = jobs[k].base
      /\ \A other \in JobKey : other # k => jobs'[other] = jobs[other]
  <2>1. jobs[k] \in Job /\ jobs \in [JobKey -> Job]
    BY DEF IInv, Typed, TypeOK
  <2> QED
    BY <2>1 DEF ClaimJob, Claimable, OpenStatuses, Job
<1>3. JobOrdered(k)
  BY <1>2 DEF IInv, Ordered, JobsOrdered, OpenStatuses
<1>4. JobOrdered(k)'
  BY <1>1, <1>2, <1>3 DEF JobOrdered, OpenStatuses, TerminalStatuses
<1>5. JobsOrdered'
  BY <1>1, <1>2, <1>4 DEF IInv, Ordered, JobsOrdered, JobOrdered
<1>6. DispatchesOrdered'
  BY <1>1 DEF IInv, Ordered, DispatchesOrdered, DispatchInForce
<1>7. ExecutionsOrdered'
  <2>1. k.due <= now
    BY <1>3 DEF JobOrdered
  <2>2. \A e \in scanning' : e \in scanning \/ e.key = k
    BY DEF ClaimJob
  <2> QED
    BY <1>1, <2>1, <2>2 DEF IInv, Ordered, ExecutionsOrdered
<1> QED
  BY <1>5, <1>6, <1>7 DEF Ordered

LEMMA RenewJobLeaseOrdered ==
  ASSUME IInv, NEW e \in scanning, RenewJobLease(e)
  PROVE  Ordered'
<1>1. UNCHANGED <<now, sites, dispatches, scanning, finishing>>
  BY DEF RenewJobLease
<1>2. \A k \in JobKey : jobs'[k].status = jobs[k].status /\ jobs'[k].base = jobs[k].base
  <2>1. jobs \in [JobKey -> Job]
    BY DEF IInv, Typed, TypeOK
  <2> QED
    BY <2>1 DEF RenewJobLease, Job
<1>3. JobsOrdered'
  BY <1>1, <1>2 DEF IInv, Ordered, JobsOrdered, JobOrdered
<1> QED
  BY <1>1, <1>3
  DEF IInv, Ordered, DispatchesOrdered, DispatchInForce, ExecutionsOrdered

(* Ending a traversal touches no row; it ends no earlier than it began.     *)
LEMMA EndScanOrdered ==
  ASSUME IInv, NEW e \in scanning, EndScan(e) \/ ContextReadRaises(e)
  PROVE  Ordered'
<1>1. UNCHANGED <<now, sites, jobs, dispatches>> /\ scanning' \subseteq scanning
  BY DEF EndScan, ScanRaises, ScanReturns, Conclude, ContextReadRaises
<1>2. \A f \in finishing' : f \in finishing \/ (f.key = e.key /\ f.at = now)
  <2>1. ASSUME NEW ok, NEW transient, NEW scan, Conclude(e, ok, transient, scan)
        PROVE  \A f \in finishing' : f \in finishing \/ (f.key = e.key /\ f.at = now)
    BY <2>1 DEF Conclude
  <2> QED
    BY <2>1 DEF EndScan, ScanRaises, ScanReturns, ContextReadRaises
<1>3. ExecutionsOrdered'
  BY <1>1, <1>2 DEF IInv, Ordered, ExecutionsOrdered
<1> QED
  BY <1>1, <1>3
  DEF IInv, Ordered, JobsOrdered, JobOrdered, DispatchesOrdered, DispatchInForce

LEMMA PerformMaintenanceOrdered == IInv /\ PerformMaintenance => Ordered'
<1> SUFFICES ASSUME IInv, PerformMaintenance PROVE Ordered'
  OBVIOUS
<1>1. UNCHANGED <<now, sites, dispatches, scanning, finishing>>
  BY DEF PerformMaintenance
<1>2. JobsOrdered'
  <2> SUFFICES ASSUME NEW k \in JobKey, jobs'[k].status # "absent"
               PROVE  JobOrdered(k)'
    BY DEF JobsOrdered
  <2>1. jobs[k] \in Job
    BY DEF IInv, Typed, TypeOK
  <2>2. CASE Superseded(k)
    <3>1. jobs'[k].status = "dead"
      BY <2>1, <2>2 DEF PerformMaintenance, Job
    <3>2. JobOrdered(k)
      BY <2>2 DEF IInv, Ordered, JobsOrdered, Superseded, OpenStatuses
    <3>3. k.version = sites[k.site].version => k.due < sites[k.site].next
      BY <2>2, <3>2 DEF Superseded, JobOrdered
    <3> QED
      BY <1>1, <3>1, <3>2, <3>3 DEF JobOrdered, OpenStatuses
  <2>3. CASE ~Superseded(k)
    <3>1. jobs'[k] = jobs[k] \/ jobs'[k] = NoJob
      BY <2>3 DEF PerformMaintenance
    <3>2. jobs'[k] = jobs[k]
      BY <3>1 DEF NoJob
    <3> QED
      BY <1>1, <3>2 DEF IInv, Ordered, JobsOrdered, JobOrdered
  <2> QED
    BY <2>2, <2>3
<1> QED
  BY <1>1, <1>2
  DEF IInv, Ordered, DispatchesOrdered, DispatchInForce, ExecutionsOrdered

-----------------------------------------------------------------------------
(* Completion.                                                              *)

(* What a completion does to the job that it closes and to its site.        *)
JobClosed(f, status) ==
  /\ jobs'[f.key].status = status /\ jobs'[f.key].token = NoToken
  /\ jobs'[f.key].finished = f.at /\ jobs'[f.key].stamp = Stamp(f)
  /\ jobs'[f.key].base = jobs[f.key].base
  /\ jobs'[f.key].attempts = jobs[f.key].attempts
  /\ \A k \in JobKey : k # f.key => jobs'[k] = jobs[k]

(* A site row as the completion leaves it behind.                           *)
SiteRow(f, row) ==
  LET old == sites[f.key.site] IN
  /\ row.version = old.version /\ row.status = old.status
  /\ IF Outcome(f) = "retry"
       THEN /\ row.token = old.token /\ row.next = old.next
            /\ row.streak = old.streak /\ row.baseline = old.baseline
       ELSE /\ row.token = NoToken /\ row.next = NextDue(f)
            /\ row.streak = IF f.ok THEN 0 ELSE Larger(old.streak, jobs[f.key].base + 1)
            /\ row.baseline = IF f.ok /\ f.scan.promote THEN ScanId(f.scan)
                              ELSE old.baseline

(* All but dispatch_lease_expires_at stays.                                 *)
SiteKept(s) ==
  /\ sites'[s].version = sites[s].version /\ sites'[s].status = sites[s].status
  /\ sites'[s].token = sites[s].token /\ sites'[s].next = sites[s].next
  /\ sites'[s].streak = sites[s].streak /\ sites'[s].baseline = sites[s].baseline

Completed(f) ==
  /\ HoldsLease(f) /\ ReferencesKept(f.scan)
  /\ JobClosed(f, Outcome(f)) /\ scans' = WithScan(f.scan)
  /\ IF sites[f.key.site].version = f.key.version
       THEN /\ \A s \in Sites : s # f.key.site => sites'[s] = sites[s]
            /\ SiteRow(f, sites'[f.key.site])
       ELSE sites' = sites

(* A completion of which the tables know already.                           *)
Resent(f) ==
  ~HoldsLease(f) /\ UNCHANGED <<jobs, scans>> /\ \A s \in Sites : SiteKept(s)

LEMMA CloseJobCloses ==
  ASSUME TypeOK, NEW f \in finishing, NEW status, NEW available,
         HoldsLease(f), ReferencesKept(f.scan),
         jobs' = CloseJob(f, status, available)
  PROVE  JobClosed(f, status)
<1>1. f.key \in JobKey /\ jobs \in [JobKey -> Job] /\ jobs[f.key] \in Job
  BY DEF TypeOK, Finishing
<1> QED
  BY <1>1 DEF CloseJob, JobClosed, Job

(* The next occurrence lies behind the time of the last resend.             *)
LEMMA NextDueLater ==
  ASSUME Typed, NEW f \in finishing
  PROVE  /\ NextDue(f) \in Nat /\ NextDue(f) > f.at /\ f.at \in Nat
         /\ NextDue(f) >= f.at + ResendWindow
<1>0. f.at \in Nat /\ f.base \in Nat /\ f.offset \in Offsets
  BY DEF Typed, TypeOK, Finishing
<1>1. f.at \in Nat /\ f.base + 1 \in Nat \ {0} /\ f.offset \in Offsets /\ f.offset \in Int
  <2>1. f.offset \in Int
    BY <1>0, PolicyAssumption
  <2> QED
    BY <1>0, <2>1
<1>2. NextDue(f) \in Nat /\ NextDue(f) > f.at
  BY OutcomeDelays DEF NextDue
<1>3. ResendWindow <= Jittered(CheckInterval, f.offset)
  BY <1>1, PolicyAssumption
<1>4. ResendWindow <= Jittered(CooldownFor(f.base + 1), f.offset)
  <2>1. (IF f.base + 1 < 3 THEN f.base + 1 ELSE 3) \in 1..3
    BY <1>1
  <2> QED
    BY <1>1, <2>1, PolicyAssumption DEF CooldownFor
<1>5. ResendWindow \in Nat /\ ScanRetention \in Nat
  BY PolicyAssumption
<1>6. /\ Jittered(CheckInterval, f.offset) \in Nat
      /\ Jittered(CooldownFor(f.base + 1), f.offset) \in Nat
  BY <1>1, JitteredPositive, CooldownDefined, PolicyNumbers
<1> QED
  BY <1>1, <1>2, <1>3, <1>4, <1>5, <1>6 DEF NextDue

(* The statements of one completion, whatever their fences decide.          *)
LEMMA FinishWrites ==
  ASSUME Typed, NEW f \in finishing, Finish(f)
  PROVE  /\ \E available : jobs' = CloseJob(f, Outcome(f), available)
         /\ scans' = IF CompletionApplies(f, Outcome(f)) THEN WithScan(f.scan) ELSE scans
         /\ \E row : SiteRow(f, row) /\ WriteSite(f, Outcome(f), row)
         /\ UNCHANGED <<now, dispatches, scanning>> /\ finishing' \subseteq finishing
         /\ Adapter = "d1" => now < f.at + ResendWindow
<1> DEFINE old == sites[f.key.site]
<1>1. old \in Site /\ f.ok \in BOOLEAN
  BY DEF Typed, TypeOK, Finishing, JobKey
<1>2. CASE FinishJobSuccess(f)
  <2>1. Outcome(f) = "succeeded"
    BY <1>2 DEF FinishJobSuccess, Outcome
  <2> DEFINE next == f.at + Jittered(CheckInterval, f.offset)
             baseline == IF f.scan.promote THEN ScanId(f.scan) ELSE old.baseline
             row == [old EXCEPT !.next = next, !.streak = 0, !.token = NoToken,
                                !.expires = 0, !.baseline = baseline]
  <2>2. /\ row.version = old.version /\ row.status = old.status /\ row.token = NoToken
        /\ row.next = next /\ row.streak = 0 /\ row.baseline = baseline
    <3> HIDE DEF next, baseline
    <3> QED BY <1>1 DEF Site
  <2>3. WriteSite(f, "succeeded", row)
    BY <1>2 DEF FinishJobSuccess
  <2>4. NextDue(f) = next
    BY <1>2 DEF FinishJobSuccess, NextDue
  <2> HIDE DEF row, next
  <2>5. SiteRow(f, row)
    BY <1>2, <2>1, <2>2, <2>4 DEF SiteRow, FinishJobSuccess
  <2> QED
    BY <1>2, <2>1, <2>3, <2>5 DEF FinishJobSuccess, Send
<1>3. CASE FinishJobDead(f)
  <2>1. Outcome(f) = "dead"
    BY <1>3 DEF FinishJobDead, Outcome
  <2> DEFINE next == f.at + Jittered(CooldownFor(f.base + 1), f.offset)
             streak == Larger(old.streak, jobs[f.key].base + 1)
             row == [old EXCEPT !.next = next, !.streak = streak, !.token = NoToken,
                                !.expires = 0]
  <2>2. /\ row.version = old.version /\ row.status = old.status /\ row.token = NoToken
        /\ row.next = next /\ row.streak = streak /\ row.baseline = old.baseline
    <3> HIDE DEF next, streak
    <3> QED BY <1>1 DEF Site
  <2>3. WriteSite(f, "dead", row)
    BY <1>3 DEF FinishJobDead
  <2>4. NextDue(f) = next
    BY <1>3 DEF FinishJobDead, NextDue
  <2> HIDE DEF row, next
  <2>5. SiteRow(f, row)
    BY <1>3, <2>1, <2>2, <2>4 DEF SiteRow, FinishJobDead
  <2> QED
    BY <1>3, <2>1, <2>3, <2>5 DEF FinishJobDead, Send
<1>4. CASE FinishJobRetry(f)
  <2>1. Outcome(f) = "retry"
    BY <1>4 DEF FinishJobRetry, Outcome
  <2> DEFINE available == f.at + Jittered(RetryDelay(f.attempt), f.offset)
             row == [old EXCEPT !.expires = available]
  <2>2. /\ row.version = old.version /\ row.status = old.status /\ row.token = old.token
        /\ row.next = old.next /\ row.streak = old.streak /\ row.baseline = old.baseline
    <3> HIDE DEF available
    <3> QED BY <1>1 DEF Site
  <2>3. WriteSite(f, "retry", row)
    BY <1>4 DEF FinishJobRetry
  <2> HIDE DEF row
  <2>4. SiteRow(f, row)
    BY <2>1, <2>2 DEF SiteRow
  <2> QED
    BY <1>4, <2>1, <2>3, <2>4 DEF FinishJobRetry, Send
<1> QED
  BY <1>2, <1>3, <1>4 DEF Finish

(* The fences let a completion through once: it stops, it completes the job *)
(* or it was applied before and repeats what the tables say.                *)
LEMMA FinishCompletes ==
  ASSUME Precise, IInv, NEW f \in finishing, Finish(f)
  PROVE  UNCHANGED <<sites, jobs, scans>> \/ Completed(f) \/ Resent(f)
<1> DEFINE s == f.key.site
<1>1. /\ f.key \in JobKey /\ s \in Sites /\ sites[s] \in Site /\ f.token \in Tokens
      /\ sites \in [Sites -> Site] /\ jobs[f.key] \in Job /\ f.ok \in BOOLEAN
  BY DEF IInv, Typed, TypeOK, Finishing, JobKey
<1>2. PICK row : SiteRow(f, row) /\ WriteSite(f, Outcome(f), row)
  BY FinishWrites DEF IInv
<1>3. CASE ~CompletionApplies(f, Outcome(f))
  <2>1. ~(HoldsLease(f) /\ ReferencesKept(f.scan))
    BY <1>3 DEF CompletionApplies
  <2>2. jobs' = jobs
    BY <2>1, FinishWrites DEF IInv, CloseJob
  <2> QED
    BY <1>2, <1>3, <2>2, FinishWrites DEF IInv, WriteSite
<1>4. CASE CompletionApplies(f, Outcome(f)) /\ HoldsLease(f)
  <2>1. JobClosed(f, Outcome(f))
    BY <1>4, CloseJobCloses, FinishWrites DEF CompletionApplies, IInv, Typed
  <2>2. scans' = WithScan(f.scan)
    BY <1>4, FinishWrites DEF IInv
  <2>3. IF sites[s].version = f.key.version
          THEN /\ \A r \in Sites : r # s => sites'[r] = sites[r]
               /\ SiteRow(f, sites'[s])
          ELSE sites' = sites
    BY <1>1, <1>2, <1>4 DEF WriteSite
  <2> QED
    BY <1>4, <2>1, <2>2, <2>3 DEF Completed, CompletionApplies
<1>5. CASE CompletionApplies(f, Outcome(f)) /\ ~HoldsLease(f)
  <2>1. Adapter = "d1" /\ Stamp(f) = f.token
    BY <1>5 DEF CompletionApplies, Precise, Stamp
  <2>2. Applied(f) /\ now < f.at + ResendWindow
    BY <1>5, <2>1, FinishWrites DEF CompletionApplies, Applied, IInv
  <2>3. Effective(f)
    BY <2>2 DEF IInv, Fenced, Resendable
  <2>4. jobs' = jobs
    BY <1>5, FinishWrites DEF IInv, CloseJob
  <2>5. scans' = scans
    BY <1>5, <2>3, FinishWrites DEF IInv, WithScan, Effective
  <2>6. ASSUME NEW r \in Sites
        PROVE  SiteKept(r)
    <3>1. CASE sites'[r] = sites[r]
      BY <3>1 DEF SiteKept
    <3>2. CASE sites'[r] # sites[r]
      <4>1. r = s /\ sites'[r] = row /\ sites[s].version = f.key.version
        BY <1>1, <1>2, <3>2 DEF WriteSite
      <4>2. CASE Outcome(f) = "retry"
        BY <1>2, <4>1, <4>2 DEF SiteRow, SiteKept
      <4>3. CASE Outcome(f) # "retry"
        <5>1. Settled(f)
          BY <2>3, <4>1, <4>3 DEF Effective, Outcome, TerminalStatuses
        <5>2. sites[s].streak \in Nat /\ jobs[f.key].base \in Nat
          BY <1>1 DEF Site, Job
        <5>3. ~f.ok => Larger(sites[s].streak, jobs[f.key].base + 1) = sites[s].streak
          BY <5>1, <5>2 DEF Settled, Larger
        <5> QED
          BY <1>1, <1>2, <4>1, <4>3, <5>1, <5>3 DEF SiteRow, SiteKept, Settled
      <4> QED
        BY <4>2, <4>3
    <3> QED
      BY <3>1, <3>2
  <2> QED
    BY <1>5, <2>4, <2>5, <2>6 DEF Resent
<1> QED
  BY <1>3, <1>4, <1>5

(* The job an execution holds the lease of is ordered, and open.            *)
LEMMA LeasedJobOrdered ==
  ASSUME IInv, NEW f \in finishing, HoldsLease(f)
  PROVE  f.key \in JobKey /\ jobs[f.key].status \in OpenStatuses /\ JobOrdered(f.key)
<1>1. f.key \in JobKey
  BY DEF IInv, Typed, TypeOK, Finishing
<1> QED
  BY <1>1 DEF IInv, Ordered, JobsOrdered, HoldsLease, OpenStatuses

(* Serving an occurrence leaves every other job of the site behind it: two  *)
(* open jobs of one schedule version would have the same key.               *)
LEMMA MovedJobsOrdered ==
  ASSUME IInv, NEW f \in finishing, Completed(f), Outcome(f) \in TerminalStatuses,
         sites[f.key.site].version = f.key.version, now' = now,
         NEW k \in JobKey, jobs'[k].status # "absent"
  PROVE  JobOrdered(k)'
<1> DEFINE s == f.key.site
<1>1. /\ f.key \in JobKey /\ jobs[f.key].status \in OpenStatuses
      /\ JobOrdered(f.key)
  BY LeasedJobOrdered DEF Completed
<1>2. /\ f.key.due = sites[s].next /\ sites[s].status = "active"
      /\ f.key.due <= f.at /\ f.key.due <= now
  BY <1>1 DEF JobOrdered, IInv, Ordered, ExecutionsOrdered
<1>3. f.at \in Nat /\ f.key.due \in Nat /\ k.due \in Nat
  BY <1>1, OrderNumbers DEF IInv, Typed, TypeOK, Finishing
<1>4. /\ sites'[s].version = sites[s].version /\ sites'[s].status = sites[s].status
      /\ sites'[s].next = NextDue(f) /\ NextDue(f) > f.at /\ NextDue(f) \in Nat
  BY NextDueLater DEF Completed, SiteRow, TerminalStatuses, IInv
<1>5. JobClosed(f, Outcome(f)) /\ \A r \in Sites : r # s => sites'[r] = sites[r]
  BY DEF Completed
<1>6. CASE k = f.key
  <2>1. jobs'[k].status \notin OpenStatuses
    BY <1>5, <1>6 DEF JobClosed, OpenStatuses, TerminalStatuses
  <2>2. k.due < sites'[s].next
    BY <1>2, <1>3, <1>4, <1>6
  <2> QED
    BY <1>1, <1>2, <1>4, <1>6, <2>1, <2>2 DEF JobOrdered
<1>7. CASE k # f.key
  <2>1. jobs'[k] = jobs[k] /\ JobOrdered(k)
    BY <1>5, <1>7 DEF JobClosed, IInv, Ordered, JobsOrdered
  <2>2. CASE k.site # s
    BY <1>5, <2>1, <2>2, OrderNumbers DEF JobOrdered, IInv
  <2>3. CASE k.site = s
    <3>1. CASE k.version = sites[s].version
      <4>1. jobs[k].status \notin OpenStatuses
        <5> SUFFICES ASSUME jobs[k].status \in OpenStatuses PROVE FALSE
          OBVIOUS
        <5>1. k.due = f.key.due
          BY <1>2, <2>1, <2>3, <3>1 DEF JobOrdered
        <5> QED
          BY <1>1, <1>7, <2>3, <3>1, <5>1 DEF JobKey
      <4>2. jobs[k].status \in TerminalStatuses => k.due < sites'[s].next
        <5>1. jobs[k].status \in TerminalStatuses => k.due < f.key.due
          BY <1>2, <2>1, <2>3, <3>1 DEF JobOrdered
        <5> QED
          BY <1>2, <1>3, <1>4, <5>1
      <4> QED
        BY <1>2, <1>4, <2>1, <2>3, <3>1, <4>1, <4>2 DEF JobOrdered
    <3>2. CASE k.version # sites[s].version
      BY <1>4, <2>1, <2>3, <3>2 DEF JobOrdered
    <3> QED
      BY <3>1, <3>2
  <2> QED
    BY <2>2, <2>3
<1> QED
  BY <1>6, <1>7

(* The order reads neither dispatch_lease_expires_at nor the baseline.      *)
LEMMA KeptOrdered ==
  ASSUME IInv, \A s \in Sites : SiteKept(s), UNCHANGED <<now, dispatches, scanning>>,
         finishing' \subseteq finishing,
         \A k \in JobKey : jobs'[k].status # "absent" =>
           /\ jobs[k].status # "absent" /\ jobs'[k].base = jobs[k].base
           /\ jobs'[k].status \in OpenStatuses => jobs[k].status \in OpenStatuses
           /\ jobs'[k].status \in TerminalStatuses =>
                \/ jobs[k].status \in TerminalStatuses
                \/ sites[k.site].version # k.version
  PROVE  Ordered'
<1>1. \A k \in JobKey : k.site \in Sites
  BY DEF JobKey
<1>2. \A d \in dispatches : d.key.site \in Sites
  BY DEF IInv, Typed, TypeOK, Dispatch, JobKey
<1>3. JobsOrdered'
  BY <1>1 DEF SiteKept, IInv, Ordered, JobsOrdered, JobOrdered
<1>4. DispatchesOrdered'
  BY <1>2 DEF SiteKept, IInv, Ordered, DispatchesOrdered, DispatchInForce
<1>5. ExecutionsOrdered'
  BY DEF IInv, Ordered, ExecutionsOrdered
<1> QED
  BY <1>3, <1>4, <1>5 DEF Ordered

LEMMA FinishOrdered ==
  ASSUME Precise, IInv, NEW f \in finishing, Finish(f)
  PROVE  Ordered'
<1> DEFINE s == f.key.site
<1>1. UNCHANGED <<now, dispatches, scanning>> /\ finishing' \subseteq finishing
  BY FinishWrites DEF IInv
<1>2. CASE UNCHANGED <<sites, jobs, scans>> \/ Resent(f)
  <2>1. jobs' = jobs /\ \A r \in Sites : SiteKept(r)
    BY <1>2 DEF Resent, SiteKept
  <2> QED
    BY <1>1, <2>1, KeptOrdered
<1>3. CASE Completed(f)
  <2>1. /\ HoldsLease(f) /\ f.key \in JobKey /\ s \in Sites
        /\ JobClosed(f, Outcome(f)) /\ f.ok \in BOOLEAN
    BY <1>3 DEF Completed, IInv, Typed, TypeOK, Finishing, JobKey
  <2>2. jobs[f.key].status \in OpenStatuses /\ JobOrdered(f.key)
    BY <2>1, LeasedJobOrdered
  <2>3. Outcome(f) = "retry" \/ Outcome(f) \in TerminalStatuses
    BY DEF Outcome, TerminalStatuses
  <2>4. CASE sites[s].version # f.key.version \/ Outcome(f) = "retry"
    <3>1. \A r \in Sites : SiteKept(r)
      BY <1>3, <2>4 DEF Completed, SiteRow, SiteKept
    <3>2. ASSUME NEW k \in JobKey, jobs'[k].status # "absent"
          PROVE  /\ jobs[k].status # "absent" /\ jobs'[k].base = jobs[k].base
                 /\ jobs'[k].status \in OpenStatuses => jobs[k].status \in OpenStatuses
                 /\ jobs'[k].status \in TerminalStatuses =>
                      \/ jobs[k].status \in TerminalStatuses
                      \/ sites[k.site].version # k.version
      <4>1. CASE k = f.key
        BY <2>1, <2>2, <2>3, <2>4, <4>1
        DEF JobClosed, OpenStatuses, TerminalStatuses
      <4>2. CASE k # f.key
        BY <2>1, <3>2, <4>2 DEF JobClosed
      <4> QED
        BY <4>1, <4>2
    <3> QED
      BY <1>1, <3>1, <3>2, KeptOrdered
  <2>5. CASE sites[s].version = f.key.version /\ Outcome(f) \in TerminalStatuses
    <3>1. JobsOrdered'
      BY <1>1, <1>3, <2>5, MovedJobsOrdered DEF JobsOrdered
    <3>2. sites'[s].token = NoToken /\ \A r \in Sites : r # s => sites'[r] = sites[r]
      BY <1>3, <2>5 DEF Completed, SiteRow, TerminalStatuses
    <3>3. DispatchesOrdered'
      <4> SUFFICES ASSUME NEW d \in dispatches
                   PROVE  /\ d.key.due <= now
                          /\ DispatchInForce(d)' =>
                               /\ sites'[d.key.site].status = "active"
                               /\ sites'[d.key.site].next = d.key.due
        BY <1>1 DEF DispatchesOrdered
      <4>1. d.token \in Tokens /\ d.key.site \in Sites
        BY DEF IInv, Typed, TypeOK, Dispatch, JobKey
      <4>2. CASE d.key.site = s
        BY <3>2, <4>1, <4>2, PolicyAssumption
        DEF DispatchInForce, IInv, Ordered, DispatchesOrdered
      <4>3. CASE d.key.site # s
        BY <3>2, <4>1, <4>3 DEF DispatchInForce, IInv, Ordered, DispatchesOrdered
      <4> QED
        BY <4>2, <4>3
    <3>4. ExecutionsOrdered'
      BY <1>1 DEF IInv, Ordered, ExecutionsOrdered
    <3> QED
      BY <3>1, <3>3, <3>4 DEF Ordered
  <2> QED
    BY <2>3, <2>4, <2>5
<1> QED
  BY <1>2, <1>3, FinishCompletes

LEMMA NextOrdered ==
  ASSUME Precise, IInv, [Next]_vars
  PROVE  Ordered'
<1>1. CASE Registration
  BY <1>1, RegistrationOrdered
<1>2. CASE Scheduling
  BY <1>2, ClaimDueSiteOrdered, EnsureJobOrdered, PerformMaintenanceOrdered
  DEF Scheduling
<1>3. CASE Execution
  BY <1>3, ClaimJobOrdered, RenewJobLeaseOrdered, EndScanOrdered, FinishOrdered
  DEF Execution
<1>4. CASE Crash
  <2>1. /\ UNCHANGED <<now, sites, jobs>> /\ dispatches' \subseteq dispatches
        /\ scanning' \subseteq scanning /\ finishing' \subseteq finishing
    BY <1>4 DEF Crash
  <2> QED
    BY <2>1
    DEF IInv, Ordered, JobsOrdered, JobOrdered, DispatchesOrdered, DispatchInForce,
        ExecutionsOrdered
<1>5. CASE Tick
  <2>1. /\ UNCHANGED <<sites, jobs, dispatches, scanning, finishing>>
        /\ now' = now + 1
    BY <1>5 DEF Tick
  <2>2. \A k \in JobKey : k.due <= now => k.due <= now'
    BY <2>1, OrderNumbers DEF IInv
  <2>3. /\ \A d \in dispatches : d.key \in JobKey
        /\ \A e \in scanning : e.key \in JobKey
    BY DEF IInv, Typed, TypeOK, Dispatch, Scanning
  <2>4. JobsOrdered'
    BY <2>1, <2>2 DEF IInv, Ordered, JobsOrdered, JobOrdered
  <2>5. DispatchesOrdered'
    BY <2>1, <2>2, <2>3 DEF IInv, Ordered, DispatchesOrdered, DispatchInForce
  <2>6. ExecutionsOrdered'
    BY <2>1, <2>2, <2>3 DEF IInv, Ordered, ExecutionsOrdered
  <2> QED
    BY <2>4, <2>5, <2>6 DEF Ordered
<1>6. CASE UNCHANGED vars
  BY <1>6
  DEF vars, IInv, Ordered, JobsOrdered, JobOrdered, DispatchesOrdered,
      DispatchInForce, ExecutionsOrdered
<1> QED
  BY <1>1, <1>2, <1>3, <1>4, <1>5, <1>6 DEF Next

-----------------------------------------------------------------------------
(* The fences.  A step that lets no execution take over a lease, and leaves *)
(* the row of a lease alone, keeps who may write.                           *)
LEMMA LeasedKept ==
  ASSUME IInv, scanning' \subseteq scanning, finishing' \subseteq finishing,
         \A x \in scanning \cup finishing :
           HoldsLease(x)' => /\ HoldsLease(x)
                             /\ jobs'[x.key].attempts = jobs[x.key].attempts
                             /\ jobs'[x.key].base = jobs[x.key].base
  PROVE  Leased'
<1>1. Leased
  BY DEF IInv, Fenced
<1>2. \A x \in scanning \cup finishing : KnowsRow(x)'
  BY <1>1 DEF Leased, KnowsRow
<1>3. \A x \in scanning' \cup finishing' : x \in scanning \cup finishing
  OBVIOUS
<1> QED
  BY <1>1, <1>2, <1>3 DEF Leased

(* What an execution carries does not age.                                  *)
LEMMA CarriedKept ==
  ASSUME IInv, finishing' \subseteq finishing, now' \in Nat, now' >= now
  PROVE  Carried'
<1>1. \A f \in finishing : f.at \in Nat /\ CarriesOwn(f)
  BY DEF IInv, Typed, TypeOK, Finishing, Fenced, Carried
<1>2. now \in Nat
  BY OrderNumbers DEF IInv
<1>3. \A f \in finishing : f.at <= now'
  BY <1>1, <1>2 DEF CarriesOwn
<1> QED
  BY <1>1, <1>3 DEF Carried, CarriesOwn

(* A completion is effective as long as its scan and the schedule stay.     *)
LEMMA EffectiveKept ==
  ASSUME NEW f, Effective(f), jobs'[f.key].base = jobs[f.key].base,
         \A row \in scans : ScanId(row) = ScanId(f.scan) /\ row.at = f.at =>
           \E new \in scans' : ScanId(new) = ScanId(row) /\ new.at = row.at,
         sites'[f.key.site].version = f.key.version /\ Outcome(f) \in TerminalStatuses
           => SiteKept(f.key.site)
  PROVE  Effective(f)'
<1>1. f.scan # NoScan =>
        \E row \in scans' : ScanId(row) = ScanId(f.scan) /\ row.at = f.at
  BY DEF Effective
<1>2. ASSUME sites'[f.key.site].version = f.key.version,
             Outcome(f) \in TerminalStatuses
      PROVE  Settled(f)'
  <2>1. SiteKept(f.key.site)
    BY <1>2
  <2>2. Settled(f)
    BY <1>2, <2>1 DEF Effective, SiteKept
  <2> QED
    BY <2>1, <2>2 DEF Settled, SiteKept, NextDue
<1> QED
  BY <1>1, <1>2 DEF Effective, Outcome, IsDead

(* A completion that was applied left its job closed, or waiting again.     *)
LEMMA AppliedJob ==
  ASSUME IInv, NEW f \in finishing, Applied(f)
  PROVE  /\ f.key \in JobKey /\ f.key.site \in Sites /\ f.token \in Tokens
         /\ jobs[f.key].status \in {"succeeded", "dead", "retry"}
         /\ JobOrdered(f.key)
<1>1. f.key \in JobKey /\ f.key.site \in Sites /\ f.token \in Tokens
  BY DEF IInv, Typed, TypeOK, Finishing, JobKey
<1>2. jobs[f.key].status \in {"succeeded", "dead", "retry"}
  BY DEF Applied, Outcome
<1> QED
  BY <1>1, <1>2 DEF IInv, Ordered, JobsOrdered

(* Steps that change nothing but sites, and no schedule an applied          *)
(* completion settled.                                                      *)
LEMMA SitesOnlyFenced ==
  ASSUME IInv, UNCHANGED <<now, jobs, scans, scanning, finishing>>,
         \A f \in finishing :
           /\ Applied(f) /\ now < f.at + ResendWindow /\ Effective(f)
           /\ sites'[f.key.site].version = f.key.version
           /\ Outcome(f) \in TerminalStatuses
           => SiteKept(f.key.site)
  PROVE  Fenced'
<1>1. Leased'
  BY LeasedKept DEF HoldsLease
<1>2. Numbered'
  BY DEF IInv, Fenced, Numbered, RowNumbered
<1>3. Carried'
  BY CarriedKept, OrderNumbers DEF IInv
<1>4. ASSUME NEW f \in finishing, Applied(f)', now < f.at + ResendWindow
      PROVE  Effective(f)'
  <2>1. Applied(f)
    BY <1>4 DEF Applied, Outcome, IsDead
  <2>2. Effective(f)
    BY <1>4, <2>1 DEF IInv, Fenced, Resendable
  <2> QED
    BY <1>4, <2>1, <2>2, EffectiveKept
<1>5. Resendable'
  BY <1>4 DEF IInv, Fenced, Resendable
<1> QED
  BY <1>1, <1>2, <1>3, <1>5 DEF Fenced

LEMMA RegistrationFenced == IInv /\ Registration => Fenced'
<1> SUFFICES ASSUME IInv, Registration PROVE Fenced'
  OBVIOUS
<1>1. UNCHANGED <<now, jobs, scans, dispatches, scanning, finishing>>
  BY RegistrationChanges DEF IInv
<1> PICK s \in Sites : /\ \A r \in Sites : r # s => sites'[r] = sites[r]
                       /\ Registers(s) \/ Bumped(s)
  BY RegistrationChanges DEF IInv
<1>2. ASSUME NEW f \in finishing, Applied(f),
             sites'[f.key.site].version = f.key.version
      PROVE  SiteKept(f.key.site)
  <2>1. f.key \in JobKey /\ f.key.site \in Sites /\ JobOrdered(f.key)
    BY <1>2, AppliedJob
  <2>2. CASE f.key.site # s
    BY <2>1, <2>2 DEF SiteKept
  <2>3. CASE f.key.site = s
    <3>1. ~Bumped(s)
      BY <1>2, <2>1, <2>3, OrderNumbers DEF Bumped, JobOrdered, IInv
    <3>2. ~Registers(s)
      BY <1>2, <2>1, <2>3, OrderNumbers DEF Registers, JobOrdered, IInv, Site
    <3> QED
      BY <3>1, <3>2
  <2> QED
    BY <2>2, <2>3
<1> QED
  BY <1>1, <1>2, SitesOnlyFenced

(* A settled site is not due while its completion may still be sent.        *)
LEMMA ClaimDueSiteFenced ==
  ASSUME IInv, NEW s \in Sites, ClaimDueSite(s)
  PROVE  Fenced'
<1>1. UNCHANGED <<now, jobs, scans, scanning, finishing>>
  BY DEF ClaimDueSite
<1>2. \A r \in Sites : r # s => sites'[r] = sites[r]
  BY DEF ClaimDueSite, IInv, Typed, TypeOK
<1>3. ASSUME NEW f \in finishing, Applied(f), now < f.at + ResendWindow, Effective(f),
             sites'[f.key.site].version = f.key.version,
             Outcome(f) \in TerminalStatuses
      PROVE  SiteKept(f.key.site)
  <2>1. f.key.site \in Sites
    BY <1>3, AppliedJob
  <2>2. CASE f.key.site # s
    BY <1>2, <2>1, <2>2 DEF SiteKept
  <2>3. CASE f.key.site = s
    <3>1. sites'[s].version = sites[s].version
      BY DEF ClaimDueSite, IInv, Typed, TypeOK, Site
    <3>2. sites[s].next = NextDue(f)
      BY <1>3, <2>3, <3>1 DEF Effective, Settled
    <3>3. sites[s].next <= now /\ now \in Nat /\ ResendWindow \in Nat
      BY OrderNumbers, PolicyAssumption DEF ClaimDueSite, IInv
    <3>4. FALSE
      BY <1>3, <3>2, <3>3, NextDueLater DEF IInv
    <3> QED
      BY <3>4
  <2> QED
    BY <2>2, <2>3
<1> QED
  BY <1>1, <1>3, SitesOnlyFenced

LEMMA EnsureJobFenced ==
  ASSUME IInv, NEW d \in dispatches, EnsureJob(d)
  PROVE  Fenced'
<1>1. UNCHANGED <<now, sites, scans, scanning, finishing>>
  BY DEF EnsureJob
<1>2. CASE jobs' = jobs
  BY <1>1, <1>2, SitesOnlyFenced DEF SiteKept
<1>3. CASE jobs' # jobs
  <2>1. d.key \in JobKey /\ jobs[d.key].status = "absent"
    BY <1>3 DEF EnsureJob, IInv, Typed, TypeOK, Dispatch
  <2>2. /\ jobs'[d.key].status = "pending" /\ jobs'[d.key].stamp = NoToken
        /\ jobs'[d.key].attempts = 0
        /\ \A k \in JobKey : k # d.key => jobs'[k] = jobs[k]
    BY <1>3, <2>1 DEF EnsureJob, NoJob, IInv, Typed, TypeOK
  <2>3. \A x \in scanning \cup finishing : x.key \in JobKey /\ x.token \in Tokens
    BY DEF IInv, Typed, TypeOK, Scanning, Finishing
  <2>4. Leased'
    <3>1. ASSUME NEW x \in scanning \cup finishing, HoldsLease(x)'
          PROVE  x.key # d.key
      BY <1>1, <2>2, <3>1 DEF HoldsLease
    <3> QED
      BY <1>1, <2>2, <2>3, <3>1, LeasedKept DEF HoldsLease
  <2>5. Numbered'
    <3>1. ASSUME NEW row \in scans
          PROVE  row.job \in JobKey /\ row.job # d.key
      <4>1. row.job \in JobKey /\ row.attempt \in Nat \ {0}
        BY DEF IInv, Typed, TypeOK, Scan
      <4> QED
        BY <2>1, <4>1 DEF IInv, Fenced, Numbered, RowNumbered
    <3> QED
      BY <1>1, <2>2, <3>1 DEF IInv, Fenced, Numbered, RowNumbered
  <2>6. Carried'
    BY <1>1, CarriedKept, OrderNumbers DEF IInv
  <2>7. ASSUME NEW f \in finishing, Applied(f)', now < f.at + ResendWindow
        PROVE  Effective(f)'
    <3>1. f.key # d.key
      BY <2>2, <2>7 DEF Applied, Outcome
    <3>2. jobs'[f.key] = jobs[f.key]
      BY <2>2, <2>3, <3>1
    <3>3. Applied(f)
      BY <2>7, <3>2 DEF Applied, Outcome, IsDead
    <3>4. Effective(f)
      BY <2>7, <3>3 DEF IInv, Fenced, Resendable
    <3> QED
      BY <1>1, <3>2, <3>4, EffectiveKept DEF SiteKept
  <2>8. Resendable'
    <3>1. ASSUME NEW e \in scanning PROVE jobs'[e.key].stamp # e.token
      BY <2>2, <2>3, PolicyAssumption DEF IInv, Fenced, Resendable
    <3> QED
      BY <1>1, <2>7, <3>1 DEF Resendable
  <2> QED
    BY <2>4, <2>5, <2>6, <2>8 DEF Fenced
<1> QED
  BY <1>2, <1>3

(* A claim takes a fresh token: no other execution can hold the lease.      *)
LEMMA ClaimJobFenced ==
  ASSUME IInv, NEW k \in JobKey, ClaimJob(k)
  PROVE  Fenced'
<1> DEFINE token == FreshOf(FreeJobTokens)
<1>1. token \in FreeJobTokens
  BY FreshInPool DEF ClaimJob
<1>2. UNCHANGED <<now, sites, scans, finishing>>
  BY DEF ClaimJob
<1>3. /\ jobs'[k].status = "running" /\ jobs'[k].attempts = jobs[k].attempts + 1
      /\ jobs'[k].token = token /\ jobs'[k].stamp = NoToken
      /\ jobs'[k].base = jobs[k].base
      /\ \A other \in JobKey : other # k => jobs'[other] = jobs[other]
  <2>1. jobs[k] \in Job /\ jobs \in [JobKey -> Job]
    BY DEF IInv, Typed, TypeOK
  <2> HIDE DEF token
  <2>2. jobs' = [jobs EXCEPT ![k] =
                   [jobs[k] EXCEPT !.status = "running", !.attempts = @ + 1,
                                   !.token = token, !.expires = now + JobLease,
                                   !.finished = 0, !.stamp = NoToken]]
    BY DEF ClaimJob, token
  <2> QED
    BY <2>1, <2>2 DEF Job
<1>4. PICK mine : /\ scanning' = scanning \cup {mine}
                  /\ mine.key = k /\ mine.token = token /\ mine.base = jobs[k].base
                  /\ mine.attempt = jobs[k].attempts + 1
  <2> DEFINE new == [key |-> k, token |-> token, attempt |-> jobs[k].attempts + 1,
                     base |-> jobs[k].base]
  <2>1. scanning' = scanning \cup {new}
    BY DEF ClaimJob
  <2>2. /\ new.key = k /\ new.token = token /\ new.base = jobs[k].base
        /\ new.attempt = jobs[k].attempts + 1
    OBVIOUS
  <2> HIDE DEF new
  <2> QED
    BY <2>1, <2>2
<1>5. \A x \in scanning \cup finishing :
        /\ x.key \in JobKey /\ x.token \in Tokens /\ x.token # token
  BY <1>1 DEF FreeJobTokens, IInv, Typed, TypeOK, Scanning, Finishing
<1>6. token \in Tokens /\ jobs[k].attempts \in Nat
  BY <1>1, OrderNumbers DEF FreeJobTokens, IInv, Job
<1> HIDE DEF token
<1>7. Leased'
  <2>1. \A x \in scanning \cup finishing : KnowsRow(x)'
    BY <1>3, <1>5 DEF IInv, Fenced, Leased, KnowsRow, HoldsLease
  <2>2. KnowsRow(mine)'
    BY <1>3, <1>4 DEF KnowsRow
  <2> QED
    BY <1>2, <1>4, <1>5, <2>1, <2>2 DEF IInv, Fenced, Leased
<1>8. Numbered'
  <2>1. ASSUME NEW row \in scans
        PROVE  RowNumbered(row)'
    <3>1. row.job \in JobKey /\ row.attempt \in Nat /\ RowNumbered(row)
      BY DEF IInv, Typed, TypeOK, Scan, Fenced, Numbered
    <3> QED
      BY <1>3, <1>6, <3>1 DEF RowNumbered
  <2>2. \A other \in JobKey : jobs'[other].status = "absent" =>
          jobs'[other].attempts = 0
    BY <1>3 DEF IInv, Fenced, Numbered
  <2> QED
    BY <1>2, <2>1, <2>2 DEF IInv, Fenced, Numbered
<1>9. Carried'
  BY <1>2, CarriedKept, OrderNumbers DEF IInv
<1>10. ASSUME NEW f \in finishing, Applied(f)', now < f.at + ResendWindow
       PROVE  Effective(f)'
  <2>1. jobs'[f.key] = jobs[f.key]
    BY <1>3, <1>5, <1>10 DEF Applied, Outcome
  <2>2. Effective(f)
    BY <1>10, <2>1 DEF IInv, Fenced, Resendable, Applied, Outcome, IsDead
  <2> QED
    BY <1>2, <2>1, <2>2, EffectiveKept DEF SiteKept
<1>11. \A e \in scanning' : jobs'[e.key].stamp # e.token
  BY <1>2, <1>3, <1>4, <1>5, <1>6, PolicyAssumption DEF IInv, Fenced, Resendable
<1>12. Resendable'
  BY <1>2, <1>10, <1>11 DEF Resendable
<1> QED
  BY <1>7, <1>8, <1>9, <1>12 DEF Fenced

LEMMA RenewJobLeaseFenced ==
  ASSUME IInv, NEW e \in scanning, RenewJobLease(e)
  PROVE  Fenced'
<1>1. UNCHANGED <<now, sites, scans, scanning, finishing>>
  BY DEF RenewJobLease
<1>2. /\ \A k \in JobKey : /\ jobs'[k].status = jobs[k].status
                           /\ jobs'[k].attempts = jobs[k].attempts
                           /\ jobs'[k].base = jobs[k].base
                           /\ jobs'[k].token = jobs[k].token
                           /\ jobs'[k].finished = jobs[k].finished
                           /\ jobs'[k].stamp = jobs[k].stamp
      /\ \A x \in scanning \cup finishing : x.key \in JobKey
      /\ \A row \in scans : row.job \in JobKey
  <2>1. jobs \in [JobKey -> Job]
    BY DEF IInv, Typed, TypeOK
  <2> QED
    BY <2>1 DEF RenewJobLease, Job, IInv, Typed, TypeOK, Scanning, Finishing, Scan
<1>3. Leased'
  BY <1>1, <1>2, LeasedKept DEF HoldsLease
<1>4. Numbered'
  BY <1>1, <1>2 DEF IInv, Fenced, Numbered, RowNumbered
<1>5. Carried'
  BY <1>1, CarriedKept, OrderNumbers DEF IInv
<1>6. ASSUME NEW f \in finishing, Applied(f)', now < f.at + ResendWindow
      PROVE  Effective(f)'
  <2>1. Effective(f)
    BY <1>2, <1>6 DEF IInv, Fenced, Resendable, Applied, Outcome, IsDead
  <2> QED
    BY <1>1, <1>2, <2>1, EffectiveKept DEF SiteKept
<1>7. Resendable'
  BY <1>1, <1>2, <1>6 DEF IInv, Fenced, Resendable
<1> QED
  BY <1>3, <1>4, <1>5, <1>7 DEF Fenced

(* The row an execution hands to its completion.                            *)
ScanRow(e, obs, previous) ==
  LET before == BaselineRow(e.key.site) IN
  [job |-> e.key, attempt |-> e.attempt,
   base |-> IF before = NoScan THEN NoScan ELSE ScanId(before),
   status |-> ComparabilityStatus(obs, before),
   family |-> obs.family,
   promote |-> PromoteSemanticBaseline(obs, before, previous),
   signal |-> obs.signal, at |-> now]

LEMMA EndScanConcludes ==
  ASSUME IInv, NEW e \in scanning, EndScan(e)
  PROVE  /\ UNCHANGED <<now, sites, jobs, scans, dispatches>>
         /\ scanning' = scanning \ {e}
         /\ \E f : /\ finishing' = finishing \cup {f}
                   /\ f.key = e.key /\ f.token = e.token /\ f.attempt = e.attempt
                   /\ f.base = e.base /\ f.at = now
                   /\ \/ f.scan = NoScan
                      \/ \E obs \in Observations, previous \in PreviousRows(e.key.site) :
                           f.scan = ScanRow(e, obs, previous)
<1>1. ASSUME NEW ok, NEW transient, NEW scan, Conclude(e, ok, transient, scan)
      PROVE  /\ UNCHANGED <<now, sites, jobs, scans, dispatches>>
             /\ scanning' = scanning \ {e}
             /\ \E f : /\ finishing' = finishing \cup {f}
                       /\ f.key = e.key /\ f.token = e.token /\ f.attempt = e.attempt
                       /\ f.base = e.base /\ f.at = now /\ f.scan = scan
  <2>1. PICK offset \in Offsets :
          finishing' = finishing \cup
            {[key |-> e.key, token |-> e.token, attempt |-> e.attempt,
              base |-> e.base, at |-> now, offset |-> offset, ok |-> ok,
              transient |-> transient, scan |-> scan]}
    BY <1>1 DEF Conclude
  <2> DEFINE f == [key |-> e.key, token |-> e.token, attempt |-> e.attempt,
                   base |-> e.base, at |-> now, offset |-> offset, ok |-> ok,
                   transient |-> transient, scan |-> scan]
  <2>2. /\ f.key = e.key /\ f.token = e.token /\ f.attempt = e.attempt
        /\ f.base = e.base /\ f.at = now /\ f.scan = scan
    OBVIOUS
  <2>3. finishing' = finishing \cup {f}
    BY <2>1
  <2> HIDE DEF f
  <2> QED
    BY <1>1, <2>2, <2>3 DEF Conclude
<1>2. CASE ScanRaises(e)
  <2>1. Conclude(e, FALSE, TRUE, NoScan)
    BY <1>2 DEF ScanRaises
  <2> QED
    BY <2>1, <1>1
<1>3. ASSUME NEW obs \in Observations, NEW previous, ScanReturns(e, obs, previous)
      PROVE  /\ previous \in PreviousRows(e.key.site)
             /\ Conclude(e, Usable(obs), obs.transient, ScanRow(e, obs, previous))
  BY <1>3 DEF ScanReturns, ScanRow
<1>4. CASE \E obs \in Observations, previous \in PreviousRows(e.key.site) :
             ScanReturns(e, obs, previous)
  <2>1. PICK obs \in Observations, previous \in PreviousRows(e.key.site) :
          ScanReturns(e, obs, previous)
    BY <1>4
  <2>2. Conclude(e, Usable(obs), obs.transient, ScanRow(e, obs, previous))
    BY <1>3, <2>1
  <2> HIDE DEF Conclude, ScanRow
  <2>3. /\ UNCHANGED <<now, sites, jobs, scans, dispatches>>
        /\ scanning' = scanning \ {e}
        /\ \E f : /\ finishing' = finishing \cup {f}
                  /\ f.key = e.key /\ f.token = e.token /\ f.attempt = e.attempt
                  /\ f.base = e.base /\ f.at = now
                  /\ f.scan = ScanRow(e, obs, previous)
    BY <1>1, <2>2
  <2> QED
    BY <2>1, <2>3
<1> QED
  BY <1>2, <1>4 DEF EndScan

(* A row is promoted only after a traversal that checked everything.        *)
LEMMA ScanRowOwn ==
  ASSUME NEW e, NEW obs \in Observations, NEW previous, NEW scan,
         scan = ScanRow(e, obs, previous)
  PROVE  /\ scan.job = e.key /\ scan.attempt = e.attempt /\ scan.at = now
         /\ scan.promote => Complete(scan)
<1>1. /\ scan.job = e.key /\ scan.attempt = e.attempt /\ scan.at = now
      /\ scan.status = ComparabilityStatus(obs, BaselineRow(e.key.site))
      /\ scan.promote = PromoteSemanticBaseline(obs, BaselineRow(e.key.site), previous)
  BY DEF ScanRow
<1>2. scan.promote => Complete(scan)
  BY <1>1 DEF PromoteSemanticBaseline, Complete, Changed
<1> QED
  BY <1>1, <1>2

LEMMA EndScanFenced ==
  ASSUME IInv, NEW e \in scanning, EndScan(e) \/ ContextReadRaises(e)
  PROVE  Fenced'
<1>1. UNCHANGED <<now, sites, jobs, scans>> /\ scanning' \subseteq scanning
  BY EndScanConcludes DEF ContextReadRaises
<1>2. Numbered'
  BY <1>1 DEF IInv, Fenced, Numbered, RowNumbered
<1>3. \A f \in finishing : Applied(f)' /\ now' < f.at + ResendWindow => Effective(f)'
  <2> SUFFICES ASSUME NEW f \in finishing, Applied(f)', now' < f.at + ResendWindow
               PROVE  Effective(f)'
    OBVIOUS
  <2>1. Effective(f)
    BY <1>1 DEF IInv, Fenced, Resendable, Applied, Outcome, IsDead
  <2> QED
    BY <1>1, <2>1, EffectiveKept DEF SiteKept
<1>4. CASE ContextReadRaises(e)
  <2>1. finishing' = finishing
    BY <1>4 DEF ContextReadRaises
  <2>2. Leased'
    BY <1>1, <2>1, LeasedKept DEF HoldsLease
  <2>3. Carried'
    BY <1>1, <2>1, CarriedKept, OrderNumbers DEF IInv
  <2>4. Resendable'
    BY <1>1, <1>3, <2>1 DEF IInv, Fenced, Resendable
  <2> QED
    BY <1>2, <2>2, <2>3, <2>4 DEF Fenced
<1>5. CASE EndScan(e)
  <2>1. scanning' = scanning \ {e}
    BY <1>5, EndScanConcludes
  <2>2. PICK f : /\ finishing' = finishing \cup {f}
                 /\ f.key = e.key /\ f.token = e.token /\ f.attempt = e.attempt
                 /\ f.base = e.base /\ f.at = now
                 /\ \/ f.scan = NoScan
                    \/ \E obs \in Observations, previous \in PreviousRows(e.key.site) :
                         f.scan = ScanRow(e, obs, previous)
    BY <1>5, EndScanConcludes
  <2>3. Leased'
    <3>1. KnowsRow(f)' /\ \A x \in scanning \cup finishing : KnowsRow(x)'
      BY <1>1, <2>2 DEF IInv, Fenced, Leased, KnowsRow, HoldsLease
    <3> QED
      BY <2>1, <2>2, <3>1 DEF IInv, Fenced, Leased
  <2>4. CarriesOwn(f)'
    <3>1. f.scan # NoScan => /\ f.scan.job = f.key /\ f.scan.attempt = f.attempt
                             /\ f.scan.at = f.at
                             /\ f.scan.promote => Complete(f.scan)
      BY <2>2, ScanRowOwn
    <3> QED
      BY <1>1, <2>2, <3>1, OrderNumbers DEF CarriesOwn, IInv
  <2>5. Carried'
    BY <1>1, <2>2, <2>4 DEF IInv, Fenced, Carried, CarriesOwn
  <2>6. ~Applied(f)'
    BY <1>1, <2>2 DEF Applied, IInv, Fenced, Resendable
  <2>7. Resendable'
    BY <1>1, <1>3, <2>1, <2>2, <2>6 DEF IInv, Fenced, Resendable
  <2> QED
    BY <1>2, <2>3, <2>5, <2>7 DEF Fenced
<1> QED
  BY <1>4, <1>5

(* The row of the running attempt is not there yet, so it is inserted.      *)
LEMMA CompletedScan ==
  ASSUME IInv, NEW f \in finishing, Completed(f)
  PROVE  /\ scans \subseteq scans'
         /\ f.scan = NoScan => scans' = scans
         /\ f.scan # NoScan =>
              /\ scans' = scans \cup {f.scan} /\ f.scan \in Scan
              /\ \A old \in scans : ScanId(old) # ScanId(f.scan)
<1>1. scans' = WithScan(f.scan) /\ HoldsLease(f) /\ f.scan \in Scan \cup {NoScan}
  BY DEF Completed, IInv, Typed, TypeOK, Finishing
<1>2. f.key \in JobKey /\ f.attempt = jobs[f.key].attempts
  BY <1>1 DEF IInv, Typed, TypeOK, Finishing, Fenced, Leased, KnowsRow
<1>3. ASSUME f.scan # NoScan, NEW old \in scans, ScanId(old) = ScanId(f.scan)
      PROVE  FALSE
  <2>1. f.scan.job = f.key /\ f.scan.attempt = f.attempt
    BY <1>3 DEF IInv, Fenced, Carried, CarriesOwn
  <2>2. old.job = f.key /\ old.attempt = f.attempt
    BY <1>3, <2>1 DEF ScanId
  <2>3. old.attempt < jobs[f.key].attempts
    BY <1>1, <2>2 DEF IInv, Fenced, Numbered, RowNumbered, HoldsLease
  <2>4. jobs[f.key].attempts \in Nat
    BY <1>2, OrderNumbers DEF IInv, Job
  <2> QED
    BY <1>2, <2>2, <2>3, <2>4
<1> QED
  BY <1>1, <1>3 DEF WithScan

LEMMA CompletedLeased ==
  ASSUME IInv, NEW f \in finishing, Completed(f), UNCHANGED scanning,
         finishing' \subseteq finishing
  PROVE  Leased'
<1>1. f.key \in JobKey /\ f.ok \in BOOLEAN /\ JobClosed(f, Outcome(f))
  BY DEF IInv, Typed, TypeOK, Finishing, Completed
<1>2. \A x \in scanning \cup finishing : x.key \in JobKey
  BY DEF IInv, Typed, TypeOK, Scanning, Finishing
<1>3. ASSUME NEW x \in scanning \cup finishing, HoldsLease(x)'
      PROVE  jobs'[x.key] = jobs[x.key]
  BY <1>1, <1>2, <1>3 DEF JobClosed, HoldsLease, Outcome
<1> QED
  BY <1>3, LeasedKept DEF HoldsLease

LEMMA CompletedNumbered ==
  ASSUME IInv, NEW f \in finishing, Completed(f)
  PROVE  Numbered'
<1>1. f.key \in JobKey /\ JobClosed(f, Outcome(f)) /\ HoldsLease(f)
  BY DEF IInv, Typed, TypeOK, Finishing, Completed
<1>2. \A k \in JobKey : /\ jobs'[k].attempts = jobs[k].attempts
                        /\ jobs'[k].status = "running" => jobs[k].status = "running"
                        /\ jobs'[k].status = "absent" => jobs[k].status = "absent"
  BY <1>1 DEF JobClosed, Outcome
<1>3. ASSUME NEW row \in scans
      PROVE  RowNumbered(row)'
  <2>1. row.job \in JobKey /\ RowNumbered(row)
    BY DEF IInv, Typed, TypeOK, Scan, Fenced, Numbered
  <2> QED
    BY <1>2, <2>1 DEF RowNumbered
<1>4. CASE f.scan = NoScan
  <2>1. scans' = scans
    BY <1>4, CompletedScan
  <2> QED
    BY <1>2, <1>3, <2>1 DEF IInv, Fenced, Numbered
<1>5. CASE f.scan # NoScan
  <2>1. /\ scans' = scans \cup {f.scan}
        /\ \A old \in scans : ScanId(old) # ScanId(f.scan)
    BY <1>5, CompletedScan
  <2>2. RowNumbered(f.scan)'
    <3>1. f.scan.job = f.key /\ f.scan.attempt = jobs[f.key].attempts
      BY <1>1, <1>5 DEF IInv, Fenced, Carried, CarriesOwn, Leased, KnowsRow
    <3>2. jobs'[f.key].status # "running" /\ jobs[f.key].attempts \in Nat
      BY <1>1, OrderNumbers DEF JobClosed, Outcome, IInv, Job
    <3> QED
      BY <1>1, <1>2, <3>1, <3>2 DEF RowNumbered
  <2> QED
    BY <1>2, <1>3, <2>1, <2>2 DEF IInv, Fenced, Numbered
<1> QED
  BY <1>4, <1>5

(* Two executions of one schedule version cannot both complete a job while  *)
(* the first one may still be sent: the second occurrence is not due yet.   *)
LEMMA CompletedResendable ==
  ASSUME IInv, NEW f \in finishing, Completed(f), UNCHANGED <<now, scanning>>,
         finishing' \subseteq finishing
  PROVE  Resendable'
<1> DEFINE s == f.key.site
<1>1. /\ f.key \in JobKey /\ s \in Sites /\ f.token \in Tokens /\ f.ok \in BOOLEAN
      /\ JobClosed(f, Outcome(f)) /\ HoldsLease(f)
  BY DEF IInv, Typed, TypeOK, Finishing, JobKey, Completed
<1>2. Stamp(f) \in {f.token, NoToken}
  BY DEF Stamp
<1>3. \A x \in scanning \cup finishing : x.key \in JobKey /\ x.token \in Tokens
  BY DEF IInv, Typed, TypeOK, Scanning, Finishing
<1>4. \A e \in scanning : jobs'[e.key].stamp # e.token
  <2> SUFFICES ASSUME NEW e \in scanning PROVE jobs'[e.key].stamp # e.token
    OBVIOUS
  <2>1. CASE e.key = f.key
    BY <1>1, <1>2, <1>3, <2>1, PolicyAssumption DEF JobClosed, IInv, Fenced, Leased
  <2>2. CASE e.key # f.key
    BY <1>1, <1>3, <2>2 DEF JobClosed, IInv, Fenced, Resendable
  <2> QED
    BY <2>1, <2>2
<1>5. ASSUME NEW g \in finishing, Applied(g)', now < g.at + ResendWindow
      PROVE  Effective(g)'
  <2>1. CASE g.key = f.key
    <3>1. g = f
      <4>1. g.token = f.token
        BY <1>1, <1>2, <1>3, <1>5, <2>1, PolicyAssumption DEF Applied, JobClosed
      <4> QED
        BY <4>1 DEF IInv, Fenced, Leased
    <3>2. f.scan # NoScan =>
            \E row \in scans' : ScanId(row) = ScanId(f.scan) /\ row.at = f.at
      BY CompletedScan DEF IInv, Fenced, Carried, CarriesOwn
    <3>3. ASSUME sites'[s].version = f.key.version, Outcome(f) \in TerminalStatuses
          PROVE  Settled(f)'
      <4>1. SiteRow(f, sites'[s]) /\ Outcome(f) # "retry"
        BY <3>3 DEF Completed, SiteRow, TerminalStatuses
      <4>2. jobs'[f.key].base = jobs[f.key].base /\ jobs[f.key].base \in Nat
        BY <1>1, OrderNumbers DEF JobClosed, IInv, Job
      <4>3. sites[s].streak \in Nat
        BY <1>1, OrderNumbers DEF IInv, Site
      <4> QED
        BY <4>1, <4>2, <4>3 DEF SiteRow, Settled, NextDue, Larger
    <3> QED
      BY <3>1, <3>2, <3>3 DEF Effective, Outcome, IsDead
  <2>2. CASE g.key # f.key
    <3>1. jobs'[g.key] = jobs[g.key]
      BY <1>1, <1>3, <2>2 DEF JobClosed
    <3>2. Applied(g) /\ Effective(g)
      BY <1>5, <3>1 DEF IInv, Fenced, Resendable, Applied, Outcome, IsDead
    <3>3. ASSUME sites'[g.key.site].version = g.key.version,
                 Outcome(g) \in TerminalStatuses
          PROVE  SiteKept(g.key.site)
      <4>1. g.key.site \in Sites
        BY <1>3 DEF JobKey
      <4>2. CASE g.key.site # s \/ sites[s].version # f.key.version
                   \/ Outcome(f) = "retry"
        BY <4>1, <4>2 DEF Completed, SiteRow, SiteKept
      <4>3. CASE /\ g.key.site = s /\ sites[s].version = f.key.version
                 /\ Outcome(f) # "retry"
        <5>1. sites[s].version = g.key.version
          BY <3>3, <4>3 DEF Completed, SiteRow
        <5>2. sites[s].next = NextDue(g)
          BY <3>2, <3>3, <4>3, <5>1 DEF Effective, Settled
        <5>3. /\ JobOrdered(f.key) /\ f.key.due = sites[s].next
              /\ f.key.due <= f.at /\ f.at <= now
          BY <4>3, LeasedJobOrdered
          DEF JobOrdered, Completed, IInv, Ordered, ExecutionsOrdered, Fenced,
              Carried, CarriesOwn
        <5>4. f.at \in Nat /\ now \in Nat /\ ResendWindow \in Nat
          BY OrderNumbers, PolicyAssumption DEF IInv, Typed, TypeOK, Finishing
        <5>5. FALSE
          BY <1>5, <5>2, <5>3, <5>4, NextDueLater DEF IInv
        <5> QED
          BY <5>5
      <4> QED
        BY <4>2, <4>3
    <3>4. scans \subseteq scans'
      BY CompletedScan
    <3> QED
      BY <3>1, <3>2, <3>3, <3>4, EffectiveKept
  <2> QED
    BY <2>1, <2>2
<1> QED
  BY <1>4, <1>5 DEF Resendable

LEMMA FinishFenced ==
  ASSUME Precise, IInv, NEW f \in finishing, Finish(f)
  PROVE  Fenced'
<1>1. UNCHANGED <<now, scanning>> /\ finishing' \subseteq finishing
  BY FinishWrites DEF IInv
<1>2. Carried'
  BY <1>1, CarriedKept, OrderNumbers DEF IInv
<1>3. CASE UNCHANGED <<sites, jobs, scans>> \/ Resent(f)
  <2>1. UNCHANGED <<jobs, scans>> /\ \A s \in Sites : SiteKept(s)
    BY <1>3 DEF Resent, SiteKept
  <2>2. Leased'
    BY <1>1, <2>1, LeasedKept DEF HoldsLease
  <2>3. Numbered'
    BY <2>1 DEF IInv, Fenced, Numbered, RowNumbered
  <2>4. ASSUME NEW g \in finishing, Applied(g)', now < g.at + ResendWindow
        PROVE  Effective(g)'
    <3>1. Effective(g)
      BY <2>1, <2>4 DEF IInv, Fenced, Resendable, Applied, Outcome, IsDead
    <3>2. g.key.site \in Sites
      BY DEF IInv, Typed, TypeOK, Finishing, JobKey
    <3> QED
      BY <2>1, <3>1, <3>2, EffectiveKept
  <2>5. Resendable'
    BY <1>1, <2>1, <2>4 DEF IInv, Fenced, Resendable
  <2> QED
    BY <1>2, <2>2, <2>3, <2>5 DEF Fenced
<1>4. CASE Completed(f)
  BY <1>1, <1>2, <1>4, CompletedLeased, CompletedNumbered, CompletedResendable
  DEF Fenced
<1> QED
  BY <1>3, <1>4, FinishCompletes

(* Maintenance drops only leases, and rows too old to be sent again.        *)
LEMMA PerformMaintenanceFenced == IInv /\ PerformMaintenance => Fenced'
<1> SUFFICES ASSUME IInv, PerformMaintenance PROVE Fenced'
  OBVIOUS
<1> DEFINE remaining == {row \in scans : ~PrunableScan(row)}
<1>1. UNCHANGED <<now, sites, dispatches, scanning, finishing>>
  BY DEF PerformMaintenance
<1>2. ASSUME NEW k \in JobKey
      PROVE  \/ /\ Superseded(k) /\ jobs'[k].status = "dead"
                /\ jobs'[k].stamp = NoToken /\ jobs'[k].attempts = jobs[k].attempts
             \/ /\ PrunableJob(k, remaining) /\ jobs'[k] = NoJob
             \/ jobs'[k] = jobs[k]
  <2>1. jobs[k] \in Job
    BY DEF IInv, Typed, TypeOK
  <2> QED
    BY <2>1 DEF PerformMaintenance, Job
<1>3. scans' = {Released(row, remaining) : row \in remaining}
  BY DEF PerformMaintenance
<1>4. ASSUME NEW row \in scans
      PROVE  LET new == Released(row, remaining) IN
             /\ new.job = row.job /\ new.attempt = row.attempt /\ new.at = row.at
             /\ ScanId(new) = ScanId(row)
  <2>1. row \in Scan
    BY DEF IInv, Typed, TypeOK
  <2> QED
    BY <2>1 DEF Released, Scan, ScanId
<1> HIDE DEF remaining
<1>5. Leased'
  <2>1. \A x \in scanning \cup finishing : x.key \in JobKey
    BY DEF IInv, Typed, TypeOK, Scanning, Finishing
  <2>2. ASSUME NEW x \in scanning \cup finishing, HoldsLease(x)'
        PROVE  jobs'[x.key] = jobs[x.key]
    BY <1>2, <2>1, <2>2 DEF HoldsLease, NoJob
  <2> QED
    BY <1>1, <2>2, LeasedKept DEF HoldsLease
<1>6. Numbered'
  <2>1. ASSUME NEW k \in JobKey, jobs'[k].status = "absent"
        PROVE  jobs'[k].attempts = 0
    BY <1>2, <2>1 DEF NoJob, IInv, Fenced, Numbered
  <2>2. ASSUME NEW new \in scans'
        PROVE  RowNumbered(new)'
    <3>0. PICK row \in remaining : new = Released(row, remaining)
      BY <1>3
    <3>1. row \in scans /\ row.job \in JobKey /\ RowNumbered(row)
      BY DEF remaining, IInv, Typed, TypeOK, Scan, Fenced, Numbered
    <3>2. ~PrunableJob(row.job, remaining)
      BY DEF PrunableJob
    <3>3. /\ row.attempt <= jobs'[row.job].attempts
          /\ jobs'[row.job].status = "running" => row.attempt < jobs'[row.job].attempts
      BY <1>2, <3>1, <3>2 DEF RowNumbered
    <3>4. new.job = row.job /\ new.attempt = row.attempt
      BY <1>4, <3>0, <3>1
    <3> QED
      BY <3>3, <3>4 DEF RowNumbered
  <2>3. ASSUME NEW a \in remaining, NEW b \in remaining,
               ScanId(Released(a, remaining)) = ScanId(Released(b, remaining))
        PROVE  a = b
    <3>1. a \in scans /\ b \in scans
      BY <2>3 DEF remaining
    <3> QED
      BY <1>4, <2>3, <3>1 DEF IInv, Fenced, Numbered
  <2> QED
    BY <1>3, <2>1, <2>2, <2>3 DEF Numbered
<1>7. Carried'
  BY <1>1, CarriedKept, OrderNumbers DEF IInv
<1>8. ASSUME NEW f \in finishing, Applied(f)', now < f.at + ResendWindow
      PROVE  Effective(f)'
  <2>1. f.key \in JobKey /\ f.token \in Tokens /\ f.at \in Nat
    BY DEF IInv, Typed, TypeOK, Finishing
  <2>2. jobs'[f.key] = jobs[f.key]
    BY <1>2, <1>8, <2>1, PolicyAssumption DEF Applied, NoJob
  <2>3. Effective(f)
    BY <1>8, <2>2 DEF IInv, Fenced, Resendable, Applied, Outcome, IsDead
  <2>4. ASSUME NEW row \in scans, ScanId(row) = ScanId(f.scan), row.at = f.at
        PROVE  \E new \in scans' : ScanId(new) = ScanId(row) /\ new.at = row.at
    <3>1. now \in Nat /\ ScanRetention \in Nat /\ ResendWindow \in 0..ScanRetention
      BY OrderNumbers, PolicyAssumption DEF IInv
    <3>2. ~PrunableScan(row)
      BY <1>8, <2>1, <2>4, <3>1 DEF PrunableScan
    <3>3. row \in remaining
      BY <3>2 DEF remaining
    <3> QED
      BY <1>3, <1>4, <3>3
  <2> QED
    BY <1>1, <2>2, <2>3, <2>4, EffectiveKept DEF SiteKept
<1>9. Resendable'
  <2>1. ASSUME NEW e \in scanning
        PROVE  jobs'[e.key].stamp # e.token
    <3>1. e.key \in JobKey /\ e.token \in Tokens
      BY DEF IInv, Typed, TypeOK, Scanning
    <3> QED
      BY <1>2, <3>1, PolicyAssumption DEF NoJob, IInv, Fenced, Resendable
  <2> QED
    BY <1>1, <1>8, <2>1 DEF Resendable
<1> QED
  BY <1>5, <1>6, <1>7, <1>9 DEF Fenced

(* A later clock and a lost process only leave less to be sent.             *)
LEMMA IdleFenced ==
  ASSUME IInv, UNCHANGED <<sites, jobs, scans>>, now' \in Nat, now' >= now,
         scanning' \subseteq scanning, finishing' \subseteq finishing
  PROVE  Fenced'
<1>1. Leased'
  BY LeasedKept DEF HoldsLease
<1>2. Numbered'
  BY DEF IInv, Fenced, Numbered, RowNumbered
<1>3. Carried'
  BY CarriedKept
<1>4. ASSUME NEW f \in finishing, Applied(f)', now' < f.at + ResendWindow
      PROVE  Effective(f)'
  <2>1. now < f.at + ResendWindow
    BY <1>4, OrderNumbers, PolicyAssumption DEF IInv, Typed, TypeOK, Finishing
  <2>2. Effective(f)
    BY <1>4, <2>1 DEF IInv, Fenced, Resendable, Applied, Outcome, IsDead
  <2> QED
    BY <2>2, EffectiveKept DEF SiteKept
<1>5. Resendable'
  BY <1>4 DEF IInv, Fenced, Resendable
<1> QED
  BY <1>1, <1>2, <1>3, <1>5 DEF Fenced

LEMMA NextFenced ==
  ASSUME Precise, IInv, [Next]_vars
  PROVE  Fenced'
<1>1. CASE Registration
  BY <1>1, RegistrationFenced
<1>2. CASE Scheduling
  BY <1>2, ClaimDueSiteFenced, EnsureJobFenced, PerformMaintenanceFenced
  DEF Scheduling
<1>3. CASE Execution
  BY <1>3, ClaimJobFenced, RenewJobLeaseFenced, EndScanFenced, FinishFenced
  DEF Execution
<1>4. now \in Nat
  BY OrderNumbers DEF IInv
<1>5. CASE Crash
  <2>1. /\ UNCHANGED <<now, sites, jobs, scans>>
        /\ scanning' \subseteq scanning /\ finishing' \subseteq finishing
    BY <1>5 DEF Crash
  <2> QED
    BY <1>4, <2>1, IdleFenced
<1>6. CASE Tick
  <2>1. /\ UNCHANGED <<sites, jobs, scans, scanning, finishing>>
        /\ now' \in Nat /\ now' >= now
    BY <1>4, <1>6 DEF Tick
  <2> QED
    BY <2>1, IdleFenced
<1>7. CASE UNCHANGED vars
  <2>1. /\ UNCHANGED <<sites, jobs, scans, scanning, finishing>>
        /\ now' \in Nat /\ now' >= now
    BY <1>4, <1>7 DEF vars
  <2> QED
    BY <2>1, IdleFenced
<1> QED
  BY <1>1, <1>2, <1>3, <1>5, <1>6, <1>7 DEF Next

LEMMA OccurrencesOrdered ==
  ASSUME Precise
  PROVE  Spec => []IInv
<1>1. Init => IInv
  BY InitTyped, InitOrdered, InitFenced DEF IInv
<1>2. IInv /\ [Next]_vars => IInv'
  BY NextTyped, NextOrdered, NextFenced DEF IInv
<1> QED
  BY <1>1, <1>2, PTL DEF Spec

(***************************************************************************)
(* No site is wedged: the job of the occurrence an active site waits for   *)
(* is never closed, so ensure_job and claim_jobs can still serve it.       *)
(***************************************************************************)
THEOREM NoSiteWedged ==
  ASSUME Precise
  PROVE  Spec => []CurrentOccurrenceOpen
<1>1. IInv => CurrentOccurrenceOpen
  <2> SUFFICES ASSUME IInv, NEW k \in JobKey, Current(k),
                      jobs[k].status \in TerminalStatuses
               PROVE  FALSE
    BY DEF CurrentOccurrenceOpen
  <2>1. JobOrdered(k)
    BY DEF IInv, Ordered, JobsOrdered, TerminalStatuses
  <2> QED
    BY <2>1, OrderNumbers DEF JobOrdered, Current, IInv
<1> QED
  BY <1>1, OccurrencesOrdered, PTL

-----------------------------------------------------------------------------
(* What a step may do to the schedule of a site.                            *)

ScheduleOf(s) ==
  [status |-> sites[s].status, version |-> sites[s].version,
   next |-> sites[s].next, streak |-> sites[s].streak]

Rescheduled(s) ==
  \/ /\ sites[s].status = "absent" /\ sites'[s].status = "active"
     /\ sites'[s].version = sites[s].version /\ sites'[s].streak = sites[s].streak
  \/ /\ sites[s].status # "absent" /\ sites'[s].status \in {"active", "paused"}
     /\ sites'[s].version = sites[s].version + 1
     /\ sites'[s].streak = sites[s].streak

(* Serving the occurrence a site waits for closes the running job of        *)
(* exactly this occurrence.                                                 *)
Served(s) ==
  /\ sites[s].status = "active" /\ sites'[s].status = "active"
  /\ sites'[s].version = sites[s].version
  /\ sites'[s].next > sites[s].next
  /\ sites'[s].streak \in {0, sites[s].streak + 1}
  /\ \E k \in JobKey : /\ k.site = s /\ Current(k)
                       /\ jobs[k].status = "running"
                       /\ jobs'[k].status \in TerminalStatuses

LEMMA RegistrationReschedules ==
  ASSUME IInv, Registration
  PROVE  \E s \in Sites : /\ Rescheduled(s)
                          /\ \A r \in Sites : r # s => sites'[r] = sites[r]
<1> PICK s \in Sites : /\ \A r \in Sites : r # s => sites'[r] = sites[r]
                       /\ Registers(s) \/ Bumped(s)
  BY RegistrationChanges DEF IInv
<1>1. Rescheduled(s)
  BY OrderNumbers DEF IInv, Registers, Bumped, Rescheduled, Site
<1> QED
  BY <1>1

LEMMA FinishServes ==
  ASSUME Precise, IInv, NEW f \in finishing, Finish(f)
  PROVE  \/ \A s \in Sites : ScheduleOf(s)' = ScheduleOf(s)
         \/ \E s \in Sites : /\ Served(s)
                             /\ \A r \in Sites : r # s => sites'[r] = sites[r]
<1> DEFINE s == f.key.site
<1>1. CASE sites' = sites \/ Resent(f)
  BY <1>1 DEF Resent, SiteKept, ScheduleOf
<1>2. CASE Completed(f) /\ sites' # sites
  <2>1. /\ f.key \in JobKey /\ s \in Sites /\ HoldsLease(f)
        /\ sites[s].version = f.key.version
        /\ \A r \in Sites : r # s => sites'[r] = sites[r]
        /\ SiteRow(f, sites'[s]) /\ JobClosed(f, Outcome(f))
    BY <1>2 DEF Completed, IInv, Typed, TypeOK, Finishing, JobKey
  <2>2. JobOrdered(f.key) /\ jobs[f.key].status = "running"
    BY <2>1, LeasedJobOrdered DEF HoldsLease
  <2>3. /\ sites[s].next = f.key.due /\ sites[s].status = "active"
        /\ jobs[f.key].base = sites[s].streak /\ Current(f.key)
    BY <2>1, <2>2 DEF JobOrdered, OpenStatuses, Current
  <2>4. CASE Outcome(f) # "retry"
    <3>1. f.at \in Nat /\ f.key.due \in Nat /\ f.key.due <= f.at
      BY <2>1, OrderNumbers
      DEF IInv, Typed, TypeOK, Finishing, Ordered, ExecutionsOrdered
    <3>2. sites'[s].next > sites[s].next
      BY <2>1, <2>3, <2>4, <3>1, NextDueLater DEF SiteRow, IInv
    <3>3. sites[s].streak \in Nat
      BY <2>1, OrderNumbers DEF IInv, Site
    <3>4. sites'[s].streak \in {0, sites[s].streak + 1}
      BY <2>1, <2>3, <2>4, <3>3 DEF SiteRow, Larger
    <3>5. jobs'[f.key].status \in TerminalStatuses
      BY <2>1, <2>4 DEF JobClosed, Outcome, TerminalStatuses
    <3>6. Served(s)
      BY <2>1, <2>2, <2>3, <3>2, <3>4, <3>5 DEF Served, SiteRow
    <3> QED
      BY <2>1, <3>6
  <2>5. CASE Outcome(f) = "retry"
    <3>1. \A r \in Sites : ScheduleOf(r)' = ScheduleOf(r)
      BY <2>1, <2>5 DEF SiteRow, ScheduleOf
    <3> QED
      BY <3>1
  <2> QED
    BY <2>4, <2>5
<1> QED
  BY <1>1, <1>2, FinishCompletes

(* Every step keeps all schedules, or reschedules or serves one site.       *)
LEMMA StepSchedules ==
  ASSUME Precise, IInv, [Next]_vars
  PROVE  \/ \A s \in Sites : ScheduleOf(s)' = ScheduleOf(s)
         \/ \E s \in Sites : /\ Rescheduled(s) \/ Served(s)
                             /\ \A r \in Sites : r # s => sites'[r] = sites[r]
<1>1. CASE Registration
  BY <1>1, RegistrationReschedules
<1>2. ASSUME NEW s \in Sites, ClaimDueSite(s)
      PROVE  \A r \in Sites : ScheduleOf(r)' = ScheduleOf(r)
  <2>1. sites \in [Sites -> Site]
    BY DEF IInv, Typed, TypeOK
  <2>2. \A r \in Sites : /\ sites'[r].version = sites[r].version
                         /\ sites'[r].status = sites[r].status
                         /\ sites'[r].next = sites[r].next
                         /\ sites'[r].streak = sites[r].streak
    BY <1>2, <2>1 DEF ClaimDueSite, Site
  <2> QED
    BY <2>2 DEF ScheduleOf
<1>3. ASSUME sites' = sites
      PROVE  \A r \in Sites : ScheduleOf(r)' = ScheduleOf(r)
  BY <1>3 DEF ScheduleOf
<1>4. CASE Scheduling
  BY <1>2, <1>3, <1>4 DEF Scheduling, EnsureJob, PerformMaintenance
<1>5. CASE Execution
  <2>1. CASE \E f \in finishing : Finish(f)
    BY <2>1, FinishServes
  <2>2. CASE ~\E f \in finishing : Finish(f)
    <3>1. sites' = sites
      BY <1>5, <2>2
      DEF Execution, ClaimJob, RenewJobLease, EndScan, ScanRaises, ScanReturns,
          Conclude, ContextReadRaises
    <3> QED
      BY <1>3, <3>1
  <2> QED
    BY <2>1, <2>2
<1>6. CASE Crash \/ Tick \/ UNCHANGED vars
  BY <1>3, <1>6 DEF Crash, Tick, vars
<1> QED
  BY <1>1, <1>4, <1>5, <1>6 DEF Next

(* The schedule of a site, and what equality of two schedules comes to.     *)
Schedules ==
  [status : {"absent", "active", "paused"}, version : Nat, next : Nat,
   streak : Nat]

LEMMA ScheduleTyped ==
  ASSUME Typed, NEW s \in Sites
  PROVE  ScheduleOf(s) \in Schedules
  BY PolicyAssumption DEF Typed, TypeOK, Site, ScheduleOf, Schedules

LEMMA StatusAndDue ==
  ASSUME NEW old \in Schedules, NEW new \in Schedules,
         new.version = old.version, new.streak = old.streak
  PROVE  new = [old EXCEPT !.status = new.status, !.next = new.next]
  BY DEF Schedules

LEMMA VersionDueAndStatus ==
  ASSUME NEW old \in Schedules, NEW new \in Schedules,
         new.version = old.version + 1, new.streak = old.streak
  PROVE  new = [old EXCEPT !.version = @ + 1, !.next = new.next,
                           !.status = new.status]
  BY DEF Schedules

LEMMA DueAndReset ==
  ASSUME NEW old \in Schedules, NEW new \in Schedules,
         new.status = old.status, new.version = old.version, new.streak = 0
  PROVE  new = [old EXCEPT !.next = new.next, !.streak = 0]
  BY DEF Schedules

LEMMA DueAndStreak ==
  ASSUME NEW old \in Schedules, NEW new \in Schedules,
         new.status = old.status, new.version = old.version,
         new.streak = old.streak + 1
  PROVE  new = [old EXCEPT !.next = new.next, !.streak = @ + 1]
  BY DEF Schedules

(***************************************************************************)
(* A job of an old schedule version never advances the present schedule:   *)
(* next_check_at and the streak move within a version only together with   *)
(* the completion of the running job of the occurrence waited for.         *)
(***************************************************************************)
THEOREM OldJobsAreInert ==
  ASSUME Precise
  PROVE  Spec => OldScheduleCannotAdvance
<1>1. IInv /\ [Next]_vars => [AdvanceOwned]_vars
  <2> SUFFICES ASSUME IInv, [Next]_vars, NEW s \in Sites,
                      sites[s].status # "absent",
                      sites'[s].version = sites[s].version,
                      <<sites'[s].next, sites'[s].streak>>
                        # <<sites[s].next, sites[s].streak>>
               PROVE  \E k \in JobKey : /\ k.site = s /\ Current(k)
                                        /\ jobs[k].status = "running"
                                        /\ jobs'[k].status \in TerminalStatuses
    BY DEF AdvanceOwned
  <2>1. ScheduleOf(s)' # ScheduleOf(s) /\ sites'[s] # sites[s]
    BY DEF ScheduleOf
  <2>2. Rescheduled(s) \/ Served(s)
    BY <2>1, StepSchedules
  <2>3. ~Rescheduled(s)
    BY OrderNumbers DEF Rescheduled, IInv
  <2> QED
    BY <2>2, <2>3 DEF Served
<1> QED
  BY <1>1, OccurrencesOrdered, PTL DEF Spec, OldScheduleCannotAdvance

(***************************************************************************)
(* The scheduler implements SiteSchedule: whatever happens to processes,   *)
(* leases and messages, each site is served one occurrence at a time, at   *)
(* most once each, and its error streak counts the occurrences given up.   *)
(***************************************************************************)
THEOREM SchedulerImplementsSchedule ==
  ASSUME Precise
  PROVE  Spec => ImplementsSchedule
<1>1. Init => Schedule!Init
  BY DEF Init, Schedule!Init, SiteSchedules, Unregistered
<1>2. IInv /\ [Next]_vars => [Schedule!Next]_SiteSchedules
  <2> SUFFICES ASSUME IInv, [Next]_vars
               PROVE  Schedule!Next \/ SiteSchedules' = SiteSchedules
    OBVIOUS
  <2>1. CASE \A s \in Sites : ScheduleOf(s)' = ScheduleOf(s)
    BY <2>1 DEF SiteSchedules, ScheduleOf
  <2>2. ASSUME NEW s \in Sites, Rescheduled(s) \/ Served(s),
               \A r \in Sites : r # s => sites'[r] = sites[r]
        PROVE  Schedule!Next
    <3>0. ScheduleOf(s) \in Schedules /\ ScheduleOf(s)' \in Schedules
      <4>1. Typed'
        BY NextTyped DEF IInv
      <4>2. ScheduleOf(s)' \in Schedules
        BY <4>1, PolicyAssumption DEF Typed, TypeOK, Site, ScheduleOf, Schedules
      <4> QED
        BY <4>2, ScheduleTyped DEF IInv
    <3>1. SiteSchedules' = [SiteSchedules EXCEPT ![s] = SiteSchedules'[s]]
      BY <2>2 DEF SiteSchedules
    <3>2. /\ SiteSchedules[s] = ScheduleOf(s) /\ SiteSchedules'[s] = ScheduleOf(s)'
      BY DEF SiteSchedules, ScheduleOf
    <3>3. CASE Rescheduled(s)
      <4>1. CASE /\ sites[s].status = "absent" /\ sites'[s].status = "active"
                 /\ sites'[s].version = sites[s].version
                 /\ sites'[s].streak = sites[s].streak
        <5>1. ScheduleOf(s)' = [ScheduleOf(s) EXCEPT !.status = "active",
                                                     !.next = ScheduleOf(s)'.next]
          <6>1. /\ ScheduleOf(s)'.status = "active"
                /\ ScheduleOf(s)'.version = ScheduleOf(s).version
                /\ ScheduleOf(s)'.streak = ScheduleOf(s).streak
            BY <4>1 DEF ScheduleOf
          <6> QED
            BY <3>0, <6>1, StatusAndDue
        <5>2. ScheduleOf(s).status = "absent"
          BY <4>1 DEF ScheduleOf
        <5>3. Schedule!Register(s)
          BY <3>1, <3>2, <5>1, <5>2 DEF Schedule!Register, Schedule!Due
        <5> QED
          BY <5>3 DEF Schedule!Next
      <4>2. CASE /\ sites[s].status # "absent"
                 /\ sites'[s].status \in {"active", "paused"}
                 /\ sites'[s].version = sites[s].version + 1
                 /\ sites'[s].streak = sites[s].streak
        <5>1. ScheduleOf(s)' = [ScheduleOf(s) EXCEPT !.version = @ + 1,
                                  !.next = ScheduleOf(s)'.next,
                                  !.status = ScheduleOf(s)'.status]
          <6>1. /\ ScheduleOf(s)'.version = ScheduleOf(s).version + 1
                /\ ScheduleOf(s)'.streak = ScheduleOf(s).streak
            BY <4>2 DEF ScheduleOf
          <6> QED
            BY <3>0, <6>1, VersionDueAndStatus
        <5>2. /\ ScheduleOf(s).status # "absent"
              /\ ScheduleOf(s)'.status \in {"active", "paused"}
          BY <4>2 DEF ScheduleOf
        <5>3. Schedule!Reschedule(s)
          BY <3>1, <3>2, <5>1, <5>2 DEF Schedule!Reschedule, Schedule!Due
        <5> QED
          BY <5>3 DEF Schedule!Next
      <4> QED
        BY <3>3, <4>1, <4>2 DEF Rescheduled
    <3>4. CASE Served(s)
      <4>1. /\ ScheduleOf(s).status = "active"
            /\ ScheduleOf(s)'.next > ScheduleOf(s).next
        BY <3>4 DEF Served, ScheduleOf
      <4>2. CASE sites'[s].streak = 0
        <5>1. ScheduleOf(s)' = [ScheduleOf(s) EXCEPT !.next = ScheduleOf(s)'.next,
                                                     !.streak = 0]
          <6>1. /\ ScheduleOf(s)'.status = ScheduleOf(s).status
                /\ ScheduleOf(s)'.version = ScheduleOf(s).version
                /\ ScheduleOf(s)'.streak = 0
            BY <3>4, <4>2 DEF Served, ScheduleOf
          <6> QED
            BY <3>0, <6>1, DueAndReset
        <5>2. Schedule!Serve(s)
          BY <3>1, <3>2, <4>1, <5>1 DEF Schedule!Serve, Schedule!Due
        <5> QED
          BY <5>2 DEF Schedule!Next
      <4>3. CASE sites'[s].streak = sites[s].streak + 1
        <5>1. ScheduleOf(s)' = [ScheduleOf(s) EXCEPT !.next = ScheduleOf(s)'.next,
                                                     !.streak = @ + 1]
          <6>1. /\ ScheduleOf(s)'.status = ScheduleOf(s).status
                /\ ScheduleOf(s)'.version = ScheduleOf(s).version
                /\ ScheduleOf(s)'.streak = ScheduleOf(s).streak + 1
            BY <3>4, <4>3 DEF Served, ScheduleOf
          <6> QED
            BY <3>0, <6>1, DueAndStreak
        <5>2. Schedule!GiveUp(s)
          BY <3>1, <3>2, <4>1, <5>1 DEF Schedule!GiveUp, Schedule!Due
        <5> QED
          BY <5>2 DEF Schedule!Next
      <4> QED
        BY <3>4, <4>2, <4>3 DEF Served
    <3> QED
      BY <2>2, <3>3, <3>4
  <2> QED
    BY <2>1, <2>2, StepSchedules
<1> QED
  BY <1>1, <1>2, OccurrencesOrdered, PTL DEF Spec, ImplementsSchedule, Schedule!Spec
-----------------------------------------------------------------------------
(***************************************************************************)
(* The semantic baseline.  An execution reads the baseline in one statement *)
(* and may replace it in a later one: as long as it holds its lease, the   *)
(* baseline is still the row it was judged against, and what confirmed a   *)
(* different resource set is still there.                                  *)
(***************************************************************************)
Confirmed(s, family) ==
  \E old \in scans :
    /\ ScanId(old) = sites[s].baseline
    /\ \/ family = old.family
       \/ \E seen \in scans : /\ seen.job.site = s /\ ScanId(seen) # ScanId(old)
                              /\ seen.family = family /\ seen.status \in Changed

JudgedByCurrent(f) ==
  /\ ReferencesKept(f.scan)
  /\ sites[f.key.site].version = f.key.version =>
       /\ f.scan.base = sites[f.key.site].baseline
       /\ f.scan.promote /\ f.scan.base # NoScan =>
            Confirmed(f.key.site, f.scan.family)

Judged ==
  \A f \in finishing : HoldsLease(f) /\ f.scan # NoScan => JudgedByCurrent(f)

Baselined == BaselineSound /\ Judged

(* The next state has the row, but for a reference to a pruned one.         *)
Persists(row) ==
  \E new \in scans' :
    /\ ScanId(new) = ScanId(row) /\ new.job = row.job /\ new.family = row.family
    /\ new.status = row.status /\ new.promote = row.promote

LEMMA ConfirmedKept ==
  ASSUME NEW s, NEW family, Confirmed(s, family),
         sites'[s].baseline = sites[s].baseline,
         \A row \in scans :
           ScanId(row) = sites[s].baseline \/ row.status \in Changed => Persists(row)
  PROVE  Confirmed(s, family)'
<1>1. PICK old \in scans :
        /\ ScanId(old) = sites[s].baseline
        /\ \/ family = old.family
           \/ \E seen \in scans : /\ seen.job.site = s /\ ScanId(seen) # ScanId(old)
                                  /\ seen.family = family /\ seen.status \in Changed
  BY DEF Confirmed
<1>2. PICK new \in scans' : ScanId(new) = ScanId(old) /\ new.family = old.family
  BY <1>1 DEF Persists
<1>3. CASE family = old.family
  BY <1>1, <1>2, <1>3 DEF Confirmed
<1>4. CASE family # old.family
  <2>1. PICK seen \in scans : /\ seen.job.site = s /\ ScanId(seen) # ScanId(old)
                              /\ seen.family = family /\ seen.status \in Changed
    BY <1>1, <1>4
  <2>2. PICK kept \in scans' : /\ ScanId(kept) = ScanId(seen) /\ kept.job = seen.job
                               /\ kept.family = seen.family /\ kept.status = seen.status
    BY <2>1 DEF Persists
  <2> QED
    BY <1>1, <1>2, <2>1, <2>2 DEF Confirmed
<1> QED
  BY <1>3, <1>4

LEMMA BaselinedKept ==
  ASSUME IInv, Baselined, finishing' \subseteq finishing,
         \A s \in Sites : sites'[s].baseline = sites[s].baseline,
         \A row \in scans :
           \/ \E s \in Sites : sites[s].baseline = ScanId(row)
           \/ row.status \in Changed
           => Persists(row),
         \A f \in finishing : HoldsLease(f)' /\ f.scan # NoScan =>
           /\ HoldsLease(f) /\ ReferencesKept(f.scan)'
           /\ sites'[f.key.site].version = f.key.version =>
                sites[f.key.site].version = f.key.version
  PROVE  Baselined'
<1>1. BaselineSound'
  <2> SUFFICES ASSUME NEW s \in Sites, sites'[s].baseline # NoScan
               PROVE  \E row \in scans' :
                        /\ ScanId(row) = sites'[s].baseline
                        /\ row.job.site = s /\ row.promote /\ Complete(row)
    BY DEF BaselineSound
  <2>1. PICK row \in scans : /\ ScanId(row) = sites[s].baseline
                             /\ row.job.site = s /\ row.promote /\ Complete(row)
    BY DEF Baselined, BaselineSound
  <2>2. Persists(row)
    BY <2>1
  <2> QED
    BY <2>1, <2>2 DEF Persists, Complete
<1>2. ASSUME NEW f \in finishing, HoldsLease(f)', f.scan # NoScan
      PROVE  JudgedByCurrent(f)'
  <2>1. JudgedByCurrent(f) /\ ReferencesKept(f.scan)'
    BY <1>2 DEF Baselined, Judged
  <2>2. f.key.site \in Sites
    BY DEF IInv, Typed, TypeOK, Finishing, JobKey
  <2> QED
    BY <1>2, <2>1, <2>2, ConfirmedKept DEF JudgedByCurrent
<1>3. Judged'
  BY <1>2 DEF Judged
<1> QED
  BY <1>1, <1>3 DEF Baselined

(* Steps that leave the committed scans alone, and every baseline too.      *)
LEMMA BaselinedScansKept ==
  ASSUME IInv, Baselined, UNCHANGED scans, finishing' \subseteq finishing,
         \A s \in Sites : sites'[s].baseline = sites[s].baseline,
         \A f \in finishing : HoldsLease(f)' =>
           /\ HoldsLease(f)
           /\ sites'[f.key.site].version = f.key.version =>
                sites[f.key.site].version = f.key.version
  PROVE  Baselined'
<1>1. \A row \in scans : Persists(row)
  BY DEF Persists
<1>2. ASSUME NEW f \in finishing, HoldsLease(f)', f.scan # NoScan
      PROVE  ReferencesKept(f.scan)'
  BY <1>2 DEF Baselined, Judged, JudgedByCurrent, ReferencesKept
<1> QED
  BY <1>1, <1>2, BaselinedKept

LEMMA RegistrationBaselined ==
  ASSUME IInv, Baselined, Registration
  PROVE  Baselined'
<1>1. UNCHANGED <<now, jobs, scans, dispatches, scanning, finishing>>
  BY RegistrationChanges DEF IInv
<1> PICK s \in Sites : /\ \A r \in Sites : r # s => sites'[r] = sites[r]
                       /\ Registers(s) \/ Bumped(s)
  BY RegistrationChanges DEF IInv
<1>2. sites[s] \in Site
  BY OrderNumbers DEF IInv
<1>3. sites'[s].baseline = sites[s].baseline
  BY <1>2 DEF Registers, Bumped, Site
<1>4. ASSUME NEW f \in finishing, HoldsLease(f),
             sites'[f.key.site].version = f.key.version
      PROVE  sites[f.key.site].version = f.key.version
  <2>1. JobOrdered(f.key) /\ f.key \in JobKey /\ f.key.site \in Sites
    BY <1>4, LeasedJobOrdered, OrderNumbers DEF IInv
  <2>2. CASE f.key.site = s /\ Registers(s)
    BY <1>2, <1>4, <2>2 DEF Registers, Site
  <2>3. ~(f.key.site = s /\ Bumped(s))
    BY <1>4, <2>1, OrderNumbers DEF Bumped, JobOrdered, IInv
  <2> QED
    BY <1>4, <2>1, <2>2, <2>3
<1> QED
  BY <1>1, <1>3, <1>4, BaselinedScansKept DEF HoldsLease

LEMMA SchedulingBaselined ==
  ASSUME IInv, Baselined, NEW s, NEW d,
         \/ s \in Sites /\ ClaimDueSite(s)
         \/ d \in dispatches /\ EnsureJob(d)
  PROVE  Baselined'
<1>1. CASE s \in Sites /\ ClaimDueSite(s)
  <2>1. UNCHANGED <<jobs, scans, finishing>>
    BY <1>1 DEF ClaimDueSite
  <2>2. \A r \in Sites : /\ sites'[r].baseline = sites[r].baseline
                         /\ sites'[r].version = sites[r].version
    BY <1>1 DEF ClaimDueSite, IInv, Typed, TypeOK, Site
  <2>3. \A f \in finishing : f.key.site \in Sites
    BY DEF IInv, Typed, TypeOK, Finishing, JobKey
  <2> QED
    BY <2>1, <2>2, <2>3, BaselinedScansKept DEF HoldsLease
<1>2. CASE d \in dispatches /\ EnsureJob(d)
  <2>1. UNCHANGED <<sites, scans, finishing>>
    BY <1>2 DEF EnsureJob
  <2>2. ASSUME NEW f \in finishing, HoldsLease(f)'
        PROVE  HoldsLease(f)
    <3>1. f.key \in JobKey /\ d.key \in JobKey
      BY <1>2 DEF IInv, Typed, TypeOK, Finishing, Dispatch
    <3>2. jobs'[f.key] = jobs[f.key] \/ jobs'[f.key].status = "pending"
      BY <1>2, <3>1 DEF EnsureJob, NoJob, IInv, Typed, TypeOK
    <3> QED
      BY <2>2, <3>2 DEF HoldsLease
  <2> QED
    BY <2>1, <2>2, BaselinedScansKept
<1> QED
  BY <1>1, <1>2

LEMMA LeaseBaselined ==
  ASSUME IInv, Baselined, NEW k, NEW e,
         (k \in JobKey /\ ClaimJob(k)) \/ (e \in scanning /\ RenewJobLease(e))
  PROVE  Baselined'
<1>1. UNCHANGED <<sites, scans, finishing>>
  BY DEF ClaimJob, RenewJobLease
<1>2. ASSUME NEW f \in finishing, HoldsLease(f)'
      PROVE  HoldsLease(f)
  <2>1. f.key \in JobKey /\ jobs \in [JobKey -> Job]
    BY DEF IInv, Typed, TypeOK, Finishing
  <2>2. CASE k \in JobKey /\ ClaimJob(k)
    <3> DEFINE token == FreshOf(FreeJobTokens)
    <3>1. token # f.token
      BY <2>2, FreshInPool DEF ClaimJob, FreeJobTokens
    <3>2. jobs' = [jobs EXCEPT ![k] =
                     [jobs[k] EXCEPT !.status = "running", !.attempts = @ + 1,
                                     !.token = token, !.expires = now + JobLease,
                                     !.finished = 0, !.stamp = NoToken]]
      BY <2>2 DEF ClaimJob
    <3> HIDE DEF token
    <3>3. jobs'[k].token = token
      BY <2>1, <2>2, <3>2 DEF Job
    <3> QED
      BY <1>2, <2>1, <3>1, <3>2, <3>3 DEF HoldsLease
  <2>3. CASE e \in scanning /\ RenewJobLease(e)
    BY <1>2, <2>1, <2>3 DEF RenewJobLease, HoldsLease, Job
  <2> QED
    BY <2>2, <2>3
<1> QED
  BY <1>1, <1>2, BaselinedScansKept

LEMMA EndScanBaselined ==
  ASSUME IInv, Baselined, NEW e \in scanning, EndScan(e)
  PROVE  Baselined'
<1> DEFINE s == e.key.site
           before == BaselineRow(s)
<1>1. UNCHANGED <<now, sites, jobs, scans>>
  BY EndScanConcludes
<1>2. PICK f : /\ finishing' = finishing \cup {f} /\ f.key = e.key
               /\ \/ f.scan = NoScan
                  \/ \E obs \in Observations, previous \in PreviousRows(e.key.site) :
                       f.scan = ScanRow(e, obs, previous)
  BY EndScanConcludes
<1>3. BaselineSound'
  BY <1>1 DEF Baselined, BaselineSound
<1>4. ASSUME NEW g \in finishing, HoldsLease(g)', g.scan # NoScan
      PROVE  JudgedByCurrent(g)'
  BY <1>1, <1>4
  DEF HoldsLease, Baselined, Judged, JudgedByCurrent, ReferencesKept, Confirmed
<1>5. ASSUME f.scan # NoScan
      PROVE  JudgedByCurrent(f)'
  <2>1. PICK obs \in Observations, previous \in PreviousRows(s) :
          f.scan = ScanRow(e, obs, previous)
    BY <1>2, <1>5
  <2>2. /\ f.scan.base = IF before = NoScan THEN NoScan ELSE ScanId(before)
        /\ f.scan.family = obs.family
        /\ f.scan.promote = PromoteSemanticBaseline(obs, before, previous)
    BY <2>1 DEF ScanRow
  <2>3. s \in Sites
    BY DEF IInv, Typed, TypeOK, Scanning, JobKey
  <2>4. IF sites[s].baseline = NoScan THEN before = NoScan
        ELSE before \in scans /\ before # NoScan /\ ScanId(before) = sites[s].baseline
    <3>1. \A row \in scans : row # NoScan /\ ScanId(row) # NoScan
      BY ScanIdTyped, NoScanAssumption DEF IInv, Typed, TypeOK
    <3>2. sites[s].baseline # NoScan =>
            \E row \in scans : ScanId(row) = sites[s].baseline
      BY <2>3 DEF Baselined, BaselineSound
    <3> QED
      BY <3>1, <3>2 DEF BaselineRow, Row
  <2>5. f.scan.base = sites[s].baseline
    BY <2>2, <2>4
  <2>6. ReferencesKept(f.scan)
    BY <2>2, <2>4 DEF ReferencesKept
  <2>7. ASSUME f.scan.promote, f.scan.base # NoScan
        PROVE  Confirmed(s, f.scan.family)
    <3>1. before \in scans /\ before # NoScan /\ ScanId(before) = sites[s].baseline
      BY <2>2, <2>4, <2>7
    <3>2. CASE obs.family = before.family
      BY <2>2, <3>1, <3>2 DEF Confirmed
    <3>3. CASE obs.family # before.family
      <4>1. StableConfirmation(obs, before, previous)
            /\ ComparabilityStatus(obs, before) \in Changed
        BY <2>2, <2>7, <3>1, <3>3
        DEF PromoteSemanticBaseline, ComparabilityStatus, Changed
      <4>2. /\ previous \in scans /\ previous.job.site = s
            /\ ScanId(previous) # ScanId(before)
            /\ previous.status \in Changed /\ previous.family = obs.family
        BY <2>1, <4>1 DEF StableConfirmation, PreviousRows
      <4> QED
        BY <2>2, <3>1, <4>2 DEF Confirmed
    <3> QED
      BY <3>2, <3>3
  <2> QED
    BY <1>1, <1>2, <2>5, <2>6, <2>7
    DEF JudgedByCurrent, ReferencesKept, Confirmed
<1> QED
  BY <1>2, <1>3, <1>4, <1>5 DEF Baselined, Judged

(* Two executions that hold their leases under the present version of a     *)
(* site would run the same job, and one job has one lease.                  *)
LEMMA OneWriter ==
  ASSUME IInv, NEW f \in finishing, NEW g \in finishing, HoldsLease(f), HoldsLease(g),
         f.key.site = g.key.site, sites[f.key.site].version = f.key.version,
         sites[g.key.site].version = g.key.version
  PROVE  f.key = g.key
<1>1. /\ f.key \in JobKey /\ g.key \in JobKey
      /\ f.key.due = sites[f.key.site].next /\ g.key.due = sites[g.key.site].next
  BY LeasedJobOrdered DEF JobOrdered
<1> QED
  BY <1>1 DEF JobKey

LEMMA FinishBaselined ==
  ASSUME Precise, IInv, Baselined, NEW f \in finishing, Finish(f)
  PROVE  Baselined'
<1> DEFINE s == f.key.site
<1>1. finishing' \subseteq finishing
  BY FinishWrites DEF IInv
<1>2. CASE UNCHANGED <<sites, jobs, scans>> \/ Resent(f)
  <2>1. UNCHANGED <<jobs, scans>> /\ \A r \in Sites : SiteKept(r)
    BY <1>2 DEF Resent, SiteKept
  <2>2. \A g \in finishing : g.key.site \in Sites
    BY DEF IInv, Typed, TypeOK, Finishing, JobKey
  <2> QED
    BY <1>1, <2>1, <2>2, BaselinedScansKept DEF HoldsLease, SiteKept
<1>3. CASE Completed(f)
  <2>1. /\ HoldsLease(f) /\ f.key \in JobKey /\ s \in Sites
        /\ JobClosed(f, Outcome(f)) /\ scans \subseteq scans'
    BY <1>3, CompletedScan DEF Completed, IInv, Typed, TypeOK, Finishing, JobKey
  <2>2. \A g \in finishing : g.key \in JobKey /\ g.key.site \in Sites
    BY DEF IInv, Typed, TypeOK, Finishing, JobKey
  <2>3. \A r \in Sites :
          /\ sites'[r].version = sites[r].version
          /\ r # s => sites'[r].baseline = sites[r].baseline
    BY <1>3 DEF Completed, SiteRow
  <2>4. CASE sites'[s].baseline = sites[s].baseline
    <3>1. \A row \in scans : Persists(row)
      BY <2>1 DEF Persists
    <3>2. ASSUME NEW g \in finishing, HoldsLease(g)', g.scan # NoScan
          PROVE  HoldsLease(g) /\ ReferencesKept(g.scan)'
      <4>1. HoldsLease(g)
        BY <2>1, <2>2, <3>2 DEF HoldsLease, JobClosed, Outcome
      <4> QED
        BY <2>1, <3>2, <4>1 DEF Baselined, Judged, JudgedByCurrent, ReferencesKept
    <3> QED
      BY <1>1, <2>2, <2>3, <2>4, <3>1, <3>2, BaselinedKept
  <2>5. CASE sites'[s].baseline # sites[s].baseline
    <3>1. /\ f.ok /\ f.scan.promote /\ sites'[s].baseline = ScanId(f.scan)
          /\ sites[s].version = f.key.version
      BY <1>3, <2>5 DEF Completed, SiteRow
    <3>2. /\ f.scan \in Scan /\ f.scan # NoScan /\ f.scan \in scans'
          /\ f.scan.job = f.key /\ Complete(f.scan)
      <4>1. f.scan \in Scan /\ f.scan # NoScan
        BY <3>1, NoScanAssumption DEF IInv, Typed, ScanCarried
      <4> QED
        BY <1>3, <3>1, <4>1, CompletedScan DEF IInv, Fenced, Carried, CarriesOwn
    <3>3. BaselineSound'
      BY <2>1, <2>3, <3>1, <3>2 DEF Baselined, BaselineSound
    <3>4. ASSUME NEW g \in finishing, HoldsLease(g)', g.scan # NoScan
          PROVE  JudgedByCurrent(g)'
      <4>1. HoldsLease(g) /\ g.key # f.key
        BY <2>1, <2>2, <3>4 DEF HoldsLease, JobClosed, Outcome
      <4>2. JudgedByCurrent(g)
        BY <3>4, <4>1 DEF Baselined, Judged
      <4>3. ReferencesKept(g.scan)'
        BY <2>1, <4>2 DEF JudgedByCurrent, ReferencesKept
      <4>4. ASSUME sites'[g.key.site].version = g.key.version
            PROVE  g.key.site # s
        BY <2>1, <2>2, <2>3, <3>1, <4>1, <4>4, OneWriter
      <4>5. \A row \in scans : Persists(row)
        BY <2>1 DEF Persists
      <4> QED
        BY <2>2, <2>3, <4>2, <4>3, <4>4, <4>5, ConfirmedKept DEF JudgedByCurrent
    <3> QED
      BY <1>1, <3>3, <3>4 DEF Baselined, Judged
  <2> QED
    BY <2>4, <2>5
<1> QED
  BY <1>2, <1>3, FinishCompletes

(* Pruning spares baselines and rows that confirm a change, and a job whose *)
(* site has another version is closed in the same transaction.              *)
LEMMA PerformMaintenanceBaselined ==
  ASSUME IInv, Baselined, PerformMaintenance
  PROVE  Baselined'
<1> DEFINE remaining == {row \in scans : ~PrunableScan(row)}
<1>1. UNCHANGED <<now, sites, dispatches, scanning, finishing>>
  BY DEF PerformMaintenance
<1>2. scans' = {Released(row, remaining) : row \in remaining}
  BY DEF PerformMaintenance
<1>3. ASSUME NEW row \in scans,
             \/ \E s \in Sites : sites[s].baseline = ScanId(row)
             \/ row.status \in Changed
      PROVE  Persists(row)
  <2>1. row \in remaining /\ row \in Scan
    BY <1>3 DEF PrunableScan, IInv, Typed, TypeOK
  <2>2. Released(row, remaining) \in scans'
    BY <1>2, <2>1
  <2>3. PICK new : new = Released(row, remaining)
    OBVIOUS
  <2>4. /\ new.job = row.job /\ new.attempt = row.attempt /\ new.family = row.family
        /\ new.status = row.status /\ new.promote = row.promote
    BY <2>1, <2>3 DEF Released, Scan
  <2> QED
    BY <2>2, <2>3, <2>4 DEF Persists, ScanId
<1>4. ASSUME NEW f \in finishing, HoldsLease(f)', f.scan # NoScan
      PROVE  /\ HoldsLease(f) /\ ReferencesKept(f.scan)'
             /\ sites[f.key.site].version = f.key.version
  <2>1. f.key \in JobKey /\ f.key.site \in Sites /\ jobs[f.key] \in Job
    BY DEF IInv, Typed, TypeOK, Finishing, JobKey
  <2>2. jobs'[f.key] = jobs[f.key] /\ ~Superseded(f.key)
    BY <1>4, <2>1 DEF PerformMaintenance, HoldsLease, NoJob, Job
  <2>3. HoldsLease(f)
    BY <1>4, <2>2 DEF HoldsLease
  <2>4. sites[f.key.site].version = f.key.version
    BY <2>2, <2>3 DEF Superseded, HoldsLease, OpenStatuses
  <2>5. JudgedByCurrent(f)
    BY <1>4, <2>3 DEF Baselined, Judged
  <2>6. ReferencesKept(f.scan)'
    <3>1. CASE f.scan.base = NoScan
      BY <3>1 DEF ReferencesKept
    <3>2. CASE f.scan.base # NoScan
      <4>1. PICK old \in scans : ScanId(old) = f.scan.base
        BY <1>4, <2>5, <3>2 DEF JudgedByCurrent, ReferencesKept
      <4>2. Persists(old)
        BY <1>3, <2>1, <2>4, <2>5, <4>1 DEF JudgedByCurrent
      <4> QED
        BY <4>1, <4>2 DEF Persists, ReferencesKept
    <3> QED
      BY <3>1, <3>2
  <2> QED
    BY <2>3, <2>4, <2>6
<1> QED
  BY <1>1, <1>3, <1>4, BaselinedKept

LEMMA NextBaselined ==
  ASSUME Precise, IInv, Baselined, [Next]_vars
  PROVE  Baselined'
<1>1. CASE Registration
  BY <1>1, RegistrationBaselined
<1>2. CASE Scheduling
  BY <1>2, SchedulingBaselined, PerformMaintenanceBaselined DEF Scheduling
<1>3. ASSUME NEW e \in scanning, ContextReadRaises(e)
      PROVE  Baselined'
  <2>1. UNCHANGED <<sites, jobs, scans, finishing>>
    BY <1>3 DEF ContextReadRaises
  <2> QED
    BY <2>1, BaselinedScansKept DEF HoldsLease
<1>4. CASE Execution
  BY <1>3, <1>4, LeaseBaselined, EndScanBaselined, FinishBaselined DEF Execution
<1>5. CASE Crash \/ Tick \/ UNCHANGED vars
  <2>1. UNCHANGED <<sites, jobs, scans>> /\ finishing' \subseteq finishing
    BY <1>5 DEF Crash, Tick, vars
  <2> QED
    BY <2>1, BaselinedScansKept DEF HoldsLease
<1> QED
  BY <1>1, <1>2, <1>4, <1>5 DEF Next

LEMMA AlwaysBaselined ==
  ASSUME Precise
  PROVE  Spec => [](IInv /\ Baselined)
<1>1. Init => Baselined
  BY DEF Init, Baselined, BaselineSound, Judged, Unregistered
<1>2. (IInv /\ Baselined) /\ [Next]_vars => Baselined'
  BY NextBaselined
<1> QED
  BY <1>1, <1>2, OccurrencesOrdered, PTL DEF Spec

(***************************************************************************)
(* The semantic baseline of a site is always a committed, promoted,        *)
(* complete scan of that site, whatever is pruned or interrupted.          *)
(***************************************************************************)
THEOREM BaselinesAreSound ==
  ASSUME Precise
  PROVE  Spec => []BaselineSound
<1>1. Baselined => BaselineSound
  BY DEF Baselined
<1> QED
  BY <1>1, AlwaysBaselined, PTL

(***************************************************************************)
(* The insert of an execution that owns its job never breaks the foreign   *)
(* key to the baseline it was compared with.                               *)
(***************************************************************************)
THEOREM OwnersCanCommit ==
  ASSUME Precise
  PROVE  Spec => []CompletionCommits
<1>1. Baselined => CompletionCommits
  BY DEF Baselined, Judged, JudgedByCurrent, CompletionCommits, ReferencesKept
<1> QED
  BY <1>1, AlwaysBaselined, PTL

-----------------------------------------------------------------------------
(* Only the completion of the occurrence a site waits for replaces its      *)
(* baseline or moves its streak.                                            *)
LEMMA CompletionMoves ==
  ASSUME Precise, IInv, [Next]_vars, NEW s \in Sites,
         sites'[s].baseline # sites[s].baseline \/ sites'[s].streak # sites[s].streak
  PROVE  \E f \in finishing :
           /\ f.key.site = s /\ Completed(f) /\ sites[s].version = f.key.version
           /\ SiteRow(f, sites'[s]) /\ Outcome(f) # "retry"
<1>1. sites' # sites /\ sites[s] \in Site
  BY OrderNumbers DEF IInv
<1>2. ~Registration
  <2> SUFFICES ASSUME Registration PROVE FALSE
    OBVIOUS
  <2>1. PICK r \in Sites : /\ \A other \in Sites : other # r => sites'[other] = sites[other]
                           /\ Registers(r) \/ Bumped(r)
    BY RegistrationChanges DEF IInv
  <2> QED
    BY <1>1, <2>1 DEF Registers, Bumped, Site
<1>3. ~\E r \in Sites : ClaimDueSite(r)
  <2> SUFFICES ASSUME NEW r \in Sites, ClaimDueSite(r) PROVE FALSE
    OBVIOUS
  <2>1. \A other \in Sites : /\ sites'[other].baseline = sites[other].baseline
                             /\ sites'[other].streak = sites[other].streak
    BY DEF ClaimDueSite, IInv, Typed, TypeOK, Site
  <2> QED
    BY <2>1
<1>4. \E f \in finishing : Finish(f)
  BY <1>1, <1>2, <1>3
  DEF Next, vars, Scheduling, EnsureJob, PerformMaintenance, Execution, ClaimJob,
      RenewJobLease, EndScan, ScanRaises, ScanReturns, Conclude, ContextReadRaises,
      Crash, Tick
<1>5. PICK f \in finishing : Finish(f)
  BY <1>4
<1>6. Completed(f)
  BY <1>1, <1>5, FinishCompletes DEF Resent, SiteKept
<1> QED
  BY <1>1, <1>6 DEF Completed, SiteRow

(***************************************************************************)
(* The cooldown of a dead job is that of the error streak the same         *)
(* transaction stores: the streak the job captured when it was created is  *)
(* still the one of its site.                                              *)
(***************************************************************************)
THEOREM CooldownsMatchStreaks ==
  ASSUME Precise
  PROVE  Spec => CooldownMatchesStreak
<1>1. ASSUME IInv, [Next]_vars, NEW s \in Sites, sites'[s].streak > sites[s].streak
      PROVE  /\ sites'[s].streak = sites[s].streak + 1
             /\ \E f \in finishing :
                  /\ f.key.site = s /\ HoldsLease(f)
                  /\ sites'[s].next =
                       f.at + Jittered(CooldownFor(sites'[s].streak), f.offset)
  <2>1. sites[s].streak \in Nat
    BY <1>1, OrderNumbers DEF IInv, Site
  <2>2. PICK f \in finishing :
          /\ f.key.site = s /\ Completed(f) /\ sites[s].version = f.key.version
          /\ SiteRow(f, sites'[s]) /\ Outcome(f) # "retry"
    BY <1>1, <2>1, CompletionMoves
  <2>3. HoldsLease(f) /\ JobOrdered(f.key) /\ jobs[f.key].status \in OpenStatuses
    BY <1>1, <2>2, LeasedJobOrdered DEF Completed
  <2>4. jobs[f.key].base = sites[s].streak /\ f.base = sites[s].streak
    BY <1>1, <2>2, <2>3 DEF JobOrdered, IInv, Fenced, Leased, KnowsRow
  <2>5. ~f.ok /\ sites'[s].streak = sites[s].streak + 1
    BY <1>1, <2>1, <2>2, <2>4 DEF SiteRow, Larger
  <2> QED
    BY <2>2, <2>3, <2>4, <2>5 DEF SiteRow, NextDue
<1>2. IInv /\ [Next]_vars => [CooldownPriced]_vars
  BY <1>1 DEF CooldownPriced
<1> QED
  BY <1>2, OccurrencesOrdered, PTL DEF Spec, CooldownMatchesStreak

(***************************************************************************)
(* A promoted scan was judged against the very baseline it replaces.       *)
(***************************************************************************)
LEMMA ReplacedBaseline ==
  ASSUME Precise, IInv, Baselined, [Next]_vars, NEW s \in Sites,
         sites'[s].baseline # sites[s].baseline
  PROVE  \E row \in scans' :
           /\ ScanId(row) = sites'[s].baseline /\ row.base = sites[s].baseline
           /\ sites[s].baseline # NoScan => Confirmed(s, row.family)
<1>1. PICK f \in finishing :
        /\ f.key.site = s /\ Completed(f) /\ sites[s].version = f.key.version
        /\ SiteRow(f, sites'[s]) /\ Outcome(f) # "retry"
  BY CompletionMoves
<1>2. f.ok /\ f.scan.promote /\ sites'[s].baseline = ScanId(f.scan)
  BY <1>1 DEF SiteRow
<1>3. f.scan # NoScan
  BY <1>2, NoScanAssumption DEF IInv, Typed, ScanCarried
<1>4. f.scan \in scans'
  BY <1>1, <1>3, CompletedScan
<1>5. JudgedByCurrent(f)
  BY <1>1, <1>3 DEF Baselined, Judged, Completed
<1> QED
  BY <1>1, <1>2, <1>4, <1>5 DEF JudgedByCurrent

THEOREM BaselinesComparedToCurrent ==
  ASSUME Precise
  PROVE  Spec => BaselineComparedToCurrent
<1>1. ASSUME IInv, Baselined, [Next]_vars, NEW s \in Sites,
             sites'[s].baseline # sites[s].baseline
      PROVE  \E row \in scans' :
               ScanId(row) = sites'[s].baseline /\ row.base = sites[s].baseline
  BY <1>1, ReplacedBaseline
<1>2. IInv /\ Baselined /\ [Next]_vars => [ReplacesCompared]_vars
  BY <1>1 DEF ReplacesCompared
<1> QED
  BY <1>2, AlwaysBaselined, PTL DEF Spec, BaselineComparedToCurrent

(***************************************************************************)
(* A different resource set becomes the baseline only when an earlier      *)
(* committed, complete scan of the site showed the same set.               *)
(***************************************************************************)
THEOREM ReplacementsAreConfirmed ==
  ASSUME Precise
  PROVE  Spec => ReplacementConfirmed
<1>1. ASSUME IInv, Baselined, [Next]_vars, NEW s \in Sites, NEW old,
             old = BaselineRow(s), old # NoScan,
             sites'[s].baseline # sites[s].baseline
      PROVE  \E row \in scans' :
               /\ ScanId(row) = sites'[s].baseline
               /\ \/ row.family = old.family
                  \/ \E seen \in scans :
                       /\ seen.job.site = s /\ ScanId(seen) # ScanId(old)
                       /\ seen.family = row.family /\ Complete(seen)
  <2>1. old \in scans /\ ScanId(old) = sites[s].baseline
    BY <1>1 DEF BaselineRow, Row
  <2>2. sites[s].baseline # NoScan
    BY <1>1, <2>1, ScanIdTyped, NoScanAssumption DEF IInv, Typed, TypeOK
  <2>3. PICK row \in scans' :
          ScanId(row) = sites'[s].baseline /\ Confirmed(s, row.family)
    BY <1>1, <2>2, ReplacedBaseline
  <2>4. \A other \in scans : ScanId(other) = sites[s].baseline => other = old
    BY <1>1, <2>1 DEF IInv, Fenced, Numbered
  <2>5. \A seen : seen.status \in Changed => Complete(seen)
    BY DEF Changed, Complete
  <2> QED
    BY <2>3, <2>4, <2>5 DEF Confirmed
<1>2. IInv /\ Baselined /\ [Next]_vars => [ReplacesConfirmed]_vars
  BY <1>1 DEF ReplacesConfirmed
<1> QED
  BY <1>2, AlwaysBaselined, PTL DEF Spec, ReplacementConfirmed

(***************************************************************************)
(* A completion sent again, or after its lease was lost, changes no job, no *)
(* scan and nothing that decides the next occurrence of a site.            *)
(***************************************************************************)
THEOREM ResendsAreHarmless ==
  ASSUME Precise
  PROVE  Spec => ResendHarmless
<1>1. ASSUME IInv, NEW f \in finishing, Finish(f), ~HoldsLease(f)
      PROVE  /\ UNCHANGED <<jobs, scans>>
             /\ \A s \in Sites :
                  /\ sites'[s].next = sites[s].next
                  /\ sites'[s].streak = sites[s].streak
                  /\ sites'[s].token = sites[s].token
                  /\ sites'[s].baseline = sites[s].baseline
  BY <1>1, FinishCompletes DEF Completed, Resent, SiteKept
<1>2. IInv /\ [Next]_vars => [ResendIdle]_vars
  BY <1>1 DEF ResendIdle
<1> QED
  BY <1>2, OccurrencesOrdered, PTL DEF Spec, ResendHarmless

=============================================================================
