# Verification of tool-data-runner

TLA+ models of the stateful parts of `tool-data-runner`, the TLC configurations
that check them on small instances, and TLAPS proofs of the results that matter
most. Paths are relative to the repository.

* [The system](#the-system) - components, state, interactions, what is hard
* [Modules](#modules) - which module models what, and how it maps to the code
* [Runs](#runs) - what each configuration asks and shows, with its bounds
* [Findings](#findings) - where code and documentation disagree
* [Proofs](#proofs) - what holds for every value of the constants, and why
* [Not modelled](#not-modelled) and [Plan](#plan)

Run TLC with `tlc -config <run>.cfg <module>.tla`, the module being the one the
table of [runs](#runs) names, and the proofs with `tlapm <module>_proofs.tla`.

## The system

The repository is a set of long-running collectors that share one relational
database. Until 2026-10-20 that was Cloudflare D1 (SQLite behind an HTTP API);
since then it is PostgreSQL, and the D1 names survive as interfaces
(`runner.D1Client`, `shared/db/legacy.py`). There are no threads worth
modelling: concurrency comes from several processes (one container per
workload, restarts that overlap, commands started by an operator) and from
`asyncio.gather` inside one process. Processes coordinate through rows: a
guarded `UPDATE`, a lease token, a deterministic key with `ON CONFLICT`, one
transaction for a batch of statements.

| Component | State it owns | Operations | What is hard about it | What makes it correct |
|---|---|---|---|---|
| Sitemap scheduler and ledger (`sitemap_monitor/scheduler.py`, `storage.py`, `cloudflare.py`) | `sitemap_sites`, `sitemap_jobs`, `sitemap_site_scans` | register, pause, claim a due site, ensure its job, claim, renew, complete, maintain | leases that expire under a running scan, jobs of an old schedule version, completion batches sent twice, pruning of rows another process refers to | an occurrence is served once and in order, no site is wedged, the semantic baseline is a committed, promoted scan |
| Comparability gate (`comparability.py`) | none | classify a scan, promote it to baseline | the predecessor it compares with may be stale | a changed resource set needs a confirmation |
| Sitemap engine (`engine.py`, `fetch.py`, `parser.py`, `discovery.py`, `diff.py`, `codec.py`, `normalize.py`) | `sitemap_resources`, `sitemap_runs`, state and diff objects | traverse a site, store states, record runs | objects, row and run written one after the other, 304 answers to old validators, a traversal that goes on after its lease was lost | a row names only states that were written, a run says what the site answered, no child of an index is missed, a change is reported once |
| Traffic tasks (`workloads/traffic/store.py`, `pipeline.py`) | `traffic_tasks`, `domain_traffic_monthly` and its projections | queue, claim, renew, store, complete | writes of a worker that lost its lease, a requeue based on an old read, a crash in the last attempt | a completion is fenced, done implies stored, absence is final |
| Release gate (`workloads/traffic/release.py`) | `traffic_month_release_checks` | check or probe | two probes of one month, the slower one wins | the queue opens only for a released month |
| Market publication (`market_snapshot_refresh.py`, `workloads/market/snapshot.py`) | `market_snapshot_versions` and its pages, a state file and a lock | read readiness, build, recheck, activate | inputs that move during a build, several activators, two statements in one transaction | one active version, months never go back, a published version is a consistent reading of complete inputs |
| Domain state tasks (`workloads/domain_state`) | `domain_state_tasks`, `domain_states`, history | queue, claim, renew, complete, requeue | partial observations, back-off and dead letters, one RDAP request per domain | fenced writes, RDAP asked once, every domain comes to rest |
| Asset tasks (`workloads/assets/store.py`, `pipeline.py`) | `asset_tasks`, safety and localization fields | revive, queue, claim, store stage by stage, complete | facts written without a fence, revival of dead letters, a stage that fails between others | done means nothing is missing, a name a human approved stays |
| Readiness and publication (`enrichment.py`, `publish.py`, `shared/readiness.py`) | `tool_enrichment_states`, `tools.status`, `tool_change_log` | evaluate, promote, publish | evaluations that overlap, a predicate read before the publishing batch | a ready tool is published and stays so, every publication is logged |
| Search demand (`search_demand_refresh.py`) | three projections of keyword rows, a coverage row | clear, insert page by page, validate, publish a month | builds that stop half way, publishers that do not share the lock | a public month shows one plan of its sources and never changes |
| Taxonomy batch (`taxonomy_batch.py`, `workloads/taxonomy`) with the JEV adapter (`jev_taxonomy.py`) | batch jobs, requests, items, runs, assignments | seed, reserve, submit, poll, apply, retry, finalize, route | a remote batch whose submission was not acknowledged, results applied twice, statements that commit one by one, reviewers beside it | a request is asked once, no stage goes back, success is what the tables hold, human decisions win |
| Shadow classifier (`taxonomy_shadow.py`) | runs, assignments, profiles, reclassification requests | load three queues, classify a few at a time, write, settle | six statements per result, leases that expire under model calls, a provider that blocks | a run that claims success has its primary, only the claim settles, no queue starves another |
| Anomaly detector (`classification_anomalies.py`) | a leased cursor, candidates, requests | scan a page, report, queue, claim, complete | a scan taken over, an upsert beside a reviewer | every polluted tool is reported, an approved candidate is not reopened under way |
| Reports (`report_exports.py`, `report_review_api.py`, `draft-worker.py`) | export, draft and review files | export, draft, review, release | files and rows of one report move separately | a released report is the reviewed one |
| Page capture (`workloads/assets/browser.py`, `content.py`, `r2.py`) | none | fetch, judge and upload one page | - | - |
| Runner and telemetry (`runner.py`, `workloads/periodic.py`) | `runner_instances`, `runner_runs` | loops, heartbeats | - | the loops poll for ever |
| Database clients (`shared/db`) | none | statements and batches | which of them are retried | a batch is one transaction, writes are sent once |

The workloads meet in the tables only. Traffic rows are the input of the market
publication, whose months the search demand follows. The assets workload writes
the facts the taxonomy worker classifies from; both write what readiness reads;
the publication in turn is what the detector, the traffic queue and the market
publication select by. Reviewers write beside all of them through other
applications, and operators run commands without taking the locks.

## Modules

### SitemapScheduler, SiteSchedule, SitemapComparability

`SitemapScheduler` is the core. Its variables are the three tables (`sites`,
`jobs`, `scans`), a clock, and what processes hold in memory between two
statements: `dispatches` (a claimed due site that has no job yet), `scanning`
(an execution whose traversal and heartbeat run) and `finishing` (an execution
that is over and about to send its completion). Processes have no identity: any
number of them may hold any of these, which is what a shared ledger has to
withstand.

| Action | Code |
|---|---|
| `EnsureSite`, `SetSiteStatus` | `ensure_site`, `set_site_status`: a changed homepage, interval or status bumps `schedule_version` and drops the dispatch lease |
| `ClaimDueSite`, `EnsureJob` | `enqueue_due`: `claim_due_sites`, then `ensure_job`, an `INSERT ... SELECT ... ON CONFLICT DO NOTHING` guarded by the dispatch token |
| `ClaimJob`, `RenewJobLease` | `claim_jobs` (also takes running jobs whose lease expired, whatever their attempts), `renew_job_lease` |
| `ScanReturns`, `ScanRaises`, `ContextReadRaises` | `_execute` and `_scan_with_heartbeat`: the three ways an execution ends, the last one leaving nothing behind |
| `FinishJobSuccess`, `FinishJobDead`, `FinishJobRetry` | `finish_job_success`, `finish_job_failure` as one transaction: job, scan row and site row |
| `PerformMaintenance` | `perform_maintenance`: superseded jobs die, old scans and then old jobs are pruned |
| `Crash`, `Tick` | a process stops between two statements; time passes |

The two adapters differ and `Adapter` selects one. SQLite stops a completion at
its first statement when the fence fails. D1 sends the whole batch, guards the
scan and the site statements by the status and `finished_at` of the job instead
of by the token, sends a batch again when the reply was lost, and spares scans
that other scans refer to when it prunes. `finished_at` is in milliseconds and
the model's clock is coarse, so a completion carries a stamp; `SameMillisecond`
says whether two executions may share one.

`SitemapComparability` holds the gate as operators on what a traversal saw. URL
hashes and ratios are reduced to the resource family set, whether the overlap is
in the migration band, and how the traversal ended. `SiteSchedule` is the
abstract promise: per site a status, a schedule version, a due time and an error
streak; serving an occurrence moves the due time forward and settles the streak
in one step. `SitemapScheduler` implements it under the mapping `SiteSchedules`.

Abstracted: the rows of `sitemap_runs` and `sitemap_resources`, which
`SitemapEngine` has; the limit of 500 rows per maintenance pass and the batch size of a claim
(25 rows in one statement, modelled as single claims, which is one more
interleaving and never one less); the status `blocked`, which no code sets;
`available_at` of a dead job, which no code reads.

### SitemapEngine

`SitemapEngine` is `engine.py`: one traversal of one site, whose result the
scheduler commits. Variables: what the site serves (`live`, `edits`), the
resource rows, the state and diff objects and the runs (`rows`, `objects`,
`diffs`, `runs`), and what each traversal holds in memory (`scan`): its queue,
what it visited, and the check under way.

| Action | Code |
|---|---|
| `Begin`, `Discover` | `scan_site`: robots.txt and `discovery_candidates`, the roots in order, common paths as fallback |
| `Skip`, `CutDepth`, `CutResources`, `Check`, `EndTraversal` | the loop over the queue with its limits |
| `NotModified`, `Served`, `Refused` | the request with the validators of the row: 304, a document, or a failure |
| `Confirm`, `Blame`, `Save` | `mark_not_modified`, `mark_failure`, `save_resource` |
| `Store`, `Compare` | `_apply_fingerprint`: the state object before the row, the diff object of a change |
| `Record` | `_record`, then the children of an index join the queue |
| `Ends` | the process stops, a statement raises, or the heartbeat cancels the traversal |

A document is its kind, the URLs it lists and their `lastmod`. That is what the
two hashes tell apart: `urlset_hash` decides between changed and not, the key of
a state object also depends on `lastmod`. An ETag stands for the validators and
is never repeated for another document; `Last-Modified` with its granularity of
a second is not modelled. A fetch may fail in any way (`Refused`). The numbers of
traversals stand for run namespaces, which the scheduler derives from job and
attempt. `owed` is the only variable the code does not have: what the site named
in the answers a traversal used.

### TrafficTasks, TrafficCollection

`TrafficTasks` is the traffic workload as one process sees it, with any number
of processes. Its variables are the three tables (`tasks`, `rows`, `release`),
the month the calendar asks for (`target`), where each runner is in its run
(`runners`) and the claimed tasks it works off concurrently (`executions`).

| Action | Code |
|---|---|
| `StartRun`, `FinishProbe` | `check_or_probe`: the read, the request, and the unconditional upsert of the verdict |
| `SelectMissing`, `QueueMissingTask`, `EndQueueing` | `queue_missing_traffic_tasks`: one `SELECT`, then an upsert per month that checks the status again but not the row |
| `ClaimTask`, `EndClaiming` | `claim_due_tasks`: the guarded `UPDATE` of each candidate |
| `RenewLease`, `StoreResult`, `CompleteTask` | `process_task`: fetch, renew, store the rows unfenced, complete under the fence |
| `WorkRaises`, `CompleteRaises` | the handler of `_run_once`, which completes the task as failed |
| `EndRun`, `Crash` | the run ends, or ends early with its executions lost |
| `LeaseExpires`, `RetryFallsDue`, `ProbeFallsDue`, `MonthEnds` | time, reduced to what the guards can see |

A row has three values: absent, unmeasured (a rank without visits) and measured.
`Merged` is the `coalesce` of the upsert: a response without visits never erases
visits. One response carries several months, so `StoreResult` writes the rows of
other months than the task's own.

`TrafficCollection` is the abstract promise to the readers of these tables: a
month of a domain is open or settled, rows only gain information, `done` is said
of stored months only and absence is never taken back. It appears twice: as what
`TrafficTasks` implements, and as the environment of `MarketPublication`.

Abstracted: snapshots, country rows and the tool projection, which hang off
`StoreResult` and are read by nothing here; `tool_traffic_fetch_status`, which
nothing under `src/` reads; the day of the month a probe may start, which is part
of the probe falling due; the order and the limit of a claim (a candidate list is
any set of claimable tasks), the `SELECT` of a claim being folded into the
`UPDATE` that repeats its conditions.

### MarketPublication, MarketServing

`MarketPublication` puts a ready month on display. It is composed with
`TrafficCollection` (`progress`, `rows`), to which it adds what its reads tell
apart: how often a row was written (`writes`, for `updated_at`) and how often a
task was opened (`opens`, for its generation). `visible` and `revision` are the
catalog and its eligibility revision, `versions` is `market_snapshot_versions`
with the rows of each snapshot, `jobs` what each publisher and operator is doing.

| Action | Code |
|---|---|
| `ListMonths`, `CheckMonth`, `Recheck` | `refresh_month`: released months newer than the active one, newest first; `month_readiness` before and after the build |
| `StartBuild`, `SelectTools`, `CopyPage`, `RollUp`, `FinishBuild`, `FailBuild` | `build_market_snapshot_from_d1`, one action per statement whose reads can differ |
| `Gate`, `Switch` or `SwitchFirst` and `SwitchSecond` | `activate_market_snapshot_from_d1`: status, coverage and rollup gates, then the batch |
| `BuildByHand`, `ActivateByHand` | `--build-market-snapshot`, `--activate-market-snapshot-id`; operators take no lock |
| `ReceiveRows`, `OpenTask`, `SettleTask`, `Release`, `EditCatalog` | the collector, the probe, and whoever writes the catalog |

`EditCatalog` is external: the trigger that maintains the revision is not part
of the repository. It is modelled as `tests/test_runner_stores.py:3146-3211`
uses it: only a change of a tool in the served snapshot counts.

The batch that switches versions is two statements in one transaction.
`Isolation` says what they see. With `serial` (D1, SQLite) the batch is one
step. With `read_committed`, which is how `shared/db/legacy.py` runs it on
PostgreSQL, the first statement fixes the versions it retires, and the second
one sees what others committed since; all of it shows at the commit.

`MarketServing` is what a reader of the explorer is promised: the month served
moves forward only, and once there is one there always is one.

Abstracted: a tool is identified with its domain, since `visible_tools` keeps one
tool per domain; country rows, ratings, the baseline month and the absolute
coverage gates, which the same statements carry; rows with another
`metrics_schema_version`; the status file, of which only `next_check_at` is read,
so a check may come at any time; the guard against an unfinished month, which is
part of its release. Two reads are one step where nothing else could be seen
between them: the revision and the insert of a version, the coverage and the
candidate mark, the reads of the gates.

### DomainStateTasks

The same kind of ledger as the traffic tasks, with facts that are written in the
completion batch. Variables: the facts (`facts`), the ledger (`dtasks`), the
phase of each runner (`drunners`), the executions (`dexecs`) and whether the
rating key is configured.

| Action | Code |
|---|---|
| `StartBatch`, `RequeueMissingCredential`, `ClaimDueTasks`, `QueueDueTasks`, `EndBatch` | `_run_domain_state_batch`: requeue of dead letters the missing key caused, claims, and the discovery of domains when there was room |
| `FetchAndRenew`, `CompleteTask` | rating and RDAP requests, the renewal, and `complete_task` as one batch of facts and task |
| `WorkRaises`, `HandlerRaises`, `Crash` | an exception before or after a completion was applied; the handler completes once more; a process stops |

The token of a lease is random; the attempt stands for it. Ratings are fresh or
stale; the history that hangs off the same batch is left out. The requeue of dead
letters takes all of them, where the code takes as many as its `LIMIT` and the rest
in later batches.

### AssetTasks, CatalogReview

`AssetTasks` is the ledger of the assets workload: a batch revives dead letters
(`SelectDeadLetters`, `Revive`), queues incomplete tools (`SelectIncomplete`,
`Queue`), claims (`SelectDue`, `Claim`) and works on its captures, one statement
per action: `ReadMissing`, `Preflight` (with the safety rule on the domain),
`RenewForCore`, `SaveContentSafety`, `SaveLocalization`, `RenewForFavicon`,
`UploadFavicon`, `ReadMissingAgain`, `TryAgain`, `CompleteTask`. `CaptureRaises`
is an exception at any of them; `BatchRaises` is one outside the work on a task,
after which the rest of the gathered executions runs on without the batch.
`ApproveName` is a reviewer. Two details come from the code and contradict what
one expects: `ASSET_REQUIREMENT_ORDER` has no screenshot (`README.md:43` says
otherwise), and a favicon is always found in the end, since the last source is a
drawn letter. Where something still lacks at the end the task is tried again: the
other case (`pipeline.py:360`, no failed stage is retryable) ends it as `Preflight`
does.

`CatalogReview` takes a tool from enriched to published. A round selects what
passes review, logs and commits the publications (two statements of a batch that
evaluate the predicate separately), evaluates the tools the batch worked on and
reconciles those touched since. An evaluation is a read of the requirements, a
write of the state and a promotion. Of the requirements only those that change
while a tool waits are kept (name, safety, accepted category). `Change` is what
others do at any time, one commit each: a primary category is accepted, retired
(`upsert_assignment` commits the retirement before the insert of the new one) and
accepted again; Discovery holds a tool back and releases it; a name and a passed
safety check arrive and stay, as no write empties a name and the verdict depends on
the domain alone.

### SearchDemand

One publication of a month of keyword projections, per process: `StartBuild`
(throttle, lock and candidate), `SelectRows` and `DeleteRows` (what earlier
builds left, selected by rowid and deleted by it), `InsertRows`, `Validate`,
`Recheck` (the second reading of the sources), `Commit` (the insert that makes
the month public), and `Stops` anywhere. A keyword stands for a page of rows.
`Locked` says whether publishers share the directory of the lock, which by
default is local to a process. The keyword table and the labels, to which a
build only adds, the brand rules and the paging of the source reads are left
out; terms are written and cleared like the others but not counted by the last
guard, as in the code.

### TaxonomyBatch, TaxonomyAssignments

`TaxonomyBatch` is one pass of the worker with the batch pipeline, statement by
statement. Every statement commits by itself, so what matters is what stands in
the tables when the process stops between two of them. `todo` is the call stack
of the pass: an action runs its head, performs at most one statement and puts
the calls that follow in its place; `StopPass` forgets it. Variables: `item`,
`req`, `job` (the three tables), `remote` (what the provider has), `tool`,
`assign`, `runs`, `todo`, and the counters of faults.

| Actions | Code |
|---|---|
| `Reconcile`, `Poll`, `MarkSubmitted`, `RetrieveRunning`, `RetrieveEnded`, `Lines`, `Unreturned`, `Fallback`, `EndOfPolledJob` | `reconcile_recorded_results`, `poll_openai_batches`: statuses, output files, lines that did not come back |
| `Seed`, `SeedRow`, `CreateItem`, `SourceFailed`, `RetrySource`, `EndOfSeedRow` | `seed_new_items`: captures, reuse of a stored profile, upstream evidence after a permanent failure |
| `Apply`, `Record`, `React`, `SetKind`, `SaveProfile`, `Decide`, `HandleFailure` | `apply_request_result` and the decisions after each stage |
| `Finalize`, `InsertRun`, `CheckpointRun`, `ReadManual`, `WriteAssignment`, `SetRunStatus`, `Finish`, `Route`, `MoveTools` | `finalize_classification`, `finalize_capability_only`, the routing of tools at the end of an item and of a pass |
| `ResumeRetries`, `Submit`, `Select`, `Build`, `Reserve`, `CreateBatch`, `Persist`, `PersistFails`, `MarkFails`, `Release`, `FailRequests` | retries that fell due, the reservation of requests, the remote batch and the checkpoint of its id |
| `JevRecover`, `JevClaim`, `JevInterrupted`, `JevSelect`, `JevStart`, `JevSubmit`, `JevAnswer`, `JevDone` | `jev_taxonomy.py`: the synchronous adapter of the capability stage, its takeover after an hour and its fallback on the batch; its rows run one after the other |
| `VerifyPrimary`, `SetKindByHand`, `ToolPublished` | reviewers and the catalog |

`TaxonomyAssignments` holds the statements on `product_taxonomy_assignments` as
operators from one table to the next; both classifiers use it.

Prompts, schemas, scores and the text of evidence are reduced to the verdicts
the code branches on (`ProfileOutputs`, `L1Outputs`, `LeafOutputs`,
`CapabilityOutputs`, `LineErrors`, `BatchEnds`).

### AnomalyDetector, ShadowClassifier

`AnomalyDetector` is the leased scan a pass starts with: `ClaimScan`,
`LoadCursor`, `ReadPage`, `UpsertCandidates`, `CompleteScan`, with `ClaimRaises`,
`ScanRaises`, `FailScan` and the expiry of the lease. `ShadowClassifier` extends
it with the rest of the pass that runs without the batch pipeline: `LoadQueue`,
`LoadNormal` and `LoadBackfill` (requests first, then tools without a result,
then profiles without capabilities), `Begin` (a place of the semaphore; the
claim of a request), `Classify` (the model calls), `Statement` (one of up to six
writes of a result), `Settle` and `Tell` (the request, then the candidate).
`StatementRaises`, `SettleRaises`, `PassRaises` and `Crash` are what can go
wrong, `Review` what a reviewer does with a candidate, `Approve` with its
request.

Left out: further markets of one answer, labels and primaries a human owns
(`TaxonomyBatch` has them), scores and grounding, and the incident cohort of an
earlier provider. A capability profile with fewer than three terms is one
without its only term. The order in which the rows of a batch get a place is
left open, as `asyncio.Semaphore` under cancellation leaves it to the loop.

## Runs

| Run | Module | Question | Result |
|---|---|---|---|
| `sitemap_schedule` | `MCSitemapScheduler` | do crashes, retries, lost leases, pauses and new schedule versions keep a site moving one occurrence at a time, and is a completion that is sent again harmless (D1) | holds |
| `sitemap_baseline` | `MCSitemapEvidence` | is the baseline committed, current and replaced only with confirmation (SQLite, two resource sets, short retention), and do traversals leave rows, objects and runs that agree with each other and with the site | holds |
| `sitemap_liveness` | `MCSitemapScheduler` | is every due occurrence served once faults stop | holds |
| `sitemap_context_read` | `MCSitemapScheduler` | does the ledger own every execution | violated |
| `collectors` | `MCCollectors` | is what the ledgers of traffic, domains, assets, review and search demand say true, and does only the holder of a task settle it, whatever is late, repeated, raised or stopped | holds |
| `collectors_liveness` | `MCCollectors` | does every task come to rest, every ready tool get published and every passed month get its keywords | holds |
| `traffic_stale` | `TrafficTasks` | is stale processing claimable | violated |
| `artifacts` | `MCArtifacts` | is one version active and the month served never an older one, and is what is published what was read, with coverage kept and nothing archived, and is a ready month served in the end | holds |
| `market_outage` | `MarketPublication` | is there always a served version once there was one | violated |
| `taxonomy` | `MCTaxonomyBatch` | is what the two classifiers ask, write and settle right and does everything end, with a provider, a process and a reviewer in the way | holds |
| `review_change_log` | `CatalogReview` | is every publication reported in `tool_change_log` | violated |
| `taxonomy_review` | `TaxonomyBatch` | does a primary market verified during a pass win | violated |

Four MC modules check several instances in one run: `part`, chosen in the
initial state, says which one moves, and the variables of the others stay as
they began. Instances that share no table need no interleaving.

* `MCSitemapEvidence`: `ledger` (the scheduler commits scans), `alone` (one
  process traverses a site whose index gains a child and whose child changes, two
  traversals, D1) and `overlap` (two processes, a limit of two resources).
* `MCCollectors`: `ledger` (traffic, 2 runners, 3 tokens), `months` (responses
  that cover 2 months), `domains` (2 runners, 2 attempts, 2 generations), `assets`
  (a tool to publish), `condemned` (a published tool the safety rule matches),
  `review`, `demand` (publishers that share the lock, builds that stop twice) and
  `unlocked` (publishers that do not).
* `MCArtifacts`: `serving` (a runner and an operator, one tool, serial) and
  `publish` (one runner, two tools on two pages, read committed) and `lasting`
  (one runner, one tool, seven versions, one fault and read committed), which is
  as fair as the publisher's loop.
* `MCTaxonomyBatch`: `capture`, `provider`, `jev` and `review` of the batch
  pipeline, `repair`, `queue`, `backlog` and `scan` of the pass without it; its
  header says what each is for.

Together the passing runs take every action and every disjunct of the
next-state relations.

What the properties say, by hazard:

| Property | It would be broken by |
|---|---|
| `CurrentOccurrenceOpen`, `OldScheduleCannotAdvance`, `ImplementsSchedule`, `OccurrenceServed` | a terminal job for the occurrence a site waits for; a job of an older schedule moving the newer one |
| `CooldownMatchesStreak`, `ResendHarmless` | a delay computed from another streak than the stored one; a batch applied twice |
| `BaselineSound`, `CompletionCommits`, `BaselineComparedToCurrent`, `ReplacementConfirmed` | pruning of a referenced scan; a baseline replaced from an outdated comparison or without confirmation |
| `NamedObjectsExist`, `ReportsAreTrue`, `ReportedOnce` | a row or run whose object was never written; a 304 taken for another state, or for an index without children; a change recorded before its row, and again by the retry |
| `OnlyTheHolderSettles`, `OnlyTheHolderWrites`, `OnlyTheClaimSettles` | a late execution completing the attempt of another one |
| `ImplementsCollection`, `MonthsImplementCollection` | 'done' of a month that is not stored, visits erased by a later response, absence taken back |
| `RdapObservedOnce`, `HumanNameKept`, `HumanDecisionsKept` | a one-time observation or a human decision written over |
| `DoneLacksNothing`, `SuccessIsWritten`, `CandidatesAreTrue` | a status that claims what the tables do not hold |
| `PublishedStaysWhole`, `TwoPagesAsRead`, `TwoPagesReplace` | a publication made of several states of its sources, or changed afterwards |
| `AtMostOneActive`, `ImplementsServing` | two active versions, a month that goes back |
| `AskedOnce`, `StagesAdvance` | a request charged twice, a result applied to a later stage |
| `TasksComeToRest`, `ReadyToolsArePublished`, `MonthsAreDemanded`, `ReadyMonthsAreServed`, `EverythingSettles`, `NothingIsOverlooked` | work that is never finished, or passed over for ever |

### Bounds

*Sitemap.* One site is enough for the properties, which are per site; sites meet
only in maintenance, which treats their rows one by one. Two tokens allow two
executions of one job, the smallest overlap. `MaxNow` lets a lease expire and a
retry fall due within the run; `MaxVersion` = 2 gives an old and a new schedule.
`ResendWindow` bounds how long after its first execution a D1 batch may be sent
again (one unit of time, which is as long as a lease), `FaultUntil` the time
after which no fault happens. `SameMillisecond` is FALSE in every run: two
completions never carry the same stamp. That is an assumption about the clock,
not about the code. The scan and site statements of a D1 completion match status
and `finished_at` instead of the token that `sitemap_monitor/README.md:79`
speaks of, and with `SameMillisecond = TRUE` TLC refutes `ResendHarmless`: a
late completion of the same millisecond as the accepted one writes over its
scan. The retention periods of one
unit make pruning reach rows that are still referred to.

*Engine.* Three sitemaps: an index that gains a child and names itself, a
sitemap whose `lastmod` changes or that turns into an index, and a common path.
`MaxEdits` lets the index change once and the child twice, so that a state may
come back; `MaxScans` = 2 is a traversal that ends anywhere and the next one, or
the two that overlap. `MaxDepth` = 1 and `MaxResources` = 2 (in `overlap`) make
the limits bite. `ReportsAreTrue` and `ReportedOnce` are about traversals that do
not overlap (`Alone`).

*Traffic.* Tokens bound how many claims are remembered at once (a token is reused
when nobody holds it), so three tokens allow two late executions and the current
one. `MaxGeneration` = 2 lets a finished month be queued again, `LastMonth` = 2
gives a response a second month to write.

*Market.* `PageSize` = 1 with two domains makes pages that see different states;
the code copies 50. `MaxSnapshots` bounds builds (`Room` leaves a version for
everybody who may start one), `MaxWrites`, `MaxOpens` and `MaxEdits` how often
sources change. One catalog change is what `NothingArchivedReturns` and
`PublishedAsRead` are about: a tool that leaves between the read and the switch.
`market_outage` has two, since the first statement of a switch and the second
have to disagree. Publishers share a lock and
hold nothing without it, so a second one would add no behaviour; operators take
no lock, and the `serving` part of `artifacts` has one beside the publisher. In
`lasting` the seven versions never run out (with eight TLC finds the same states),
and `FewOpens` lets one of its months be queued: the other one gets ready with the
rows of a response that covers both, or never.

*Domains, assets, review, demand.* One domain, one tool and one product: every
statement names one row, and rows meet only in the `LIMIT` of a claim (`Limit` =
1 makes it bite). Two runners give the overlap of a late execution with the one
that took over; `MaxAttempts` = 2 a retry and a last attempt, `MaxGeneration` = 2
a dead letter that is revived. In `review` the category is replaced and the hold
set and released any number of times; `ReadyToolsArePublished` speaks of a tool
that from some point on keeps all it needs. `review_change_log` has one process,
one tool and no failure.
`MaxStops`, `MaxChanges` and `MaxBuilds` bound the builds of a month; the last
one leaves a build for each stop and each change, so that it never is what keeps
a month from being published. `FewWrites` of `MCArtifacts` lets the rows of one
of two tools be written twice, which is enough for a page to be older than the
next.

*Taxonomy.* One or two tools; `MaxAttempts` = 2 tells a retry from the last
attempt, which the policy counts; what a stop makes the pipeline ask beyond it
(see Findings) needs a fault and a stop in one part, and none has both. `Jobs` bounds the live rows of the batch table, and an identity is
reused when its row is closed. `MaxFaults` and `MaxCrashes` are one each and in
different parts, which shows what one failure leaves behind, and not what several
in one pass do (see Findings for `StagesAdvance` with three). A tool has at most one reclassification request
(`Requests` = {1}): a second approval between the completion of a request and
the update of its candidate would be answered with the run of the first.
`Rescans` lets a second scan fall due in `repair` and `scan`; the other two parts
scan once. In `queue` two workers meet on one request, in `scan` on one cursor;
`SuccessIsWritten` and `CandidatesAreTrue` are checked where one worker writes,
since the statements of a result are not fenced by the claim
(`taxonomy_shadow.py:2096`): with two they do not hold. A lease of the detector that expires under a live scan counts
as a fault: two workers could otherwise take the scan from each other for ever.
Reviewers act between passes; `taxonomy_review` is the case of one that does not.

What liveness excuses is written into it: `DomainsComeToRest` and
`RequestsComeToRest` a process that stopped in the last attempt, which no
statement picks up again; `Stranded` in `TaxonomyBatch` a request whose batch id
was lost, an item created and never queued, one that waits for a capture of a
tool no longer selected; `MonthsAreDemanded` months without keywords, the oldest
of which blocks the later ones.

### Fairness

Processes of this system are loops that poll for ever under a restart policy
(`docker-compose.dokploy.yml:7`, `:238`: `restart: unless-stopped`), so a step
that stays possible is taken (weak fairness). Time passes. Two assumptions are
stronger. A traffic task that is claimable again and again is claimed (strong
fairness of `ClaimTask`), because claims are ordered by due time and bounded, so
no task is passed over for ever; and a probe that is repeated finds the month
released at some point (strong fairness of `FinishProbe` with "available"),
without which nothing is ever collected. `EveryTaskFinishes` assumes no early
end of a run, as `traffic_stale` shows it must. `ReadyMonthsAreServed` speaks of
months that stay released, ready and coverable: the publisher may try for ever
otherwise.

In the other ledgers: a process takes its next step (weak fairness of `Step`,
`Work`, `Moves`, `PassStep`), time passes, and three things that are possible
again and again happen: a domain runner that repeatedly has room discovers
(`Discovers`), a remote batch ends within its 24-hour window (`RetrieveEnded`),
and an hour passes between two passes (`HourPasses`). `MCCollectors` and
`MCTaxonomyBatch` join the conditions of their parts by kind; as only one part
moves, each joined condition is that of the part that runs.

## Findings

| Run | Source | What the code does | What it says |
|---|---|---|---|
| `sitemap_context_read` | `sitemap_monitor/scheduler.py`, `storage.py` | an exception while the scan context is read makes the error handler raise: nothing is recorded, the job waits for its lease to expire | "The job ledger owns bounded retries." (`scheduler.py:474`) |
| `traffic_stale` | `workloads/traffic/store.py` | a run that ends early in the last attempt leaves the task in `processing` for ever | stale `processing` is claimed (`README.md:273`) |
| `review_change_log` | `workloads/assets/publish.py:83`, `:103` | entry and status are two statements under read committed; a selected tool whose primary is retired before the first (`taxonomy_shadow.py:1822`) and replaced before the second (`:1844`) is published without an entry | "Each successful transition writes a policy- and runner-stamped `tool_change_log` entry before the status change in the same D1 batch." (`README.md:39`) |
| `taxonomy_review` | `taxonomy_batch.py:2449`, `taxonomy_shadow.py:1818` | the human lock is read once before the writes; a primary verified in between loses the flag to the automatic one | "Verified manual primaries are immutable and always win." (`README.md:189`) |
| `market_outage` | `workloads/market/snapshot.py` | under read committed a switch can retire the served version and activate nothing | "atomically retires the old active snapshot and activates the specified candidate" (`README.md:293`) |

Smaller observations have no run of their own. A traversal that stops after
`save_resource` of a change and before `record_run` loses the 'changed' run
(`sitemap_monitor/engine.py:441`): the next one finds the new state in the row
and nothing to report. Traversals that overlap after a lease expired write
resource rows without a fence, and a 304 of one may put its ETag on the state of
the other (`sitemap_monitor/cloudflare.py:1094`); without `Alone` TLC refutes
`ReportsAreTrue`. A D1 completion is fenced by a
millisecond and not by its token (see Bounds). A month can be queued again
although its row arrived in the meantime, because the upsert checks the status
again but not the row (`workloads/traffic/store.py:81`); the cost is one request
too many, which `ImplementsCollection` allows. The revival of asset dead letters
does not repeat its conditions in the `UPDATE` (`workloads/assets/store.py:110`).
A process that stops between the readiness 'ready' and the promotion leaves the
tool in `pending_enrich` until something touches its row
(`workloads/assets/enrichment.py:219`; `README.md:39` promises more). When a
statement of one evaluation fails, the batch is given up while the other
evaluations of its `gather` run on (`workloads/assets/enrichment.py:238`); one of
them may turn the readiness of a tool of the next batch to 'ready' after that
batch chose what to log and before its update. That is a second way to a
publication without its entry: TLC refutes `PublishedIsLogged` with two products
and failing statements also where no category is retired and no hold released, and
not with stops alone. A second process is a third way, since one may commit what
the other logged. A failed submission runs
`_handle_stage_failure` without the guard on the stage that results are met with
(`taxonomy_batch.py:2022`): with three faults in one pass the refused submission
of a request that was left queued closes an item that has moved on, and another
one opens a closed item for escalation, so that TLC refutes `StagesAdvance` for
submissions. The documents promise it of late results only. The policy of
attempts (`taxonomy_batch.py:319`, "Return total attempts (including the first)")
is asked when a failure is handled (`schedule_model_retry`), and not when a
request is inserted (`enqueue_stage`): a submission that failed, and a process
that stopped before the failure was handled, leave a failed request after which
the next pass enqueues one attempt more. With `MaxAttempts` = 1, two faults and a
stop TLC finds a second attempt; so the type invariant sets no bound, and
`WithinPolicy` is checked, with `AskedOnce`, where a fault and a stop do not meet. A run that
a stop left 'partial' is terminal for every loader of the shadow classifier, and
a recheck row whose label was corrected before the failure is not selected again.

## Proofs

All theorems are about the specifications that TLC checks, for every value of
the constants that satisfies the assumptions named here. Each rests on an
inductive invariant, which is what the paragraphs below are about.

**Sitemap scheduler** (`SitemapScheduler_proofs`). Three layers, each inductive
on top of the one before.

* `Typed`: the type invariant and the fact that a successful completion carries
  a scan (`TypeCorrect`).
* `IInv == Typed /\ Ordered /\ Fenced`. `Ordered` says how far each row and each
  pending step may be ahead of its site: no job is for an occurrence later than
  the one the site waits for, within the same schedule version (`JobsOrdered`),
  a dispatch in force is for that very occurrence (`DispatchesOrdered`), and no
  execution is older than the occurrence it serves (`ExecutionsOrdered`).
  Without it "the job of the current occurrence is open" is not inductive, since
  nothing would keep a terminal job from being the next occurrence. `Fenced` is
  what D1 needs, whose batch runs on after its fence failed: at most one
  execution holds the token of a job (`Leased`), stamps and attempts of a row
  and of the executions it was claimed for differ (`Numbered`, `Carried`), and a
  batch that may still come again meets the row its first execution left
  (`Resendable`), so that the guards of its later statements match nothing but
  their own work. `NoSiteWedged`, `OldJobsAreInert`, `SchedulerImplementsSchedule`,
  `CooldownsMatchStreaks` and `ResendsAreHarmless` follow.
* `Baselined == BaselineSound /\ Judged`: an execution that still owns its job
  compares with the scan that is the baseline now, unless its scan row says
  otherwise. `BaselinesAreSound`, `OwnersCanCommit`, `BaselinesComparedToCurrent`
  and `ReplacementsAreConfirmed` follow.

All but `TypeCorrect` assume `Precise`: SQLite, or D1 without two completions in
one millisecond (see Bounds; TLC refutes `ResendHarmless` without it). The
resend window is at most the retention of scans (`PolicyAssumption`): the client
repeats a request within seconds and scans are kept for days. `NoScanAssumption`
says that the mark for "no scan" is none.

**Sitemap engine** (`SitemapEngine_proofs`). `EngineTyped` and
`ObjectsBeforeNames` rest on `IInv == EngineTypeOK /\ NamedObjectsExist /\
InFlight` of every traversal. `InFlight` says what a check has written by the
time it is where it is: the state it read from the row exists (`OldExists`), the
state it is about to put in the row exists and so does the diff of a change
(`Saving`), and what the run will name is there (`Recording`). Without it
"rows name existing objects" is not inductive, because a check that found the
hashes of the row unchanged puts nothing and relies on what the row named when
it was read. No step removes an object or forgets a row (`Grows`), so a check of
one traversal survives the steps of every other (`Others`): the theorem needs no
lease.

`TruthfulReports` and `ChangesReportedOnce` are about traversals that do not
overlap and rest on `Single(t)`. `Tagging`: the ETag of a row belongs to the
state of the row, so that a 304 says what the row holds is served. `Remembers(t)`:
between the request and the row the traversal holds the row it asked with.
`Owes(t)`: what the site named is visited, under check or still in the queue, and
whatever was cut is on record, which is why a complete traversal has checked it
all. `Tallied(t)`: the changes of the site, the reports and what is due to be
reported add up; the sum is needed because an attempt that stops between the row
and the run loses a report, and the inequality of `ReportedOnce` alone does not
survive the next step. `SiteAssumption`: finitely many sitemaps and traversals,
and lists of sitemaps that are of the site.

**Traffic tasks** (`TrafficTasks_proofs`). `IInv == TypeOK /\ Numbered /\ Honest`.
`Numbered`: a queued task has a generation, and a processing task no pending
retry. `Honest`: an execution about to complete with 'done' has its row, and an
execution that holds the current token knows the current attempt. `FenceHolds`
follows from the steps of the ledger one by one, `LedgerImplementsCollection`
from `Honest`, which is what makes an unfenced row write by a late execution
harmless: rows only grow (`StoredGrows`).

**Market publication** (`MarketPublication_proofs`). `IInv == TypeOK /\
AllEquipped /\ BuiltByOne /\ MonthsKnown`: a job has what its place needs, a
version under construction is written by one job only, and a version that was
started is for a month. `SingleActive` is inductive on top of it:
`SwitchServes` shows that a switch changes nothing or replaces everything that
was active by one version of the same month or a later one, which is also the
step of `PublicationImplementsServing`. Both assume `Isolation = "serial"`;
`market_outage` shows why.

What a publisher remembers of the sources is the subject of `PInv`, for either
isolation and with `PublishersAlone` (nobody builds or activates by hand, as in
the `publish` part of the run): one job at a time is under way (`Solo`). `Known`:
what was read of a row is what it holds, and what was copied of it, as long as
its count of writes is the one that was read. `Stays`: a tool that is served is
visible, selected and copied as long as the revision is the one that was read.
The second reading, which must equal the first, turns both into `Confirmed`
(`RecheckKeeps`), from which `ActivatedAsRead` follows. `Sees` (what a version of
the current revision shares with what is served is visible) gives
`ArchivedToolsStayOut`, `Beats` (what passed the gates covers what is served)
gives `ReplacementsCover`, and `Replacing` (what the first statement of a switch
leaves is not outdated) gives `SingleActiveUnderLock`. The hypothesis is needed:
with one operator TLC refutes all four on two tools (`AtMostOneActive` under read
committed only).

The other five modules are only instantiated by the MC modules, never extended,
so their assumptions on constants are hypotheses of the theorems and called
`Bounded` (`DomainBounded` for the domain states, `ReviewBounded` for the review): bounds
that are numbers, sets of rows that are finite, changes that the module describes, in the two taxonomy modules also that there is a market
and that no market is a capability. Every part of the runs satisfies them.

**Domain states** (`CatalogLedgers_proofs`, which has the theorems of both
ledgers and of the review). `DomainIInv`: types, `DomainFounded(d)` (a task that exists has a
generation, one in work waits for no retry, and it asks for RDAP only while there
is no observation) and `Dated(e)` (an execution is of this generation and attempt
or an earlier one, it brings an observation only if it asks for one, and if it
holds the task, it asks for what the task asks for). `RegistrationObservedOnce`
needs `Dated`, as the fence alone does not say who asked; `DomainFenceHolds` needs
`DomainFounded`.

**Asset tasks** (`CatalogLedgers_proofs`). `IInv`: types, `Founded(t)` (one that is
done belongs to a tool that lacks nothing), `Judged(t)`
(the safety of a tool is unknown or what the rule says of it) and `Ready(e)`, an
execution about to say 'done' has seen that nothing lacks. `Ready` survives every
stage of every other execution because what a tool lacks only becomes less
(`Enriches`), which is what makes stages without a fence harmless
(`DoneIsComplete`). `ApprovedNamesStay` is a property of the upsert of names,
`AssetFenceHolds` of the guards on token and status.

**Catalog review** (`CatalogLedgers_proofs`). `PublicationsStay` needs the types
only and holds for any number of processes: `PublishedChange` shows that nothing
but an update of a publication makes a tool published, and nothing takes that
back. That it is logged is not a theorem: `review_change_log` refutes it. What
`PublicationsAreLogged` says is that there are no other causes than the three that
are known, each of which TLC shows to be one. Its hypotheses exclude them: one
worker (`OneReviewer`); `EvaluationsEnd`, no evaluation outlives its batch; and
`Undisturbed`, nobody accepts a category again or releases a hold of a selected
tool between the selection and the update. The last one is an assumption about
other writers that the code does not enforce; the second one is an invariant where
no statement raises, for any number of processes and wherever they stop
(`BatchesAwaitEvaluations`): `asyncio.gather` waits for its evaluations, but
where one raises it lets the others run on. `LogInv` has `Selected(r)`: what the
selection found stays safe, named and ready between the statements, and what the
entry left out cannot be published, because its category was retired, it is held or
its status is another one, so that the update leaves it out too. Tools may still
lose their category and be held in between; they are then logged and not
published.

**Search demand** (`SearchDemand_proofs`). `IInv`: types, `Assigned(p)` (a
build has a month and a number and inserts what it planned) and, where publishers share the lock,
`Solo` (one at a time), `Validates(p)` (every projection already validated shows
the plan) and `PublishedIsWhole` (`PublicMonthsAreWhole`). `PublicMonthsStay`
holds without the lock, because the statements themselves check that the month
is not public; `PublicationIsFinal` joins the two.

**Taxonomy batches** (`TaxonomyBatch_proofs`). The state of a pass is the stack
of calls `todo`, so all three invariants say what may stand in it.

* `Handover`, for `NoRequestAskedTwice`. `Structured`: the calls that submit one
  job are at the head of the stack, no group of requests waits behind a call
  that selects requests again, and the groups that wait are disjoint. `Grouped`:
  a request that waits in a group is held by no job and was never sent. `Tabled`:
  a request that was sent and is still queued is held by a job, and a free row of
  the job table holds none. `Ready` of the head: a job about to be created at the
  provider, or to be released, has sent nothing. The count of batch lines alone is not
  inductive; that a request is sent only by the job that reserved it, and reserved
  only when nothing was sent, is.
* `Decided == Handover /\ Sited /\ ToolRows /\ AssignRows /\ ...`, for
  `PrimariesStaySingle`, `VerifiedPrimariesStay` and `HumanProductsStay`. `Sited`:
  a call that retires primaries or moves tools is the next one, and one that
  writes a primary is the next one or stands right behind the matching
  retirement. What the head decided on still holds: there is no human primary
  when the others are retired (`Retires`), there is no other primary when one is
  written (`Upserts`), the kind is that of no product when a tool is rejected
  (`Moves`). These three assume `~ReviewDuringPass`; `taxonomy_review` shows what
  happens to `ManualWins` otherwise.
* `Decided /\ Succeeding`, for `SuccessesAreWritten`, `TypesHold` and
  `OneAttemptIsLive`. An item is closed by a chain of calls, each a statement of
  its own: insert the run, note it on the item, ask for the human lock, retire,
  write the primary, write the capability, supersede, set the status of the run,
  finish. That the last one finds the tables as they should be is not a fact about
  the tables alone, since the process may stop behind every link and the next pass
  builds the chain anew, skipping what it finds. `Succeeding == Good(todo) /\
  Requests /\ Items` says it of the stack. `Good`: every link stands directly
  behind one it may follow (`Linked`), about the same tool (`Strung`), with what
  the item holds (`Named`); what the head of a chain relies on is written
  (`Reached`: the item has not succeeded, its run exists, from `retire` on there
  is no human primary, from `supersede` on the primary is the chosen one, before
  `finish` everything is); a result is recorded and met at the head, with nothing
  in between (`Placed`, `Foremost`); and a call that asks the model waits only
  behind calls after which no item has succeeded (`Tame`), since a backfilled item
  that has may not be asked again (`Legal`). `Requests`: an older attempt of a
  stage has failed, so a result that is met at the newest attempt leaves nothing
  open (`NoneAsked`). `Items`: an item that succeeded is `Inscribed`, that is, the
  run is one of the tool's and says so, the primary is its own or a human's, the
  capability is of its run. The proof has one lemma per action, in groups:
  actions that put only calls about jobs and recorded results in place of the head
  (`LooselyGood`), those that put calls which stand alone (`GoesOn`), those that
  write the item (`GoesWriting`), and the links of the chain (`LinkFollows`,
  `Reads`). Beside `~ReviewDuringPass` the theorems assume that "none", the
  model's absent capability, is no capability.

`PublishedToolsStay` needs neither: the statement that moves tools looks at the
status again.

**Shadow classifier** (`ShadowClassifier_proofs`). Four invariants, each on top
of an earlier one.

* `Typed`: the tables and the passes, and of every row of a pass that its request
  was made for its tool, that it names what it is about to write (`Founded`), and
  that a row that is worked on is in a pass that works (`Placed`).
  `ClassifierTyped` and `ClaimsSettleAlone` follow, for any number of workers,
  requests and lapsed leases.
* `Approved == Typed /\ Owned /\ ActiveIsApproved /\ ...`: a tool whose candidate
  is still to be told of a completed request has no active request (`Told`).
  Without it "an active request is the one its candidate knows" is not inductive,
  since the batch that tells the candidate overwrites what it knows. The
  completion and the batch are two transactions and a reviewer may approve the
  tool again in between, so `ActiveAreApproved` assumes that nobody does
  (`ApprovedApart`). With a second request of a tool TLC refutes `ActiveIsApproved`
  otherwise.
* `Sounds == Typed /\ \A t : Sound(t)`, with one worker (`OneWorker`): what a
  result has written when it comes to a statement. `Reached(t, row)`: its run
  is there, the newest full one or a backfill, and partial until the last
  statement; from the statement after the primary on the primary is the one it
  decided. `NewestHolds(t)`: a newest full run that succeeded has a primary, also
  while the next result is written, because that one has put a partial run before
  it touches the rows. `SuccessesHavePrimaries` follows wherever a statement
  raises and wherever the process stops. With two workers it is false: statements
  carry no fence, so the rows of one result can be retired by the other.
* `Repairing == Approved /\ \A t : Sound(t) /\ Resolved(t) /\ ...`, for
  `ResolvedAreRepaired`. `Resolved(t)`: the request of a resolved candidate was
  answered by a full run that succeeded and whose primary is shown (`Repaired`),
  the tool has no other active request (`Quiet`), and whatever is under way for it
  is a backfill. That is what keeps the repair: a tool with an ended full run is
  not selected for classification, one without an active request is not loaded
  from the queue, and a backfill supersedes capabilities only (`BackfillWrites`).

**What stays with TLC.** Liveness under fairness (`OccurrenceServed`,
`ReadyMonthsAreServed`, `TasksComeToRest`, `ReadyToolsArePublished`,
`MonthsAreDemanded`, `EverythingSettles`, `NothingIsOverlooked`) is out of the
prover's reach. `WithinPolicy` and `StagesAdvance` hold on the instances only:
the first fails when a fault and a stop meet (see Findings), the second
is not a theorem: with three faults in one pass it fails (see Findings).
`PublishedIsLogged` is no theorem either; `PublicationsAreLogged` says when it holds.
`AnomalyDetector`, whose own promise is one of liveness, has no theorems of its
own; its steps are part of those of the classifier. The properties that
`MCCollectors`, `MCArtifacts` and `MCTaxonomyBatch` define for their parts are
checked under those names; the theorems speak of the definitions of the modules
themselves: `DoneLacksNothing`, `RdapObservedOnce` and `HumanNameKept` are
`DoneIsComplete`, `RegistrationObservedOnce` and `ApprovedNamesStay`,
the safety part of `ReadyToolsArePublished` is `PublicationsStay`,
`TwoPagesAsRead` is `ActivatedAsRead`, `TwoPagesReplace` is `ReplacementsCover` and
`ArchivedToolsStayOut`, `PublishedStaysWhole` is `PublicMonthsAreWhole` and `PublicMonthsStay`,
`OnlyTheHolderWrites` is `DomainFenceHolds` and `AssetFenceHolds`, `AskedOnce` is
`NoRequestAskedTwice`, `SuccessIsWritten` is `PrimariesStaySingle` and
`SuccessesAreWritten` of the batch pipeline and `SuccessesHavePrimaries` of the
classifier, `CandidatesAreTrue` is `ResolvedAreRepaired` and `ActiveAreApproved`,
`OnlyTheClaimSettles` is `ClaimsSettleAlone`, and `HumanDecisionsKept` is
`VerifiedPrimariesStay`, `HumanProductsStay` and `PublishedToolsStay`.

## Not modelled

* *Pure conversions and I/O*: page capture, content heuristics, sitemap parsing
  and fetching, provider clients, prompts and validation of responses, chart and
  page rendering. Their outcomes are inputs of the ledgers.
* *The composition of traversal and scheduler*: what the scheduler sees of a
  traversal (how it ended, which resource set it saw) is an input of
  `SitemapScheduler` and not computed from the runs of `SitemapEngine`.
* *Reports*: exports, drafts and reviews move as files of one directory and
  rows, by a command, an API and a worker.
* *Operator tools* under `ops/` and `scripts/`, the precision audit and the
  backfills: run once, by hand, against one incident or export.
* *Runner telemetry and database clients*: what the clients guarantee (a batch
  is one transaction, writes are sent once) is built into the actions; the loops
  appear as fairness.
* *The database itself*: triggers and constraints outside the repository, except
  where a test states what they do (`EditCatalog`).

`PROJECT.json` lists every component with its status, and the hazards with the
properties about each or the reason why there is none.

## Plan

Done: the sitemap scheduler over `SiteSchedule` and the engine it runs; the traffic ledger over
`TrafficCollection` and the market publication composed with it, over
`MarketServing`; domain, asset, review and search demand ledgers; the two
taxonomy classifiers with the detector.

Proved: the four core modules, with every safety property that passing runs check
of them; the domain and asset ledgers, the review and the search demand
publication, with theirs; of the taxonomy batches everything but `WithinPolicy`
and `StagesAdvance`, which are not theorems; of the classifier its types, its
claims, its primaries and its candidates.

Left: `Reports`, that is, export, draft, review and release as files and rows.
