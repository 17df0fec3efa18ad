---------------------------- MODULE MCCollectors ----------------------------
(***************************************************************************)
(* The collecting workloads, one at a time: part says which of them runs.  *)
(* They share no table, so that interleaving them would add nothing.       *)
(***************************************************************************)
EXTENDS TrafficTasks

CONSTANTS
  Parts,           \* the parts to run
  OneAssetRunner,  \* the asset ledger has one runner, or two
  DemandStops      \* builds of the search demand that stop half way

VARIABLES
  part,
  monthTasks, monthRows, monthRelease, monthTarget, monthRunners, monthExecutions,
  facts, dtasks, drunners, dexecs, credential,
  assetFacts, assetTasks, batches, captures,
  catalog, states, changeLog, rounds, evaluations,
  demand, passed, tables, coverage, builders, spent

monthVars == <<monthTasks, monthRows, monthRelease, monthTarget, monthRunners, monthExecutions>>
domainVars == <<facts, dtasks, drunners, dexecs, credential>>
assetVars == <<assetFacts, assetTasks, batches, captures>>
reviewVars == <<catalog, states, changeLog, rounds, evaluations>>
demandVars == <<demand, passed, tables, coverage, builders, spent>>
mcvars == <<part, vars, monthVars, domainVars, assetVars, reviewVars, demandVars>>

(* One runner and two months: responses that cover both. *)
TwoMonths == INSTANCE TrafficTasks WITH
  LastMonth <- 2, Runners <- {"r1"}, Tokens <- {1, 2}, MaxAttempts <- 1, MaxGeneration <- 2,
  tasks <- monthTasks, rows <- monthRows, release <- monthRelease, target <- monthTarget,
  runners <- monthRunners, executions <- monthExecutions

DomainState == INSTANCE DomainStateTasks WITH
  Domains <- {"d1"}, Limit <- 1, MaxAttempts <- 2, MaxGeneration <- 2

(* A batch is given up where a process may stop. *)
GivenUp == "crash" \in Faults
AssetFaults == IF GivenUp THEN Faults \cup {"batch"} ELSE Faults

OneRunner == {CHOOSE r \in Runners : TRUE}
TheAssetRunners == IF OneAssetRunner THEN OneRunner ELSE Runners

Assets == INSTANCE AssetTasks WITH
  Tools <- {"t1"}, Published <- {}, Adult <- {}, AssetRunners <- TheAssetRunners,
  MaxRetries <- IF OneAssetRunner THEN 1 ELSE 0, MaxAttempts <- 2, MaxGeneration <- 2,
  Faults <- AssetFaults, facts <- assetFacts

(* A published tool the safety rule condemns. *)
Condemned == INSTANCE AssetTasks WITH
  Tools <- {"t1"}, Published <- {"t1"}, Adult <- {"t1"}, AssetRunners <- TheAssetRunners,
  MaxRetries <- IF OneAssetRunner THEN 1 ELSE 0, MaxAttempts <- 2, MaxGeneration <- 2,
  Faults <- AssetFaults, facts <- assetFacts

Review == INSTANCE CatalogReview WITH
  Products <- {"t1"}, Reviewers <- Runners,
  Changes <- {"named", "safe", "accepted", "retired", "held", "released"},
  Failures <- IF GivenUp THEN Faults ELSE {}

(* Publishers that share the directory of the lock, and publishers that do not. *)
Demand == INSTANCE SearchDemand WITH
  DemandMonths <- {1, 2}, Keywords <- {"k1"}, Values <- {1, 2}, Builders <- Runners, Locked <- TRUE,
  MaxStops <- DemandStops, MaxChanges <- 1, MaxBuilds <- DemandStops + 3

UnlockedDemand == INSTANCE SearchDemand WITH
  DemandMonths <- {1, 2}, Keywords <- {"k1"}, Values <- {1, 2}, Builders <- Runners, Locked <- FALSE,
  MaxStops <- 0, MaxChanges <- 1, MaxBuilds <- 3

MCInit == /\ part \in Parts
          /\ Init /\ TwoMonths!Init /\ DomainState!Init /\ Assets!Init /\ Review!Init
          /\ IF part = "unlocked" THEN UnlockedDemand!Init ELSE Demand!Init
          /\ demand[1]["k1"] = 1

Ledger(step) ==
  part = "ledger" /\ step /\ UNCHANGED <<part, monthVars, domainVars, assetVars, reviewVars, demandVars>>
Month(step) ==
  part = "months" /\ step /\ UNCHANGED <<part, vars, domainVars, assetVars, reviewVars, demandVars>>
Domain(step) ==
  part = "domains" /\ step /\ UNCHANGED <<part, vars, monthVars, assetVars, reviewVars, demandVars>>
Asset(step) ==
  step /\ UNCHANGED <<part, vars, monthVars, domainVars, reviewVars, demandVars>>
Reviewing(step) ==
  part = "review" /\ step /\ UNCHANGED <<part, vars, monthVars, domainVars, assetVars, demandVars>>
Publishing(step) ==
  step /\ UNCHANGED <<part, vars, monthVars, domainVars, assetVars, reviewVars>>

MCNext == \/ Ledger(Next)
          \/ Month(TwoMonths!Next)
          \/ Domain(DomainState!Next)
          \/ (part = "assets" /\ Asset(Assets!AssetNext))
          \/ (part = "condemned" /\ Asset(Condemned!AssetNext))
          \/ Reviewing(Review!ReviewNext)
          \/ (part = "demand" /\ Publishing(Demand!DemandNext))
          \/ (part = "unlocked" /\ Publishing(UnlockedDemand!DemandNext))

MCSpec == MCInit /\ [][MCNext]_mcvars

(* Every part is as fair as its module says.  As one part runs, conditions of
   the same kind are joined: a few conditions are much cheaper to check than
   the conjunction of an implication per part. *)
AnAsset(action, other) ==
  (part = "assets" /\ Asset(action)) \/ (part = "condemned" /\ Asset(other))

RunnerMoves(r) ==
  \/ Ledger(StartRun(r) \/ SelectMissing(r) \/ EndQueueing(r) \/ EndRun(r))
  \/ (r \in TheAssetRunners /\ AnAsset(Assets!Step(r), Condemned!Step(r)))
  \/ Reviewing(Review!Step(r))

WorkMoves ==
  \/ Ledger(\E e \in executions : Work(e))
  \/ Domain(DomainState!Moves)
  \/ \E e \in captures : AnAsset(Assets!Work(e), Condemned!Work(e))
  \/ Reviewing(\E v \in evaluations : Review!Evaluate(v))
  \/ (part = "demand" /\ Publishing(Demand!Moves))

LeaseEnds == \/ \E k \in Keys : Ledger(LeaseExpires(k))
             \/ Domain(DomainState!LeaseExpires("d1"))
             \/ AnAsset(Assets!LeaseExpires("t1"), Condemned!LeaseExpires("t1"))

RetryBegins == \/ \E k \in Keys : Ledger(RetryFallsDue(k))
               \/ Domain(DomainState!RetryFallsDue("d1"))
               \/ AnAsset(Assets!FallsDue("t1"), Condemned!FallsDue("t1"))

MCFairSpec ==
  /\ MCSpec
  /\ \A r \in Runners :
       /\ WF_mcvars(RunnerMoves(r))
       /\ WF_mcvars(Ledger(\E d \in Domains : QueueMissingTask(r, d)))
       /\ WF_mcvars(Ledger(EndClaiming(r)))
       /\ SF_mcvars(Ledger(FinishProbe(r, "available")) \/ Domain(DomainState!Discovers(r)))
  /\ SF_mcvars(\E k \in Keys, r \in Runners : Ledger(ClaimTask(r, k)))
  /\ WF_mcvars(WorkMoves) /\ WF_mcvars(LeaseEnds) /\ WF_mcvars(RetryBegins)
  /\ WF_mcvars(\/ \E m \in Months : Ledger(ProbeFallsDue(m))
               \/ Domain(DomainState!ConfigureCredential))

---------------------------------------------------------------------------
(* What the modules promise, in each part. *)

(* The types of the variables of all parts. *)
PartsTypeOK == /\ TypeOK /\ TwoMonths!TypeOK /\ DomainState!TypeOK /\ Review!TypeOK
               /\ IF part = "condemned" THEN Condemned!TypeOK ELSE Assets!TypeOK
               /\ IF part = "unlocked" THEN UnlockedDemand!TypeOK ELSE Demand!TypeOK

(* A response that covers two months leaves what was measured of each of them
   measured, in whatever order responses arrive. *)
MonthsImplementCollection == TwoMonths!ImplementsCollection

(* The completion fences of the domain ledger and of the asset ledger: an
   execution whose lease another one took over writes no outcome. *)
OnlyTheHolderWrites == DomainState!OnlyTheHolderWrites /\ Assets!OnlyTheHolderCompletes

(* What came of the one RDAP request of a domain is never replaced. *)
RdapObservedOnce == DomainState!RdapObservedOnce
(* An asset task is done when its tool lacks nothing. *)
DoneLacksNothing == Assets!DoneLacksNothing
(* A name a human approved is not replaced by that of a page. *)
HumanNameKept == Assets!HumanNameKept
(* A month that becomes public shows one plan of its sources, in every
   projection, where publishers share the lock; and a public month does not
   change, whoever publishes beside. *)
PublishedStaysWhole ==
  /\ [][part = "demand" => Demand!PublishedIsWhole']_demandVars
  /\ Demand!PublishedIsImmutable

(* The tasks of the three ledgers come to rest: done, without data, or dead. *)
TasksComeToRest ==
  /\ EveryTaskFinishes
  /\ part = "domains" => DomainState!DomainsComeToRest
  /\ part = "assets" => Assets!AssetsComeToRest
  /\ part = "condemned" => Condemned!AssetsComeToRest

(* A tool that has all it needs is published in the end, and a published one
   is not sent back by an evaluation that read it before. *)
ReadyToolsArePublished ==
  /\ part = "review" => Review!ReadyToolsArePublished
  /\ Review!StaysPublished

(* A month the market publication passed gets its keywords. *)
MonthsAreDemanded == part = "demand" => Demand!MonthsAreDemanded
=============================================================================
