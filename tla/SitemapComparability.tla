------------------------ MODULE SitemapComparability ------------------------
(***************************************************************************)
(* The comparability gate of sitemap_monitor: given what one traversal of  *)
(* a site saw, the semantic baseline of the site and the last committed    *)
(* scan, it classifies the scan and says whether the scan becomes the new  *)
(* semantic baseline.  URL hashes, coverage ratios and manifests are        *)
(* abstracted to the resource family set a scan saw.                       *)
(***************************************************************************)
CONSTANTS
  Families,   \* normalized resource set hashes a traversal can produce
  NoScan      \* stands for a NULL scan id and for a missing scan row

(***************************************************************************)
(* How a traversal ended: every attempted resource was checked, some       *)
(* failed, the traversal was cut short by a limit, or nothing usable.      *)
(***************************************************************************)
Kinds == {"complete", "partial", "incomplete", "none"}

ComparabilityStatuses ==
  {"comparable", "partial", "resource_set_changed", "possible_migration",
   "fetch_incomplete", "baseline_invalid"}

(***************************************************************************)
(* What the engine hands to the gate.  moved: the family overlap is below  *)
(* one half while the URL ratio stays within the migration band.  signal:  *)
(* some resource run of the scan has result 'baseline' or 'changed'.       *)
(* transient: some failed resource has a retryable error code.             *)
(***************************************************************************)
Observation ==
  [kind : Kinds, family : Families, moved : BOOLEAN,
   signal : BOOLEAN, transient : BOOLEAN]

Usable(obs) == obs.kind # "none"

(* StoredSiteScan.snapshot.complete, read off the stored status.            *)
Complete(row) == row.status \notin {"fetch_incomplete", "partial"}

ScanId(row) == [job |-> row.job, attempt |-> row.attempt]

Changed == {"possible_migration", "resource_set_changed"}

ComparabilityStatus(obs, before) ==
  CASE obs.kind \in {"none", "incomplete"} -> "fetch_incomplete"
    [] obs.kind = "partial" -> "partial"
    [] obs.kind = "complete" /\ before = NoScan -> "baseline_invalid"
    [] OTHER -> IF obs.family = before.family THEN "comparable"
                ELSE IF obs.moved THEN "possible_migration"
                ELSE "resource_set_changed"

(* Mutant: any two consecutive changed scans confirm each other.            *)
StableConfirmationAnySet(obs, before, previous) ==
  /\ previous # NoScan
  /\ ScanId(previous) # ScanId(before)
  /\ previous.status = ComparabilityStatus(obs, before)
  /\ Complete(previous)

(* The last committed scan already showed the same changed resource set.   *)
StableConfirmation(obs, before, previous) ==
  /\ previous # NoScan
  /\ ScanId(previous) # ScanId(before)
  /\ previous.status = ComparabilityStatus(obs, before)
  /\ Complete(previous)
  /\ previous.family = obs.family

PromoteSemanticBaseline(obs, before, previous) ==
  LET status == ComparabilityStatus(obs, before) IN
  \/ status \in {"baseline_invalid", "comparable"}
  \/ status \in Changed /\ StableConfirmation(obs, before, previous)
=============================================================================
