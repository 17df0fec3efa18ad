-------------------------- MODULE AnomalyDetector --------------------------
(***************************************************************************)
(* The scan for classifications that rest on a blocked or neutral page     *)
(* (src/classification_anomalies.py).  A taxonomy worker starts its pass   *)
(* with it: one leased row holds the cursor of the detector, a scan reads  *)
(* one page of tools and reports those it finds as candidates to review.   *)
(*                                                                         *)
(* Tools are numbered by their ids.  What makes stored text look polluted  *)
(* is decided elsewhere; scores and evidence are left out.                 *)
(***************************************************************************)
EXTENDS Naturals, FiniteSets

CONSTANTS
  Tools,       \* tools of the catalog
  Workers,     \* processes that run passes
  PageLimit,   \* ANOMALY_SCAN_LIMIT
  Rescans,     \* bound: whether another scan falls due after the first
  MaxFaults    \* bound: statements that raise or take too long

VARIABLES
  polluted,    \* tools the scan would select
  candidates,  \* classification_anomaly_candidates, one per tool
  detector,    \* classification_anomaly_detector_state
  passes,      \* where the pass of each worker stands
  faults       \* statements that raised or took too long so far

---------------------------------------------------------------------------
NoCandidate == [status |-> "none", cooling |-> FALSE, request |-> 0]

NewDetector == [known |-> FALSE, lease |-> "none", holder |-> "none", due |-> TRUE, cursor |-> 0]

NoPass == [at |-> "idle", cursor |-> 0, found |-> {}, requests |-> {}, blocked |-> FALSE]

Goes(w, next) == passes' = [passes EXCEPT ![w] = next]
Scanned(w) == Goes(w, [NoPass EXCEPT !.at = "queue"])

MayRaise == faults < MaxFaults /\ faults' = faults + 1

(* _claim_detector_scan: the first claim inserts the row, and a next scan in
   six hours with it. *)
ScanIsDue == detector.known => (detector.lease # "held" /\ detector.due)

Claimed(w) == detector' = [detector EXCEPT !.known = TRUE, !.lease = "held", !.holder = w,
                                           !.due = detector.known]

ClaimScan(w) ==
  /\ passes[w].at = "idle"
  /\ IF ScanIsDue THEN Claimed(w) /\ Goes(w, [NoPass EXCEPT !.at = "cursor"])
                  ELSE Scanned(w) /\ UNCHANGED detector
  /\ UNCHANGED <<polluted, candidates, faults>>

(* The answer to the claim is lost, and the pass goes on without a scan. *)
ClaimRaises(w) ==
  /\ passes[w].at = "idle" /\ ScanIsDue
  /\ MayRaise
  /\ Claimed(w)
  /\ Scanned(w)
  /\ UNCHANGED <<polluted, candidates>>

(* _load_detector_scan_cursor *)
LoadCursor(w) ==
  /\ passes[w].at = "cursor"
  /\ Goes(w, [passes[w] EXCEPT !.at = "read",
                               !.cursor = IF detector.holder = w THEN detector.cursor ELSE 0])
  /\ UNCHANGED <<polluted, candidates, detector, faults>>

(* ANOMALY_SCAN_SQL *)
Page(cursor) ==
  {t \in polluted : /\ t > cursor
                    /\ Cardinality({u \in polluted : cursor < u /\ u <= t}) <= PageLimit}

ReadPage(w) ==
  /\ passes[w].at = "read"
  /\ Goes(w, [passes[w] EXCEPT !.at = "upsert", !.found = Page(passes[w].cursor)])
  /\ UNCHANGED <<polluted, candidates, detector, faults>>

(* Mutant: every candidate found again is pending again. *)
UpsertedAnew(c) == [c EXCEPT !.status = "pending"]

(* A candidate that is approved, or that a reviewer turned down not long
   ago, stays what it is. *)
Upserted(c) ==
  [c EXCEPT !.status = IF @ = "approved" \/ (@ = "rejected" /\ c.cooling) THEN @ ELSE "pending",
            !.request = IF c.status = "resolved" THEN 0 ELSE @]

Upsert(found) ==
  candidates' = [t \in Tools |-> IF t \in found THEN Upserted(candidates[t]) ELSE candidates[t]]

UpsertCandidates(w) ==
  /\ passes[w].at = "upsert"
  /\ Upsert(passes[w].found)
  /\ Goes(w, [passes[w] EXCEPT !.at = "complete"])
  /\ UNCHANGED <<polluted, detector, faults>>

(* Mutant: every scan starts from the first tool. *)
NextCursorAtStart(pass) == 0

(* After a full page the next scan goes on behind it, otherwise from the start. *)
NextCursor(pass) ==
  IF Cardinality(pass.found) < PageLimit THEN 0
  ELSE CHOOSE t \in pass.found : \A u \in pass.found : u <= t

Released(w, cursor) ==
  detector' = IF detector.holder = w
                THEN [detector EXCEPT !.lease = "none", !.holder = "none", !.due = FALSE, !.cursor = cursor]
                ELSE detector

CompleteScan(w) ==
  /\ passes[w].at = "complete"
  /\ Released(w, NextCursor(passes[w]))
  /\ Scanned(w)
  /\ UNCHANGED <<polluted, candidates, faults>>

Scanning(w) == passes[w].at \in {"cursor", "read", "upsert", "complete", "failing"}

(* A statement of the scan raises, having been applied or not. *)
ScanRaises(w) ==
  /\ Scanning(w) /\ passes[w].at # "failing"
  /\ MayRaise
  /\ \/ UNCHANGED <<candidates, detector>>
     \/ passes[w].at = "upsert" /\ Upsert(passes[w].found) /\ UNCHANGED detector
     \/ passes[w].at = "complete" /\ Released(w, NextCursor(passes[w])) /\ UNCHANGED candidates
  /\ Goes(w, [passes[w] EXCEPT !.at = "failing"])
  /\ UNCHANGED polluted

(* The statement that records the failure, which may raise itself. *)
FailScan(w) ==
  /\ passes[w].at = "failing"
  /\ \/ Released(w, detector.cursor) /\ UNCHANGED faults
     \/ MayRaise /\ UNCHANGED detector
  /\ Scanned(w)
  /\ UNCHANGED <<polluted, candidates>>

(* After half an hour: the holder is gone, or its statements took that long. *)
DetectorLeaseExpires ==
  /\ detector.lease = "held"
  /\ IF Scanning(detector.holder) THEN MayRaise ELSE UNCHANGED faults
  /\ detector' = [detector EXCEPT !.lease = "expired"]
  /\ UNCHANGED <<polluted, candidates, passes>>

ScanFallsDue ==
  /\ Rescans
  /\ detector.known /\ ~detector.due
  /\ detector' = [detector EXCEPT !.due = TRUE]
  /\ UNCHANGED <<polluted, candidates, passes, faults>>

(* Captures and texts change. *)
PollutionChanges(t) ==
  /\ polluted' = IF t \in polluted THEN polluted \ {t} ELSE polluted \cup {t}
  /\ UNCHANGED <<candidates, detector, passes, faults>>

(* A reviewer turns a candidate down for a while. *)
Reject(t) ==
  /\ candidates[t].status = "pending"
  /\ candidates' = [candidates EXCEPT ![t].status = "rejected", ![t].cooling = TRUE]
  /\ UNCHANGED <<polluted, detector, passes, faults>>

CooldownEnds(t) ==
  /\ candidates[t].cooling
  /\ candidates' = [candidates EXCEPT ![t].cooling = FALSE]
  /\ UNCHANGED <<polluted, detector, passes, faults>>

ScanStep(w) == \/ ClaimScan(w) \/ LoadCursor(w) \/ ReadPage(w)
               \/ UpsertCandidates(w) \/ CompleteScan(w) \/ FailScan(w)
=============================================================================
