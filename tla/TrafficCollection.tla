------------------------- MODULE TrafficCollection -------------------------
(***************************************************************************)
(* What the collection of traffic months promises to its readers, without  *)
(* leases and processes.  Collecting a month of a domain is open, then     *)
(* settles; a measured month stays measured; 'done' is said only of a       *)
(* stored month; and absence (no_data, forbidden) is never taken back.      *)
(***************************************************************************)
EXTENDS Naturals

CONSTANTS
  Domains,   \* monitored domains
  Months     \* months that may be collected

VARIABLES
  progress,  \* per key: what traffic_tasks says of the month
  rows       \* per key: the row in domain_traffic_monthly

collection == <<progress, rows>>

Keys == Domains \X Months

Absences == {"no_data", "forbidden"}
Outcomes == {"done", "failed"} \cup Absences
Progress == {"absent", "open"} \cup Outcomes

(* A row without visits is stored when only a rank was observed.            *)
RowKinds == {"absent", "unmeasured", "measured"}

(* What a row holds only grows: a month that was measured stays measured.   *)
Holds(row) == CASE row = "absent" -> 0 [] row = "unmeasured" -> 1 [] row = "measured" -> 2

(* A response of the provider about one domain, for any of its months.      *)
Receive(d) ==
  /\ \E seen \in [Months -> RowKinds] :
       /\ \A m \in Months : Holds(seen[m]) >= Holds(rows[d, m])
       /\ rows' = [k \in Keys |-> IF k[1] = d THEN seen[k[2]] ELSE rows[k]]
  /\ UNCHANGED progress

(* A month is queued for the first time, tried again, or collected anew.    *)
Open(k) ==
  /\ progress[k] \in {"absent", "failed", "done"}
  /\ progress' = [progress EXCEPT ![k] = "open"]
  /\ UNCHANGED rows

Settle(k, outcome) ==
  /\ progress[k] = "open"
  /\ outcome = "done" => rows[k] # "absent"
  /\ progress' = [progress EXCEPT ![k] = outcome]
  /\ UNCHANGED rows

Init ==
  /\ progress = [k \in Keys |-> "absent"]
  /\ rows = [k \in Keys |-> "absent"]

Next ==
  \/ \E d \in Domains : Receive(d)
  \/ \E k \in Keys : Open(k) \/ \E outcome \in Outcomes : Settle(k, outcome)

Spec == Init /\ [][Next]_collection
=============================================================================
