--------------------------- MODULE CatalogReview ---------------------------
(***************************************************************************)
(* From an enriched tool to a published one (src/workloads/assets): every  *)
(* batch first publishes what passes review, and at its end evaluates the  *)
(* readiness of tools and promotes the ready ones to review.  What is read *)
(* is written by others: the tasks of the batch, the taxonomy, Discovery.  *)
(* Statements are steps; an evaluation is a read and two writes.           *)
(***************************************************************************)
CONSTANTS
  Products,   \* tools of the catalog, with their source evidence
  Reviewers,  \* processes that run the workload
  Changes,    \* a subset of {"named", "safe", "accepted", "retired", "held", "released"}
  Failures    \* a subset of {"error", "crash"}

VARIABLES
  catalog,     \* tools: status, safety, name, accepted category, hold
  states,      \* tool_enrichment_states
  changeLog,   \* tools whose publication tool_change_log reports
  rounds,      \* per process: phase of its batch and what it selected
  evaluations  \* evaluations under way

reviewVars == <<catalog, states, changeLog, rounds, evaluations>>

Entry == [status : {"pending_enrich", "pending_review", "published"}, safe : BOOLEAN,
          named : BOOLEAN, accepted : BOOLEAN, held : BOOLEAN]

(* touched: tools.updated_at is later than evaluated_at. *)
Blockers == {"published_localization", "category"}
State == [readiness : {"absent", "ready", "blocked"}, blocking : SUBSET Blockers, touched : BOOLEAN]

Round == [phase : {"idle", "log", "commit", "work", "reconcile", "reconciling"},
          todo : SUBSET Products, logged : SUBSET Products]

Evaluation == [runner : Reviewers, tool : Products, step : {"read", "write", "promote"},
               blocking : SUBSET Blockers]

TypeOK == /\ catalog \in [Products -> Entry]
          /\ states \in [Products -> State]
          /\ changeLog \subseteq Products
          /\ rounds \in [Reviewers -> Round]
          /\ evaluations \subseteq Evaluation

Resting == [phase |-> "idle", todo |-> {}, logged |-> {}]

Init == /\ catalog = [t \in Products |-> [status |-> "pending_enrich", safe |-> FALSE, named |-> FALSE,
                                       accepted |-> FALSE, held |-> FALSE]]
        /\ states = [t \in Products |-> [readiness |-> "absent", blocking |-> {}, touched |-> FALSE]]
        /\ changeLog = {}
        /\ rounds = [r \in Reviewers |-> Resting]
        /\ evaluations = {}

Goto(r, phase) == rounds' = [rounds EXCEPT ![r] = [Resting EXCEPT !.phase = phase]]
EvaluationsOf(r) == {v \in evaluations : v.runner = r}

---------------------------------------------------------------------------
(* D1CatalogPublisher.publish_ready *)

(* tool_live_ready_predicate AND tool_auto_publish_admission_predicate *)
Ready(t) == /\ catalog[t].safe /\ states[t].readiness = "ready"
            /\ catalog[t].named /\ catalog[t].accepted
Publishable(t) == catalog[t].status = "pending_review" /\ Ready(t) /\ ~catalog[t].held

SelectReviewed(r) ==
  /\ rounds[r].phase = "idle"
  /\ LET found == {t \in Products : Publishable(t)}
     IN IF found = {} THEN Goto(r, "work")
        ELSE rounds' = [rounds EXCEPT ![r] = [phase |-> "log", todo |-> found, logged |-> {}]]
  /\ UNCHANGED <<catalog, states, changeLog, evaluations>>

(* The commit batch: each of its two statements evaluates the predicate. *)
LogPublication(r) ==
  /\ rounds[r].phase = "log"
  /\ rounds' = [rounds EXCEPT ![r].phase = "commit",
                              ![r].logged = {t \in rounds[r].todo : Publishable(t)}]
  /\ UNCHANGED <<catalog, states, changeLog, evaluations>>

Publishes(r) == {t \in rounds[r].todo : Publishable(t)}

CommitPublication(r) ==
  /\ rounds[r].phase = "commit"
  /\ changeLog' = changeLog \cup rounds[r].logged
  /\ catalog' = [t \in Products |-> IF t \in Publishes(r) THEN [catalog[t] EXCEPT !.status = "published"]
                                    ELSE catalog[t]]
  /\ states' = [t \in Products |-> IF t \in Publishes(r) THEN [states[t] EXCEPT !.touched = TRUE]
                                   ELSE states[t]]
  /\ Goto(r, "work")
  /\ UNCHANGED evaluations

(* An exception of the publication is caught; nothing of it is committed. *)
PublicationRaises(r) ==
  /\ "error" \in Failures /\ rounds[r].phase \in {"log", "commit"}
  /\ Goto(r, "work")
  /\ UNCHANGED <<catalog, states, changeLog, evaluations>>

---------------------------------------------------------------------------
(* D1EnrichmentStore *)

Evaluates(r, tools) ==
  evaluations' = evaluations \cup
    {[runner |-> r, tool |-> t, step |-> "read", blocking |-> {}] : t \in tools}

(* The claimed tools, whichever they are, then those the SELECT returns. *)
EvaluateClaimed(r) ==
  /\ rounds[r].phase = "work"
  /\ \E claimed \in SUBSET Products : Evaluates(r, claimed)
  /\ Goto(r, "reconcile")
  /\ UNCHANGED <<catalog, states, changeLog>>

(* Mutant: a tool once evaluated is left alone until its row is touched. *)
OutdatedOnce(t) == states[t].readiness = "absent" \/ states[t].touched

Outdated(t) == \/ states[t].readiness = "absent" \/ states[t].touched
               \/ "published_localization" \in states[t].blocking
               \/ "category" \in states[t].blocking /\ catalog[t].accepted

ReconcileActiveTools(r) ==
  /\ rounds[r].phase = "reconcile" /\ EvaluationsOf(r) = {}
  /\ Evaluates(r, {t \in Products : Outdated(t)})
  /\ Goto(r, "reconciling")
  /\ UNCHANGED <<catalog, states, changeLog>>

EndRound(r) ==
  /\ rounds[r].phase = "reconciling" /\ EvaluationsOf(r) = {}
  /\ Goto(r, "idle")
  /\ UNCHANGED <<catalog, states, changeLog, evaluations>>

Becomes(v, next) == evaluations' = (evaluations \ {v}) \cup next

Blocking(t) == {b \in Blockers : \/ b = "published_localization" /\ ~catalog[t].named
                                 \/ b = "category" /\ ~catalog[t].accepted}

ReadReadiness(v) ==
  /\ v.step = "read"
  /\ Becomes(v, {[v EXCEPT !.step = "write", !.blocking = Blocking(v.tool)]})
  /\ UNCHANGED <<catalog, states, changeLog, rounds>>

WriteReadiness(v) ==
  /\ v.step = "write"
  /\ states' = [states EXCEPT ![v.tool] =
       [readiness |-> IF v.blocking = {} THEN "ready" ELSE "blocked",
        blocking |-> v.blocking, touched |-> FALSE]]
  /\ Becomes(v, IF v.blocking = {} THEN {[v EXCEPT !.step = "promote"]} ELSE {})
  /\ UNCHANGED <<catalog, changeLog, rounds>>

(* Mutant: the status is not compared. *)
PromotedAgain(status) == "pending_review"

Promoted(status) == IF status = "pending_enrich" THEN "pending_review" ELSE status

Promote(v) ==
  /\ v.step = "promote"
  /\ catalog' = [catalog EXCEPT ![v.tool].status = Promoted(@)]
  /\ Becomes(v, {})
  /\ UNCHANGED <<states, changeLog, rounds>>

---------------------------------------------------------------------------
(* A statement of an evaluation raises and the batch is given up. *)
EvaluationRaises(v) ==
  /\ "error" \in Failures
  /\ Becomes(v, {})
  /\ rounds' = [rounds EXCEPT ![v.runner] = Resting]
  /\ UNCHANGED <<catalog, states, changeLog>>

Crash(r) ==
  /\ "crash" \in Failures /\ rounds[r].phase # "idle"
  /\ rounds' = [rounds EXCEPT ![r] = Resting]
  /\ evaluations' = evaluations \ EvaluationsOf(r)
  /\ UNCHANGED <<catalog, states, changeLog>>

(* Other writers: the tasks of the batch, the taxonomy and Discovery.  Only
   the content safety touches the row of the tool.  A new primary category is
   two commits, the retirement of the old one and the insert; Discovery holds
   tools back and releases them. *)
Changed(t, change) ==
  CASE change = "named" -> [catalog[t] EXCEPT !.named = TRUE]
    [] change = "safe" -> [catalog[t] EXCEPT !.safe = TRUE]
    [] change \in {"accepted", "retired"} -> [catalog[t] EXCEPT !.accepted = (change = "accepted")]
    [] change \in {"held", "released"} -> [catalog[t] EXCEPT !.held = (change = "held")]

Change(t, change) ==
  /\ Changed(t, change) # catalog[t]
  /\ catalog' = [catalog EXCEPT ![t] = Changed(t, change)]
  /\ states' = IF change = "safe" THEN [states EXCEPT ![t].touched = TRUE] ELSE states
  /\ UNCHANGED <<changeLog, rounds, evaluations>>

Step(r) ==
  \/ SelectReviewed(r) \/ LogPublication(r) \/ CommitPublication(r)
  \/ EvaluateClaimed(r) \/ ReconcileActiveTools(r) \/ EndRound(r)

Evaluate(v) == ReadReadiness(v) \/ WriteReadiness(v) \/ Promote(v)

ReviewNext ==
  \/ \E r \in Reviewers : Step(r) \/ PublicationRaises(r) \/ Crash(r)
  \/ \E v \in evaluations : Evaluate(v) \/ EvaluationRaises(v)
  \/ \E t \in Products, change \in Changes : Change(t, change)

(* The loop runs batch after batch; statements have a timeout. *)
ReviewFairness == /\ \A r \in Reviewers : WF_reviewVars(Step(r))
                  /\ WF_reviewVars(\E v \in evaluations : Evaluate(v))

ReviewSpec == Init /\ [][ReviewNext]_reviewVars
ReviewFairSpec == ReviewSpec /\ ReviewFairness

---------------------------------------------------------------------------
(* README, "Each successful transition writes a policy- and runner-stamped
   tool_change_log entry before the status change in the same D1 batch".  The
   two statements of the batch evaluate the predicate each for itself, so that
   this depends on what others commit between them. *)
PublishedIsLogged == \A t \in Products : catalog[t].status = "published" => t \in changeLog

(* A published tool is not sent back to review by an evaluation that read it
   before (D1EnrichmentStore.evaluate_tool). *)
StaysPublished ==
  [][\A t \in Products : catalog[t].status = "published" => catalog'[t].status = "published"]_catalog

(* A tool that comes to have all it needs and keeps it is published, however
   the reads and writes of the evaluations interleave with the changes before
   that and with each other. *)
ReadyToolsArePublished ==
  \A t \in Products :
    <>[](catalog[t].safe /\ catalog[t].named /\ catalog[t].accepted /\ ~catalog[t].held)
      => <>(catalog[t].status = "published")
=============================================================================
