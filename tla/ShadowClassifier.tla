-------------------------- MODULE ShadowClassifier --------------------------
(***************************************************************************)
(* The pass of the taxonomy worker without the batch pipeline              *)
(* (src/taxonomy_shadow.py, src/classification_anomalies.py): scan, load   *)
(* the approved reclassifications, the tools without a result and the      *)
(* profiles without capabilities, classify a few at a time, and settle the *)
(* reclassification a result belongs to.                                   *)
(*                                                                         *)
(* Every statement commits by itself.  A market an answer names has passed *)
(* the admission gates; further markets of an answer are left out, and so  *)
(* are labels and primaries a human owns (TaxonomyBatch has them).         *)
(***************************************************************************)
EXTENDS Sequences, AnomalyDetector, TaxonomyAssignments

CONSTANTS
  Requests,     \* reclassification requests that may be made, by number
  Classified,   \* tools with a result of their own and a primary, polluted
  Mislabeled,   \* tools an older prompt labelled non_product
  Published,    \* tools that are published
  Changing,     \* tools whose texts are cleaned and polluted again
  MaxAttempts,  \* classification_reprocess_requests.max_attempts
  MaxFailures,  \* failed runs after which a tool is left alone (3)
  BatchLimit,   \* taxonomy_limit
  Concurrency,  \* taxonomy_concurrency
  Outcomes,     \* classifications that name no market
  CapabilityAnswers,  \* what the question for capabilities comes to
  MaxCrashes    \* bound: stops of a process

VARIABLES
  requests,  \* classification_reprocess_requests
  kinds,     \* tools.entity_kind, none of them set by hand
  profiles,  \* tools with a stored profile that names capabilities
  assign,    \* product_taxonomy_assignments
  runs,      \* classification_runs, in order of id
  work,      \* the row a pass has of a tool, and how far it is
  crashes    \* stops so far

scanVars == <<polluted, candidates, detector>>
toolVars == <<kinds, profiles, assign, runs>>
shadowVars == <<scanVars, toolVars, passes, requests, work, faults, crashes>>

---------------------------------------------------------------------------
NoRequest == [status |-> "none", tool |-> 0, attempts |-> 0, lease |-> "none", run |-> 0]
Active == {"queued", "running"}
Settled == {"succeeded", "needs_manual", "failed"}

Says(outcome) == [outcome |-> outcome, market |-> "none", capability |-> "none"]
NoAnswer == Says("none")
Answers == {Says(o) : o \in Outcomes}
             \cup [outcome : {"accepted"}, market : Markets, capability : CapabilityAnswers]
CapabilityOnly == [outcome : {"backfill"}, market : {"none"}, capability : CapabilityAnswers]

NoTask == [at |-> "none", reason |-> "none", kind |-> "none", request |-> 0, token |-> 0,
           answer |-> NoAnswer, run |-> 0]

(* resolve_entity_decision for a label no human wrote. *)
KindOf(answer) ==
  CASE answer.outcome \in {"unreadable", "blocked", "unclear"} -> "unresolved"
    [] answer.outcome = "nonproduct" -> "non_product"
    [] OTHER -> "product"

NamesCapabilities(answer) == answer.outcome \in {"l1_failed", "weak", "accepted"}

Fails(answer) == answer.capability \in {"error", "blocked"}

(* The provider turned the worker away, and the error of the item says so. *)
Blocks(answer) ==
  answer.outcome = "blocked" \/ (answer.outcome = "backfill" /\ answer.capability = "blocked")

(* How the run of an answer ends, for a row read with that label. *)
EndStatus(answer, kind) ==
  CASE answer.outcome \in {"unreadable", "blocked"} ->
         IF kind = "non_product" THEN "partial" ELSE "failed"
    [] answer.outcome \in {"unclear", "silent", "weak"} -> "partial"
    [] answer.outcome = "nonproduct" -> "skipped"
    [] answer.outcome = "l1_failed" -> "failed"
    [] answer.outcome = "accepted" -> IF Fails(answer) THEN "partial" ELSE "succeeded"
    [] OTHER -> IF Fails(answer) THEN "failed"
                ELSE IF answer.capability = "nothing" THEN "partial" ELSE "succeeded"

WritesRows(answer) == answer.market # "none" \/ answer.capability \in Capabilities

---------------------------------------------------------------------------
(* The runs of a tool: full ones and backfills of this prompt, older ones. *)
Ended(t, of) == \E i \in DOMAIN runs[t] : /\ runs[t][i].of \in of
                                          /\ runs[t][i].status \in {"succeeded", "partial", "skipped"}
Failures(t, of) == Cardinality({i \in DOMAIN runs[t] : runs[t][i].of \in of /\ runs[t][i].status = "failed"})

Recheck(t) == t \in Published /\ kinds[t] = "non_product"

(* load_shadow_tasks with the options of the worker.  The incident cohort of
   an earlier provider is left out. *)
Wanted(t) ==
  /\ kinds[t] # "non_product" \/ Recheck(t)
  /\ ~Ended(t, {"full", "backfill"} \cup (IF Recheck(t) THEN {} ELSE {"older"}))
  /\ Failures(t, {"full", "backfill"}) < MaxFailures

Before(t, u) == IF Recheck(t) = Recheck(u) THEN t < u ELSE Recheck(t)

NormalRows(limit) ==
  {t \in Tools : Wanted(t) /\ Cardinality({u \in Tools : Wanted(u) /\ Before(u, t)}) < limit}

(* load_capability_backfill_tasks: one capability stands for enough. *)
Backfillable(t) ==
  /\ kinds[t] = "product" /\ t \in profiles
  /\ ~HasActiveCapability(assign[t])
  /\ ~Ended(t, {"backfill"}) /\ Failures(t, {"backfill"}) < MaxFailures

BackfillRows(limit) ==
  {t \in Tools : Backfillable(t) /\ Cardinality({u \in Tools : Backfillable(u) /\ u < t}) < limit}

Free(request) == request.status = "queued" \/ (request.status = "running" /\ request.lease = "expired")

(* claim_reclassification_request *)
Claimable(request) == request.attempts < MaxAttempts /\ Free(request)

(* Mutant: the queue is read without a look at the attempts. *)
LoadableForEver(request) == Free(request)

(* load_queued_reclassification_tasks *)
Loadable(request) == request.attempts < MaxAttempts /\ Free(request)

QueuedRows ==
  {r \in Requests : /\ Loadable(requests[r])
                    /\ Cardinality({q \in Requests : q < r /\ Loadable(requests[q])}) < BatchLimit}

---------------------------------------------------------------------------
RowsOf(w) == {t \in Tools : work[w][t].at # "none"}
Waiting(w) == {t \in RowsOf(w) : work[w][t].at = "waiting"}

Task(reason, t) == [NoTask EXCEPT !.at = "waiting", !.reason = reason, !.kind = kinds[t]]

Adds(w, reason, more) ==
  work' = [work EXCEPT ![w] = [t \in Tools |-> IF t \in more \ RowsOf(w) THEN Task(reason, t) ELSE @[t]]]

LoadQueue(w) ==
  /\ passes[w].at = "queue"
  /\ \/ /\ work' = [work EXCEPT ![w] = [t \in Tools |->
             IF \E r \in QueuedRows : requests[r].tool = t
               THEN [Task("queued", t) EXCEPT !.request = CHOOSE r \in QueuedRows : requests[r].tool = t]
               ELSE NoTask]]
        /\ UNCHANGED faults
     \/ MayRaise /\ UNCHANGED work
  /\ Goes(w, [passes[w] EXCEPT !.at = "normal"])
  /\ UNCHANGED <<scanVars, toolVars, requests, crashes>>

(* The limit cuts before the tools that are queued anyway are left out. *)
LoadNormal(w) ==
  /\ passes[w].at = "normal"
  /\ Adds(w, "normal", NormalRows(BatchLimit - Cardinality(RowsOf(w))))
  /\ Goes(w, [passes[w] EXCEPT !.at = "backfill"])
  /\ UNCHANGED <<scanVars, toolVars, requests, faults, crashes>>

LoadBackfill(w) ==
  /\ passes[w].at = "backfill"
  /\ Adds(w, "backfill", BackfillRows(BatchLimit - Cardinality(RowsOf(w))))
  /\ Goes(w, [passes[w] EXCEPT !.at = "work"])
  /\ UNCHANGED <<scanVars, toolVars, requests, faults, crashes>>

Claim(r) ==
  requests' = [requests EXCEPT ![r].status = "running", ![r].lease = "held", ![r].attempts = @ + 1]

Dropped(w, t) == work' = [work EXCEPT ![w][t] = NoTask]
Moves(w, t, task) == work' = [work EXCEPT ![w][t] = task]

(* A row gets one of the places of the semaphore; the order of the rows is
   left open.  After a provider block the rest of the batch is deferred. *)
Begin(w, t) ==
  LET task == work[w][t] IN
  /\ passes[w].at = "work" /\ task.at = "waiting"
  /\ Cardinality(RowsOf(w) \ Waiting(w)) < Concurrency
  /\ IF passes[w].blocked THEN Dropped(w, t) /\ UNCHANGED requests
     ELSE IF task.request = 0 THEN Moves(w, t, [task EXCEPT !.at = "classify"]) /\ UNCHANGED requests
     ELSE IF Claimable(requests[task.request])
       THEN /\ Claim(task.request)
            /\ Moves(w, t, [task EXCEPT !.at = "classify", !.token = requests[task.request].attempts + 1])
       ELSE Dropped(w, t) /\ UNCHANGED requests
  /\ UNCHANGED <<scanVars, toolVars, passes, faults, crashes>>

(* The model calls of an item; what they raise is part of the answer. *)
Classify(w, t) ==
  LET task == work[w][t] IN
  /\ task.at = "classify"
  /\ \E answer \in IF task.reason = "backfill" THEN CapabilityOnly ELSE Answers :
       Moves(w, t, [task EXCEPT !.answer = answer,
                                !.at = IF task.reason = "backfill" THEN "record" ELSE "label"])
  /\ UNCHANGED <<scanVars, toolVars, passes, requests, faults, crashes>>

---------------------------------------------------------------------------
(* The statements that write a result: which comes after which, *)
Following(task) ==
  CASE task.at = "label" -> "profile"
    [] task.at = "profile" -> "record"
    [] task.at = "record" -> IF task.answer.market # "none" THEN "retire"
                             ELSE IF WritesRows(task.answer) THEN "capability" ELSE "settle"
    [] task.at = "retire" -> "primary"
    [] task.at = "primary" -> IF task.answer.capability \in Capabilities THEN "capability" ELSE "supersede"
    [] task.at = "capability" -> "supersede"
    [] task.at = "supersede" -> "status"
    [] OTHER -> "settle"

Statements == {"label", "profile", "record", "retire", "primary", "capability", "supersede", "status"}

(* The dimensions the result speaks of. *)
Spoken(answer) == (IF answer.market # "none" THEN Markets ELSE {})
                    \cup (IF answer.capability \in Capabilities THEN Capabilities ELSE {})

(* Mutant: the run says at once how it will end. *)
RecordedAs(task) == EndStatus(task.answer, task.kind)

(* A run whose rows are still to be written is partial until they are. *)
Recorded(task) == IF WritesRows(task.answer) THEN "partial" ELSE EndStatus(task.answer, task.kind)

SetAssign(t, rows) == assign' = [assign EXCEPT ![t] = rows]

(* and what each of them writes. *)
Write(t, task) ==
  \/ /\ task.at = "label"
     /\ kinds' = [kinds EXCEPT ![t] = KindOf(task.answer)]
     /\ UNCHANGED <<profiles, assign, runs>>
  \/ /\ task.at = "profile"
     /\ profiles' = IF NamesCapabilities(task.answer) THEN profiles \cup {t} ELSE profiles \ {t}
     /\ UNCHANGED <<kinds, assign, runs>>
  \/ /\ task.at = "record"
     /\ runs' = [runs EXCEPT ![t] = Append(@, [status |-> Recorded(task),
                                               of |-> IF task.reason = "backfill" THEN "backfill" ELSE "full"])]
     /\ UNCHANGED <<kinds, profiles, assign>>
  \/ /\ task.at = "retire"
     /\ SetAssign(t, RetireOtherPrimaries(assign[t], task.answer.market))
     /\ UNCHANGED <<kinds, profiles, runs>>
  \/ /\ task.at = "primary"
     /\ SetAssign(t, LET write == PrimaryWrite(FALSE)
                     IN UpsertAssignment(assign[t], task.answer.market, write.primary, write.status, task.run))
     /\ UNCHANGED <<kinds, profiles, runs>>
  \/ /\ task.at = "capability"
     /\ SetAssign(t, UpsertAssignment(assign[t], task.answer.capability, FALSE, "provisional", task.run))
     /\ UNCHANGED <<kinds, profiles, runs>>
  \/ /\ task.at = "supersede"
     /\ SetAssign(t, SupersedeAuto(assign[t], Spoken(task.answer), task.run))
     /\ UNCHANGED <<kinds, profiles, runs>>
  \/ /\ task.at = "status"
     /\ runs' = [runs EXCEPT ![t][task.run].status = EndStatus(task.answer, task.kind)]
     /\ UNCHANGED <<kinds, profiles, assign>>

(* An item that ends without a request is done. *)
Advances(w, t, task, next) ==
  IF next \in {"settle", "failing"} /\ task.request = 0
    THEN Dropped(w, t)
    ELSE Moves(w, t, [task EXCEPT !.at = next,
                                  !.run = IF task.at = "record" /\ next # "failing" THEN Len(runs[t]) + 1 ELSE @])

(* The statement, and with the last one the block the item met is noted. *)
Statement(w, t) ==
  LET task == work[w][t] IN
  /\ task.at \in Statements
  /\ Write(t, task)
  /\ Advances(w, t, task, Following(task))
  /\ passes' = [passes EXCEPT ![w].blocked = @ \/ (Following(task) = "settle" /\ Blocks(task.answer))]
  /\ UNCHANGED <<scanVars, requests, faults, crashes>>

(* A statement raises, having been applied or not. *)
StatementRaises(w, t) ==
  LET task == work[w][t] IN
  /\ task.at \in Statements
  /\ MayRaise
  /\ Write(t, task) \/ UNCHANGED toolVars
  /\ Advances(w, t, task, "failing")
  /\ UNCHANGED <<scanVars, passes, requests, crashes>>

---------------------------------------------------------------------------
(* Mutant: whoever claimed it last, the request is settled. *)
HoldsAnyway(task) == requests[task.request].status = "running"

(* Every claim takes an attempt, so the attempt stands for its token. *)
Holds(task) == /\ requests[task.request].status = "running"
               /\ requests[task.request].attempts = task.token

SetRequest(r, status, run) ==
  requests' = [requests EXCEPT ![r].status = status, ![r].lease = "none", ![r].run = run]

(* Mutant: a failed request is always queued again. *)
FailRequestAgain(task) == SetRequest(task.request, "queued", requests[task.request].run)

(* fail_reclassification_request *)
FailRequest(task) ==
  SetRequest(task.request, IF requests[task.request].attempts < MaxAttempts THEN "queued" ELSE "failed",
             requests[task.request].run)

(* Mutant: a tool that turned out to be no product is repaired as well. *)
RepairsSkipped(status) == status \in {"succeeded", "skipped"}

Repairs(status) == status = "succeeded"

(* complete_reclassification_request; a result that looks polluted again goes
   to a reviewer. *)
CompleteRequest(t, task) ==
  \E clean \in BOOLEAN :
    SetRequest(task.request,
               IF Repairs(EndStatus(task.answer, task.kind)) /\ clean THEN "succeeded" ELSE "needs_manual", task.run)

Result(t, task) == IF task.at = "failing" \/ EndStatus(task.answer, task.kind) = "failed"
                     THEN FailRequest(task) ELSE CompleteRequest(t, task)

Completes(task) == task.at = "settle" /\ EndStatus(task.answer, task.kind) # "failed"

Settle(w, t) ==
  LET task == work[w][t] IN
  /\ task.at \in {"settle", "failing"}
  /\ IF Holds(task)
       THEN /\ Result(t, task)
            /\ IF Completes(task) THEN Moves(w, t, [task EXCEPT !.at = "anomaly"]) ELSE Dropped(w, t)
       ELSE Dropped(w, t) /\ UNCHANGED requests
  /\ UNCHANGED <<scanVars, toolVars, passes, faults, crashes>>

(* The batch that tells the candidate. *)
TellCandidate(t, r) ==
  candidates' = [candidates EXCEPT ![t].request = r,
                                   ![t].status = IF requests[r].status = "succeeded" THEN "resolved" ELSE "approved"]

Tell(w, t) ==
  /\ work[w][t].at = "anomaly"
  /\ TellCandidate(t, work[w][t].request)
  /\ Dropped(w, t)
  /\ UNCHANGED <<polluted, detector, toolVars, passes, requests, faults, crashes>>

(* What settling raises is logged, and the item is done. *)
SettleRaises(w, t) ==
  LET task == work[w][t] IN
  /\ MayRaise
  /\ \/ task.at \in {"settle", "failing", "anomaly"} /\ UNCHANGED <<candidates, requests>>
     \/ task.at \in {"settle", "failing"} /\ Holds(task) /\ Result(t, task) /\ UNCHANGED candidates
     \/ task.at = "anomaly" /\ TellCandidate(t, task.request) /\ UNCHANGED requests
  /\ Dropped(w, t)
  /\ UNCHANGED <<polluted, detector, toolVars, passes, crashes>>

---------------------------------------------------------------------------
Stops(w) == Goes(w, NoPass) /\ work' = [work EXCEPT ![w] = [t \in Tools |-> NoTask]]

EndPass(w) ==
  /\ passes[w].at = "work" /\ RowsOf(w) = {}
  /\ Stops(w)
  /\ UNCHANGED <<scanVars, toolVars, requests, faults, crashes>>

(* A load or a claim raises, applied or not: the pass ends, and the items
   under way find their client closed. *)
PassRaises(w) ==
  /\ MayRaise
  /\ \/ passes[w].at \in {"normal", "backfill"} /\ UNCHANGED requests
     \/ /\ passes[w].at = "work" /\ ~passes[w].blocked
        /\ \E t \in Waiting(w) :
             LET r == work[w][t].request IN
             /\ r # 0
             /\ UNCHANGED requests \/ (Claimable(requests[r]) /\ Claim(r))
  /\ Stops(w)
  /\ UNCHANGED <<scanVars, toolVars, crashes>>

(* The process stops and starts again. *)
Crash(w) ==
  /\ passes[w].at # "idle"
  /\ crashes < MaxCrashes /\ crashes' = crashes + 1
  /\ Stops(w)
  /\ UNCHANGED <<scanVars, toolVars, requests, faults>>

RequestLeaseExpires(r) ==
  /\ requests[r].lease = "held"
  /\ requests' = [requests EXCEPT ![r].lease = "expired"]
  /\ UNCHANGED <<scanVars, toolVars, passes, work, faults, crashes>>

(* A reviewer approves a candidate: its request is queued, and a tool has one
   active request at most. *)
Approve(t) ==
  /\ candidates[t].status \in {"pending", "approved"}
  /\ \A r \in Requests : requests[r].tool = t => requests[r].status \notin Active
  /\ \E r \in Requests :
       /\ requests[r].status = "none"
       /\ \A q \in Requests : requests[q].status = "none" => r <= q
       /\ requests' = [requests EXCEPT ![r] = [NoRequest EXCEPT !.status = "queued", !.tool = t]]
       /\ candidates' = [candidates EXCEPT ![t].status = "approved", ![t].request = r]
  /\ UNCHANGED <<polluted, detector, toolVars, passes, work, faults, crashes>>

---------------------------------------------------------------------------
Accepted(market) ==
  [NoRows EXCEPT ![market] = [source |-> "auto", status |-> "auto_accepted", primary |-> TRUE, run |-> 1]]

Init ==
  /\ polluted = Classified
  /\ candidates = [t \in Tools |-> NoCandidate]
  /\ detector = NewDetector
  /\ passes = [w \in Workers |-> NoPass]
  /\ requests = [r \in Requests |-> NoRequest]
  /\ kinds = [t \in Tools |-> CASE t \in Classified -> "product"
                                [] t \in Mislabeled -> "non_product"
                                [] OTHER -> "unresolved"]
  /\ profiles = {}
  /\ assign = [t \in Tools |-> IF t \in Classified THEN Accepted(CHOOSE m \in Markets : TRUE) ELSE NoRows]
  /\ runs = [t \in Tools |-> CASE t \in Classified -> <<[status |-> "succeeded", of |-> "full"]>>
                               [] t \in Mislabeled -> <<[status |-> "skipped", of |-> "older"]>>
                               [] OTHER -> <<>>]
  /\ work = [w \in Workers |-> [t \in Tools |-> NoTask]]
  /\ faults = 0 /\ crashes = 0

restVars == <<toolVars, requests, work, crashes>>

PassStep(w) ==
  \/ ScanStep(w) /\ UNCHANGED restVars
  \/ LoadQueue(w) \/ LoadNormal(w) \/ LoadBackfill(w) \/ EndPass(w)
  \/ \E t \in Tools : Begin(w, t) \/ Classify(w, t) \/ Statement(w, t) \/ Settle(w, t) \/ Tell(w, t)

Trouble(w) ==
  \/ (ClaimRaises(w) \/ ScanRaises(w)) /\ UNCHANGED restVars
  \/ PassRaises(w) \/ Crash(w)
  \/ \E t \in Tools : StatementRaises(w, t) \/ SettleRaises(w, t)

ScanAgain == ScanFallsDue /\ UNCHANGED restVars

LeaseExpires ==
  \/ DetectorLeaseExpires /\ UNCHANGED restVars
  \/ \E r \in Requests : RequestLeaseExpires(r)

Review(t) ==
  \/ Reject(t) /\ UNCHANGED restVars
  \/ CooldownEnds(t) /\ UNCHANGED restVars
  \/ Approve(t)

Next ==
  \/ \E w \in Workers : PassStep(w) \/ Trouble(w)
  \/ ScanAgain \/ LeaseExpires
  \/ \E t \in Tools : Review(t)
  \/ \E t \in Changing : PollutionChanges(t) /\ UNCHANGED restVars

Fairness ==
  /\ \A w \in Workers : WF_shadowVars(PassStep(w))
  /\ WF_shadowVars(ScanAgain)
  /\ WF_shadowVars(LeaseExpires)

Spec == Init /\ [][Next]_shadowVars /\ Fairness

---------------------------------------------------------------------------
(* The tables hold what the code stores in them, and a row that is worked on
   is worked on by a pass. *)
TypeOK ==
  /\ polluted \subseteq Tools /\ profiles \subseteq Tools
  /\ candidates \in [Tools -> [status : {"none", "pending", "approved", "rejected", "resolved"},
                               cooling : BOOLEAN, request : Requests \cup {0}]]
  /\ requests \in [Requests -> [status : Active \cup Settled \cup {"none"}, tool : Tools \cup {0},
                                attempts : 0..MaxAttempts, lease : {"none", "held", "expired"}, run : Nat]]
  /\ kinds \in [Tools -> {"product", "non_product", "unresolved"}]
  /\ assign \in [Tools -> Rows]
  /\ \A w \in Workers : (RowsOf(w) \ Waiting(w)) # {} => passes[w].at = "work"

(* A tool whose newest full run says it succeeded has the primary that run
   decided, or a run is under way: a stop, or a statement that raises, between
   the rows of a result leaves a run that does not claim success. *)
SuccessHasPrimary ==
  \A t \in Tools :
    LET full == {i \in DOMAIN runs[t] : runs[t][i].of = "full"} IN
    (/\ full # {}
     /\ runs[t][CHOOSE i \in full : \A j \in full : j <= i].status = "succeeded"
     /\ \A w \in Workers : work[w][t].at \in {"none", "waiting"}) => HasTrustedPrimary(assign[t])

(* A candidate is resolved only by a reclassification that wrote a primary,
   and that primary is the one the tool shows. *)
ResolvedIsRepaired ==
  \A t \in Tools : candidates[t].status = "resolved" =>
    LET r == candidates[t].request IN
    /\ requests[r].status = "succeeded"
    /\ \E m \in Markets : /\ assign[t][m].primary /\ assign[t][m].status \in TrustedStatuses
                          /\ assign[t][m].run = requests[r].run

(* A request that is still to be answered belongs to an approved candidate
   that knows it: no scan reopens the candidate meanwhile, whatever it read
   before the approval. *)
ActiveIsApproved ==
  \A r \in Requests : requests[r].status \in Active =>
    LET c == candidates[requests[r].tool] IN c.status = "approved" /\ c.request = r

(* A running request is settled, or queued again, only by the execution that
   claimed it last, though its lease may have expired under it. *)
ClaimSettles ==
  \A r \in Requests :
    (requests[r].status = "running" /\ requests'[r].status # "running") =>
      \E w \in Workers, t \in Tools :
        /\ work[w][t].request = r /\ work[w][t].token = requests[r].attempts
        /\ work[w][t].at \in {"settle", "failing"}

OnlyTheClaimSettles == [][ClaimSettles]_requests

(* Every request comes to rest: it is answered, given up, or left running by
   a process that stopped in the last attempt. *)
Rests(r) ==
  \/ requests[r].status \in Settled \cup {"none"}
  \/ /\ requests[r].status = "running" /\ requests[r].attempts = MaxAttempts
     /\ \A w \in Workers, t \in Tools : work[w][t].request # r

RequestsComeToRest == <>[](\A r \in Requests : Rests(r))

(* Every tool that a pass would select has a result in the end, or failed as
   often as it may. *)
AllClassified == \A t \in Tools : ~Wanted(t)

ToolsAreClassified == <>[]AllClassified

(* A tool that stays polluted becomes a candidate, however many polluted tools
   there are before it, and whoever stops during a scan. *)
Reported(t) == t \notin polluted \/ candidates[t].status # "none"

PollutedIsReported == \A t \in Tools : (t \in polluted) ~> Reported(t)
=============================================================================
