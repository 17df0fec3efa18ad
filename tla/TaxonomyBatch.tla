--------------------------- MODULE TaxonomyBatch ---------------------------
(***************************************************************************)
(* The OpenAI batch pipeline of src/taxonomy_batch.py with the JEV adapter *)
(* of src/jev_taxonomy.py: one pass of the taxonomy worker applies what is *)
(* recorded, polls the remote batches, seeds new items, resumes retries    *)
(* and submits what is queued.  Every database statement commits by itself *)
(* and the process may stop between any two of them.                       *)
(*                                                                         *)
(* The pass is one sequential process.  `todo` holds the calls it still    *)
(* has to make, the innermost first: an action runs the head, performs at  *)
(* most one statement and puts the calls that follow in its place.  A stop *)
(* forgets `todo` and leaves the tables as they are.                       *)
(***************************************************************************)
EXTENDS Sequences, SequencesExt, TaxonomyAssignments

CONSTANTS
  Tools,              \* each with one item for the current catalog version
  Stored,             \* tools with a reusable profile; they start at l1
  Backfill,           \* classified tools without capabilities
  Demoted,            \* tools with an older primary that is not trusted
  Capable,            \* tools whose profile recalls capability candidates
  Upstream,           \* tools with traceable upstream evidence
  JevEnabled,         \* the JEV adapter has a key
  MaxAttempts,        \* taxonomy_retry_policy, at least 1
  SeedLimit,          \* taxonomy_limit
  CaptureOutcomes,    \* subset of {"ok", "retryable", "permanent"}
  ProfileOutputs,     \* subset of {"product", "silent", "nonproduct", "unclear", "fabricated"}
  L1Outputs,          \* subset of {"clear", "close", "empty"}
  LeafOutputs,        \* subset of Markets \cup {"weak", "none"}
  CapabilityOutputs,  \* subset of Capabilities \cup {"nothing"}
  LineErrors,         \* subset of {"retryable", "permanent", "blocked"}
  BatchEnds,          \* subset of {"completed", "failed", "unreadable"}
  Jobs,               \* identities of live rows of taxonomy_batch_jobs
  MaxFaults,          \* bound on failed provider and database calls
  MaxCrashes,         \* bound on stops of the process
  Published,          \* tools the catalog may publish at any time
  Reviewed,           \* tools whose primary a reviewer may verify
  Judged,             \* tools whose entity kind a reviewer may set
  ReviewDuringPass    \* whether the reviewers may act while a pass runs

VARIABLES
  item,     \* taxonomy_batch_items, one per tool
  req,      \* taxonomy_batch_requests by <<tool, stage, attempt>> (the custom id)
  job,      \* taxonomy_batch_jobs
  remote,   \* the provider's batches, by the local job of their metadata
  tool,     \* tools: status, entity kind and whether a human set it
  assign,   \* product_taxonomy_assignments
  runs,     \* classification_runs of this prompt: statuses, in order of id
  todo,     \* calls the running pass still has to make
  blocked,  \* provider_blocked of the running pass
  faults, crashes

vars == <<item, req, job, remote, tool, assign, runs, todo, blocked, faults, crashes>>
tables == <<item, req, job, remote, tool, assign, runs>>
world == <<blocked, faults, crashes>>

---------------------------------------------------------------------------
Stages == {"profile", "l1", "l1_escalation", "leaf", "leaf_escalation", "capability"}
Errors == {"retryable", "permanent", "blocked"}
TerminalStatuses == {"succeeded", "partial", "failed", "skipped", "needs_review"}
ReviewStatuses == {"skipped", "partial", "needs_review"}
OpenStatuses == {"queued", "submitted"}
ActiveJob == {"validating", "in_progress", "finalizing", "cancelling"}

NoItem == [status |-> "none", stage |-> "profile", retry |-> "none", tries |-> 0,
           due |-> FALSE, text |-> FALSE, profile |-> "none", l1 |-> "none",
           leaf |-> "none", cap |-> "none", run |-> 0, judged |-> "none"]
NoJob == [status |-> "none", jev |-> FALSE, batch |-> FALSE, old |-> FALSE]
NoRemote == [keys |-> {}, end |-> "none", lines |-> <<>>, error |-> "retryable"]

Key(t, stage, n) == <<t, stage, n>>
Attempts(t, stage) == {k[3] : k \in {x \in DOMAIN req : x[1] = t /\ x[2] = stage}}
Newest(t, stage) == IF Attempts(t, stage) = {} THEN 0 ELSE Max(Attempts(t, stage))
KeysOf(j, statuses) == {k \in DOMAIN req : req[k].job = j /\ req[k].status \in statuses}
Closed(t) == item[t].status \in TerminalStatuses
CapabilityOnly(t) == t \in Backfill
ProductKind(t) == tool[t].kind = "product"
Judgement(t) == IF tool[t].manual THEN tool[t].kind ELSE "none"
Eligible(t) == /\ item[t].leaf \in Markets
               /\ item[t].profile = "product"
               /\ item[t].l1 = "clear"

(* A call waiting in todo: its name, the tool, job or request it is about,
   and one more argument. *)
Call(name, about, with) == <<name, about, with>>
Do(name) == todo # <<>> /\ Head(todo)[1] = name
About == Head(todo)[2]
With == Head(todo)[3]
Then(calls) == todo' = calls \o Tail(todo)
Skip == Then(<<>>)

(* The end of a try block: a failed call inside it continues there. *)
IsMarker(c) == c[1] \in {"polled", "seeded"}
FirstMarker == SelectInSeq(todo, IsMarker)
AfterMarker == SubSeq(todo, FirstMarker, Len(todo))

Queue(name, about) == [i \in 1..Cardinality(about) |-> Call(name, SetToSeq(about)[i], "none")]

---------------------------------------------------------------------------
TypeOK ==
  /\ \A t \in Tools :
       /\ item[t].status \in TerminalStatuses \cup {"none", "pending", "running"}
       /\ item[t].stage \in Stages \cup {"complete"}
       /\ item[t].retry \in {"none", "source", "model"}
       /\ item[t].run \in 0..Len(runs[t])
       /\ assign[t] \in [Terms -> [source : {"none", "auto", "manual"},
                                   status : AutoStatuses \cup {"none", "verified", "superseded"},
                                   primary : BOOLEAN, run : 0..Len(runs[t])]]
  /\ \A k \in DOMAIN req : /\ k \in Tools \X Stages \X (Nat \ {0})
                           /\ req[k].status \in OpenStatuses \cup {"succeeded", "failed"}
                           /\ req[k].job \in Jobs \cup {"none"}
  /\ \A j \in Jobs : remote[j].keys \subseteq DOMAIN req

(* Tools enter as pending_enrich; a stored profile belongs to a product, a
   capability backfill to a tool with a trusted primary. *)
Init ==
  /\ item = [t \in Tools |-> NoItem]
  /\ req = <<>>
  /\ job = [j \in Jobs |-> NoJob]
  /\ remote = [j \in Jobs |-> NoRemote]
  /\ tool = [t \in Tools |-> [status |-> "pending_enrich", manual |-> FALSE,
                kind |-> IF t \in Stored \cup Backfill THEN "product" ELSE "unresolved"]]
  /\ LET first == CHOOSE m \in Markets : TRUE
         Older(status) == [NoRows EXCEPT ![first] =
                             [source |-> "auto", status |-> status, primary |-> TRUE, run |-> 0]]
     IN assign = [t \in Tools |-> CASE t \in Backfill -> Older("auto_accepted")
                                      [] t \in Demoted -> Older("provisional")
                                      [] OTHER -> NoRows]
  /\ runs = [t \in Tools |-> <<>>]
  /\ todo = <<>>
  /\ blocked = FALSE
  /\ faults = 0
  /\ crashes = 0

---------------------------------------------------------------------------
(* Statements on one item or one request. *)
SetItem(t, new) == item' = [item EXCEPT ![t] = new]
SetRequests(keys, f(_)) == req' = [k \in DOMAIN req |-> IF k \in keys THEN f(req[k]) ELSE req[k]]
SetJob(j, new) == job' = [job EXCEPT ![j] = new]

(* enqueue_stage: an open or answered request of the stage is taken over,
   otherwise the next attempt is inserted and the item follows. *)
EnterStage(t, stage) ==
  SetItem(t, [item[t] EXCEPT !.stage = stage, !.status = "running", !.retry = "none",
                             !.tries = 0, !.due = FALSE])

Enqueue ==
  /\ Do("enqueue")
  /\ LET t == About
         stage == With
         k == Key(t, stage, Newest(t, stage) + 1)
     IN \/ /\ \E n \in Attempts(t, stage) : req[Key(t, stage, n)].status # "failed"
           /\ EnterStage(t, stage)
           /\ Skip
           /\ UNCHANGED req
        \/ /\ \A n \in Attempts(t, stage) : req[Key(t, stage, n)].status = "failed"
           /\ req' = [x \in DOMAIN req \cup {k} |->
                        IF x = k THEN [status |-> "queued", job |-> "none", jev |-> FALSE,
                                       out |-> "none", sent |-> 0]
                                 ELSE req[x]]
           /\ Then(<<Call("enter", t, stage)>>)
           /\ UNCHANGED item
  /\ UNCHANGED <<job, remote, tool, assign, runs, world>>

Enter ==
  /\ Do("enter")
  /\ EnterStage(About, With)
  /\ Skip
  /\ UNCHANGED <<req, job, remote, tool, assign, runs, world>>

---------------------------------------------------------------------------
(* Closing an item. *)

(* complete_without_leaf: a run row unless one is recorded, the item, then
   the tool. *)
CompleteWithoutLeaf(t, status) ==
  (IF item[t].run = 0
     THEN <<Call("insertRun", t, IF status = "needs_review" THEN "partial" ELSE status)>>
     ELSE <<>>)
  \o <<Call("finish", t, status), Call("route", t, status)>>

InsertRun ==
  /\ Do("insertRun")
  /\ runs' = [runs EXCEPT ![About] = Append(@, With)]
  /\ Skip
  /\ UNCHANGED <<item, req, job, remote, tool, assign, world>>

(* Mutant: the id of the run is guessed, not read back. *)
CheckpointRunGuessed ==
  /\ Do("checkpointRun")
  /\ SetItem(About, [item[About] EXCEPT !.run = Len(runs[About]) + 1])
  /\ Skip
  /\ UNCHANGED <<req, job, remote, tool, assign, runs, world>>

CheckpointRun ==
  /\ Do("checkpointRun")
  /\ SetItem(About, [item[About] EXCEPT !.run = Len(runs[About])])
  /\ Skip
  /\ UNCHANGED <<req, job, remote, tool, assign, runs, world>>

Finish ==
  /\ Do("finish")
  /\ SetItem(About, [item[About] EXCEPT
       !.status = With, !.stage = "complete", !.text = FALSE, !.retry = "none", !.due = FALSE,
       !.run = IF @ = 0 THEN Len(runs[About]) ELSE @])
  /\ Skip
  /\ UNCHANGED <<req, job, remote, tool, assign, runs, world>>

(* Mutant: every skipped tool is rejected, whatever its kind. *)
TerminalStatusAnyKind(status, kind) == IF status = "skipped" THEN "rejected" ELSE "pending_review"

(* terminal_taxonomy_tool_status *)
TerminalToolStatus(status, kind) ==
  IF status = "skipped" /\ kind = "non_product" THEN "rejected" ELSE "pending_review"

(* route_terminal_taxonomy_tool: the kind is read first, the status moves in
   a later batch that checks pending_enrich again. *)
Route ==
  /\ Do("route")
  /\ LET target == TerminalToolStatus(With, tool[About].kind)
     IN Then(IF tool[About].status = "pending_enrich"
               THEN <<Call("moveTools", [t \in {About} |-> target], "none")>>
               ELSE <<>>)
  /\ UNCHANGED <<tables, world>>

(* Mutant: the transition does not look at the status again. *)
MovedWhatever(targets) ==
  [t \in Tools |-> IF t \in DOMAIN targets THEN [tool[t] EXCEPT !.status = targets[t]] ELSE tool[t]]

Moved(targets) ==
  [t \in Tools |-> IF t \in DOMAIN targets /\ tool[t].status = "pending_enrich"
                     THEN [tool[t] EXCEPT !.status = targets[t]] ELSE tool[t]]

MoveTools ==
  /\ Do("moveTools")
  /\ tool' = Moved(About)
  /\ Skip
  /\ UNCHANGED <<item, req, job, remote, assign, runs, world>>

(* reconcile_terminal_taxonomy_tools at the end of every pass. *)
ReconcileTerminalTools ==
  /\ Do("reconcileTerminal")
  /\ LET left == {t \in Tools : /\ tool[t].status = "pending_enrich"
                                /\ item[t].status \in ReviewStatuses
                                /\ item[t].stage = "complete"}
         targets == [t \in left |-> TerminalToolStatus(item[t].status, tool[t].kind)]
     IN Then(IF left = {} THEN <<>> ELSE <<Call("moveTools", targets, "none")>>)
  /\ UNCHANGED <<tables, world>>

(* finalize_capability_only: the primary stays as it is. *)
FinalizeCapabilityOnly(t, failed) ==
  LET found == item[t].cap \in Capabilities
      status == IF failed THEN "failed" ELSE IF found THEN "succeeded" ELSE "partial"
  IN (IF item[t].run = 0
        THEN <<Call("insertRun", t, IF found THEN "partial" ELSE status),
               Call("checkpointRun", t, "none")>>
        ELSE <<>>)
     \o (IF found THEN <<Call("upsertCapability", t, item[t].cap),
                         Call("supersede", t, Capabilities),
                         Call("setRun", t, status)>> ELSE <<>>)
     \o <<Call("finish", t, status)>>

(* Mutant: the run and the item are closed before the assignments are written. *)
FinalizeClosesFirst(t, failed) ==
  <<Call("insertRun", t, "succeeded"), Call("checkpointRun", t, "none"),
    Call("finish", t, "succeeded"), Call("readManual", t, item[t].leaf),
    Call("supersede", t, Terms)>>

(* finalize_classification: every assignment is written before the run and
   the item say so. *)
FinalizeFull(t, failed) ==
  LET status == IF failed THEN "partial" ELSE "succeeded"
      answered == item[t].cap # "none"
  IN (IF item[t].run = 0
        THEN <<Call("insertRun", t, "partial"), Call("checkpointRun", t, "none")>>
        ELSE <<>>)
     \o <<Call("readManual", t, item[t].leaf)>>
     \o (IF item[t].cap \in Capabilities
           THEN <<Call("upsertCapability", t, item[t].cap)>> ELSE <<>>)
     \o <<Call("supersede", t, IF answered THEN Terms ELSE Markets),
          Call("setRun", t, status), Call("finish", t, status)>>

Finalize ==
  /\ Do("finalize")
  /\ LET t == About
         failed == With = "error"
     IN Then(IF CapabilityOnly(t) THEN FinalizeCapabilityOnly(t, failed)
             ELSE IF item[t].stage = "complete" /\ item[t].status \in {"succeeded", "partial"}
               THEN <<>>
             ELSE IF ~Eligible(t) THEN CompleteWithoutLeaf(t, "needs_review")
             ELSE FinalizeFull(t, failed))
  /\ UNCHANGED <<tables, world>>

ReadManual ==
  /\ Do("readManual")
  /\ LET write == PrimaryWrite(ManualPrimaries(assign[About]) # {})
     IN Then((IF write.primary THEN <<Call("retire", About, With)>> ELSE <<>>)
             \o <<Call("upsertPrimary", About, <<With, write>>)>>)
  /\ UNCHANGED <<tables, world>>

SetAssign(t, rows) == assign' = [assign EXCEPT ![t] = rows]

WriteAssignment ==
  /\ LET t == About
         run == item[t].run
     IN \/ /\ Do("retire")
           /\ SetAssign(t, RetireOtherPrimaries(assign[t], With))
        \/ /\ Do("upsertPrimary")
           /\ SetAssign(t, UpsertAssignment(assign[t], With[1], With[2].primary, With[2].status, run))
        \/ /\ Do("upsertCapability")
           /\ SetAssign(t, UpsertAssignment(assign[t], With, FALSE, "provisional", run))
        \/ /\ Do("supersede")
           /\ SetAssign(t, SupersedeAuto(assign[t], With, run))
  /\ Skip
  /\ UNCHANGED <<item, req, job, remote, tool, runs, world>>

SetRunStatus ==
  /\ Do("setRun")
  /\ runs' = [runs EXCEPT ![About][item[About].run] = With]
  /\ Skip
  /\ UNCHANGED <<item, req, job, remote, tool, assign, world>>

---------------------------------------------------------------------------
(* Applying one result (apply_request_result). *)

(* Mutant: the stage of the item is not compared. *)
CurrentInAnyStage(k) == k[3] = Newest(k[1], k[2]) /\ ~Closed(k[1])

(* The result is dropped when a newer attempt exists, the item left the
   stage, or the item is closed. *)
Current(k) == k[3] = Newest(k[1], k[2]) /\ item[k[1]].stage = k[2] /\ ~Closed(k[1])

Apply ==
  /\ Do("apply")
  /\ Then(IF Current(About)
            THEN <<Call("record", About, With), Call("react", About, With)>>
            ELSE <<>>)
  /\ UNCHANGED <<tables, world>>

Record ==
  /\ Do("record")
  /\ SetRequests({About}, LAMBDA r : [r EXCEPT !.out = With,
       !.status = IF With \in Errors THEN "failed" ELSE "succeeded"])
  /\ Skip
  /\ UNCHANGED <<item, job, remote, tool, assign, runs, world>>

(* build_product_profile and resolve_entity_decision: a quote that is not in
   the captured text is dropped, but only while the text is still there; a
   human decision about the entity wins, the one the item was created with. *)
ProfileVerdict(t, out) ==
  IF item[t].judged # "none"
    THEN CASE item[t].judged = "product" -> IF out = "silent" THEN "silent" ELSE "product"
           [] item[t].judged = "non_product" -> "nonproduct"
           [] OTHER -> "unclear"
  ELSE IF out # "fabricated" THEN out
  ELSE IF item[t].text THEN "unclear" ELSE "product"

KindOf(verdict) ==
  CASE verdict \in {"product", "silent"} -> "product"
    [] verdict = "nonproduct" -> "non_product"
    [] OTHER -> "unresolved"

AfterProfile(t, verdict) ==
  CASE verdict = "product" -> <<Call("enqueue", t, "l1")>>
    [] verdict \in {"silent", "nonproduct"} -> CompleteWithoutLeaf(t, "skipped")
    [] OTHER -> CompleteWithoutLeaf(t, "partial")

(* should_escalate_l1: no candidate or two that are too close. *)
AfterL1(t, stage, out) ==
  IF stage = "l1" /\ out # "clear" THEN <<Call("enqueue", t, "l1_escalation")>>
  ELSE IF out = "empty" THEN CompleteWithoutLeaf(t, "needs_review")
  ELSE <<Call("enqueue", t, "leaf")>>

(* should_escalate_leaf or primary_acceptance: a leaf that would not be
   accepted is judged once more, then goes to review; an accepted one goes
   through _prepare_capability_or_finalize. *)
AfterLeaf(t, stage) ==
  IF ~Eligible(t) THEN IF stage = "leaf" THEN <<Call("enqueue", t, "leaf_escalation")>>
                       ELSE CompleteWithoutLeaf(t, "needs_review")
  ELSE IF t \in Capable THEN <<Call("enqueue", t, "capability")>>
  ELSE <<Call("finalize", t, "ok")>>

React ==
  /\ Do("react")
  /\ LET k == About
         t == k[1]
         stage == k[2]
         verdict == ProfileVerdict(t, With)
     IN CASE With \in Errors ->
               Then(<<Call("fail", k, With)>>) /\ UNCHANGED item
          [] stage = "profile" ->
               /\ Then((IF item[t].judged = "none" THEN <<Call("setKind", t, verdict)>> ELSE <<>>)
                       \o <<Call("saveProfile", t, verdict)>>)
               /\ UNCHANGED item
          [] stage \in {"l1", "l1_escalation"} ->
               /\ SetItem(t, [item[t] EXCEPT !.l1 = With])
               /\ Then(AfterL1(t, stage, With))
          [] stage \in {"leaf", "leaf_escalation"} ->
               /\ SetItem(t, [item[t] EXCEPT !.leaf = With])
               /\ Then(<<Call("afterLeaf", t, stage)>>)
          [] OTHER ->
               /\ SetItem(t, [item[t] EXCEPT !.cap = With])
               /\ Then(<<Call("finalize", t, "ok")>>)
  /\ UNCHANGED <<req, job, remote, tool, assign, runs, world>>

(* update_tool_entity_kind: an automatic decision never replaces a human one. *)
SetKind ==
  /\ Do("setKind")
  /\ tool' = IF tool[About].manual THEN tool ELSE [tool EXCEPT ![About].kind = KindOf(With)]
  /\ Skip
  /\ UNCHANGED <<item, req, job, remote, assign, runs, world>>

SaveProfile ==
  /\ Do("saveProfile")
  /\ SetItem(About, [item[About] EXCEPT !.profile = With, !.text = FALSE])
  /\ Then(<<Call("afterProfile", About, With)>>)
  /\ UNCHANGED <<req, job, remote, tool, assign, runs, world>>

Decide ==
  /\ \/ Do("afterProfile") /\ Then(AfterProfile(About, With))
     \/ Do("afterLeaf") /\ Then(AfterLeaf(About, With))
  /\ UNCHANGED <<tables, world>>

(* Mutant: one attempt more than the policy allows. *)
MayRetryOnceMore(k, error) ==
  error # "permanent" /\ k[3] <= MaxAttempts /\ item[k[1]].stage = k[2]

(* schedule_model_retry *)
MayRetry(k, error) == error # "permanent" /\ k[3] < MaxAttempts /\ item[k[1]].stage = k[2]

(* _handle_stage_failure *)
HandleFailure ==
  /\ Do("fail")
  /\ LET k == About
         t == k[1]
         stage == k[2]
         retry == MayRetry(k, With)
     IN CASE stage = "capability" /\ req[k].jev ->
               Then(<<Call("enqueue", t, "capability")>>) /\ UNCHANGED item
          [] ~(stage = "capability" /\ req[k].jev) /\ retry ->
               /\ SetItem(t, [item[t] EXCEPT !.status = "pending", !.retry = "model",
                                             !.tries = k[3], !.due = FALSE])
               /\ Skip
          [] OTHER ->
               /\ Then(IF stage = "capability" THEN <<Call("finalize", t, "error")>>
                       ELSE IF With # "permanent" /\ stage \in {"l1", "leaf"}
                         THEN <<Call("enqueue", t, IF stage = "l1" THEN "l1_escalation"
                                                                   ELSE "leaf_escalation")>>
                       ELSE CompleteWithoutLeaf(t, "needs_review"))
               /\ UNCHANGED item
  /\ UNCHANGED <<req, job, remote, tool, assign, runs, world>>

---------------------------------------------------------------------------
(* Mutant: only successes are taken up again. *)
AnsweredWell(k) == /\ item[k[1]].status = "running"
                   /\ k[2] = item[k[1]].stage
                   /\ k[3] = Newest(k[1], k[2])
                   /\ req[k].status = "succeeded"

(* reconcile_recorded_results: the newest request of the stage a running
   item is in was answered, and the process stopped before it reacted. *)
Answered(k) == /\ item[k[1]].status = "running"
               /\ k[2] = item[k[1]].stage
               /\ k[3] = Newest(k[1], k[2])
               /\ req[k].status \in {"succeeded", "failed"}

Reconcile ==
  /\ Do("reconcile")
  /\ LET left == {k \in DOMAIN req : Answered(k)}
     IN Then([i \in 1..Cardinality(left) |->
                LET k == SetToSeq(left)[i] IN Call("apply", k, req[k].out)])
  /\ UNCHANGED <<tables, world>>

(* poll_active_batches: batches that are active, or whose job still holds
   open requests. *)
Poll ==
  /\ Do("poll")
  /\ LET jobs == SetToSeq({j \in Jobs : /\ job[j].batch
                                        /\ \/ job[j].status \in ActiveJob
                                           \/ KeysOf(j, OpenStatuses) # {}})
     IN Then([i \in 1..(2 * Len(jobs)) |->
                IF i % 2 = 1 THEN Call("mark", jobs[(i + 1) \div 2], "poll")
                             ELSE Call("polled", jobs[i \div 2], "none")])
  /\ UNCHANGED <<tables, world>>

Submitted(r) == [r EXCEPT !.status = "submitted"]

(* _mark_job_requests_submitted, from the poll and from the submission. *)
MarkSubmitted ==
  /\ Do("mark")
  /\ SetRequests(KeysOf(About, {"queued"}), Submitted)
  /\ Then(IF With = "poll" THEN <<Call("retrieve", About, "none")>> ELSE <<>>)
  /\ UNCHANGED <<item, job, remote, tool, assign, runs, world>>

(* The lines a finished batch returns: an answer or an error for some of its
   requests, none for the others. *)
Answers(stage) ==
  CASE stage = "profile" -> ProfileOutputs
    [] stage \in {"l1", "l1_escalation"} -> L1Outputs
    [] stage \in {"leaf", "leaf_escalation"} -> LeafOutputs
    [] OTHER -> CapabilityOutputs

Results(keys) ==
  {f \in [keys -> UNION {Answers(k[2]) : k \in keys} \cup LineErrors] :
     \A k \in keys : f[k] \in Answers(k[2]) \cup LineErrors}

LineSets(keys) == UNION {Results(some) : some \in SUBSET keys}

RetrieveRunning ==
  /\ Do("retrieve")
  /\ remote[About].end = "none"
  /\ SetJob(About, [job[About] EXCEPT !.status = "in_progress"])
  /\ Skip
  /\ UNCHANGED <<item, req, remote, tool, assign, runs, world>>

RetrieveEnded(j) ==
  /\ Do("retrieve") /\ About = j
  /\ IF remote[j].end # "none"
       THEN UNCHANGED remote
       ELSE \E end \in BatchEnds :
            \E error \in IF end = "failed" THEN LineErrors \ {"blocked"} ELSE {"retryable"},
               lines \in IF end = "completed" THEN LineSets(remote[j].keys) ELSE {<<>>} :
              remote' = [remote EXCEPT ![j] =
                           [@ EXCEPT !.end = end, !.lines = lines, !.error = error]]
  /\ SetJob(j, [job[j] EXCEPT
       !.status = IF remote'[j].end = "completed" THEN "completed" ELSE "failed"])
  /\ Then(CASE remote'[j].end = "completed" -> <<Call("lines", j, "none")>>
            [] remote'[j].end = "failed" -> <<Call("unreturned", j, remote'[j].error)>>
            [] OTHER -> <<Call("fallback", j, "none")>>)
  /\ UNCHANGED <<item, req, tool, assign, runs, world>>

ApplyAll(results) ==
  [i \in 1..Cardinality(DOMAIN results) |->
     LET k == SetToSeq(DOMAIN results)[i] IN Call("apply", k, results[k])]

Lines ==
  /\ Do("lines")
  /\ LET lines == remote[About].lines
     IN /\ Then(ApplyAll(lines) \o <<Call("unreturned", About, "retryable")>>)
        /\ blocked' = (blocked \/ \E k \in DOMAIN lines : lines[k] = "blocked")
  /\ UNCHANGED <<tables, faults, crashes>>

(* _fail_unreturned_requests: submitted requests without a line. *)
Unreturned ==
  /\ Do("unreturned")
  /\ LET left == KeysOf(About, {"submitted"}) \ DOMAIN remote[About].lines
     IN Then(ApplyAll([k \in left |-> With]))
  /\ UNCHANGED <<tables, world>>

(* execute_job_via_responses: the answers arrive together and are applied in
   order; nothing of them is kept if the process stops before. *)
Fallback ==
  /\ Do("fallback")
  /\ \E results \in Results(KeysOf(About, {"submitted"})) :
       /\ Then(ApplyAll(results))
       /\ blocked' = (blocked \/ \E k \in DOMAIN results : results[k] = "blocked")
  /\ UNCHANGED <<tables, faults, crashes>>

EndOfPolledJob ==
  /\ Do("polled")
  /\ Skip
  /\ UNCHANGED <<tables, world>>

---------------------------------------------------------------------------
(* seed_batch_items *)

Selectable(t) == /\ tool[t].status \in {"pending_enrich", "pending_review", "published"}
                 /\ \/ ProductKind(t)
                    \/ tool[t].kind = "unresolved" /\ ~tool[t].manual

Take(S, n) == {x \in S : Cardinality({y \in S : y < x}) < n}

SourceRetryTools == {t \in Tools : /\ Selectable(t)
                                   /\ item[t].status = "pending"
                                   /\ item[t].retry = "source"
                                   /\ item[t].due}
NewTools == {t \in Tools : /\ Selectable(t)
                           /\ ~HasTrustedPrimary(assign[t])
                           /\ item[t].status = "none"
                           /\ runs[t] = <<>>}
CapabilityTools == {t \in Tools : /\ Selectable(t) /\ ProductKind(t)
                                  /\ CapabilityOnly(t)
                                  /\ HasTrustedPrimary(assign[t])
                                  /\ ~HasActiveCapability(assign[t])
                                  /\ item[t].status = "none"}

(* At most half of the pass for retries, at least one fresh tool, capability
   backfill with what is left.  Each row carries what a human had said about
   the entity when the rows were read. *)
Seed ==
  /\ Do("seed")
  /\ LET retries == Take(SourceRetryTools, Max({1, SeedLimit \div 2}))
         left == Max({0, SeedLimit - Cardinality(retries)})
         fresh == Take(NewTools, Max({1, left}))
         spare == Max({0, left - Cardinality(fresh)})
         rows == SetToSeq(retries) \o SetToSeq(fresh) \o SetToSeq(Take(CapabilityTools, spare))
     IN Then(IF blocked THEN <<>>
             ELSE [i \in 1..Len(rows) |-> Call("seedRow", rows[i], Judgement(rows[i]))])
  /\ UNCHANGED <<tables, world>>

(* Capability backfill and a reusable profile need no capture; otherwise the
   capture and what follows it stand in one try block, and its handler, which
   schedules the next capture, stands outside. *)
SeedRow ==
  /\ Do("seedRow")
  /\ LET t == About
     IN IF t \notin Stored \cup Backfill
          THEN \E outcome \in CaptureOutcomes :
                 Then(IF outcome = "ok"
                        THEN <<Call("create", t, <<"captured", With>>), Call("seeded", t, With)>>
                        ELSE <<Call("sourceFailed", t, <<outcome, With>>)>>)
          ELSE Then(<<Call("create", t, <<"stored", With>>)>>)
  /\ UNCHANGED <<tables, world>>

(* _create_item and the update of an item that exists; the next call depends
   on what the item starts with.  The insertion and the update that stores a
   reused profile are one step: a stop between the two leaves a pending item
   without a retry, as a stop after both does. *)
CreateItem ==
  /\ Do("create")
  /\ LET t == About
         how == With[1]
         row == IF item[t].status # "none" THEN item[t]
                ELSE [NoItem EXCEPT !.status = "pending", !.judged = With[2]]
     IN /\ SetItem(t, CASE how = "captured" -> [row EXCEPT !.text = TRUE]
                        [] how = "stored" -> [row EXCEPT !.text = FALSE, !.profile = "product"]
                        [] OTHER -> row)
        /\ Then(CASE how = "captured" -> <<Call("enqueue", t, "profile")>>
                  [] how = "stored" ->
                       IF ~CapabilityOnly(t) THEN <<Call("enqueue", t, "l1")>>
                       ELSE IF t \in Capable THEN <<Call("enqueue", t, "capability")>>
                       ELSE <<Call("finalize", t, "ok")>>
                  [] OTHER -> <<Call("retrySource", t, how)>>)
  /\ UNCHANGED <<req, job, remote, tool, assign, runs, world>>

SourceFailed ==
  /\ Do("sourceFailed")
  /\ Then(<<IF item[About].status = "none" THEN Call("create", About, With)
                                           ELSE Call("retrySource", About, With[1])>>)
  /\ UNCHANGED <<tables, world>>

(* try_recover_source_with_upstream_evidence *)
RecoverUpstream(t) ==
  /\ SetItem(t, [item[t] EXCEPT !.status = "pending", !.stage = "l1",
                                !.profile = "upstream", !.text = FALSE])
  /\ Then(<<Call("enqueue", t, "l1")>>)

(* schedule_source_retry; an exhausted item falls back on upstream evidence
   or goes to review. *)
RetrySource ==
  /\ Do("retrySource")
  /\ LET t == About
         tries == item[t].tries + 1
         exhausted == With = "permanent" \/ tries >= MaxAttempts
     IN \/ /\ ~exhausted
           /\ SetItem(t, [item[t] EXCEPT !.status = "pending", !.stage = "profile",
                            !.retry = "source", !.tries = tries, !.due = FALSE])
           /\ Skip
        \/ exhausted /\ t \in Upstream /\ RecoverUpstream(t)
        \/ /\ exhausted /\ t \notin Upstream
           /\ SetItem(t, [item[t] EXCEPT !.tries = tries])
           /\ Then(CompleteWithoutLeaf(t, "needs_review"))
  /\ UNCHANGED <<req, job, remote, tool, assign, runs, world>>

EndOfSeedRow ==
  /\ Do("seeded")
  /\ Skip
  /\ UNCHANGED <<tables, world>>

(* resume_due_model_retries *)
ResumeRetries ==
  /\ Do("resume")
  /\ LET due == {t \in Tools : item[t].status = "pending" /\ item[t].retry = "model" /\ item[t].due}
     IN Then(IF blocked THEN <<>>
             ELSE [i \in 1..Cardinality(due) |->
                     LET t == SetToSeq(due)[i] IN Call("enqueue", t, item[t].stage)])
  /\ UNCHANGED <<tables, world>>

---------------------------------------------------------------------------
(* submit_queued_batches *)

(* A job that has ended and holds no open request is never read again; the
   model forgets the row, so that Jobs bounds the live ones. *)
Dead == {j \in Jobs : /\ job[j].status \in {"completed", "failed", "interrupted"}
                      /\ KeysOf(j, OpenStatuses) = {}}
Free == {j \in Jobs : job[j] = NoJob}

JevAsked(t) == \E n \in Attempts(t, "capability") : req[Key(t, "capability", n)].jev

Submit ==
  /\ Do("submit")
  /\ job' = [j \in Jobs |-> IF j \in Dead THEN NoJob ELSE job[j]]
  /\ remote' = [j \in Jobs |-> IF j \in Dead THEN NoRemote ELSE remote[j]]
  /\ req' = [k \in DOMAIN req |-> IF req[k].job \in Dead
                                     THEN [req[k] EXCEPT !.job = "none"] ELSE req[k]]
  /\ Then(IF blocked THEN <<>>
          ELSE <<Call("jevRecover", "none", "none"), Call("jevSelect", "none", "none"),
                 Call("select", "none", "none")>>)
  /\ UNCHANGED <<item, tool, assign, runs, world>>

(* recover_interrupted_jobs: JEV jobs that nothing touched for an hour. *)
JevRecover ==
  /\ Do("jevRecover")
  /\ Then(Queue("jevClaim", {j \in Jobs :
            /\ job[j].jev /\ job[j].old
            /\ job[j].status \in {"building", "in_progress", "interrupted"}
            /\ KeysOf(j, OpenStatuses) # {}}))
  /\ UNCHANGED <<tables, world>>

JevClaim ==
  /\ Do("jevClaim")
  /\ SetJob(About, [job[About] EXCEPT !.status = "interrupted", !.old = FALSE])
  /\ Then(Queue("jevInterrupted", KeysOf(About, OpenStatuses)))
  /\ UNCHANGED <<item, req, remote, tool, assign, runs, world>>

JevInterrupted ==
  /\ Do("jevInterrupted")
  /\ SetRequests({About}, LAMBDA r : [r EXCEPT !.jev = TRUE])
  /\ Then(<<Call("apply", About, "retryable")>>)
  /\ UNCHANGED <<item, job, remote, tool, assign, runs, world>>

(* execute_queued_capabilities: the first capability attempt of an item. *)
JevSelect ==
  /\ Do("jevSelect")
  /\ LET keys == {k \in DOMAIN req :
                    /\ k[2] = "capability" /\ req[k].status = "queued" /\ req[k].job = "none"
                    /\ item[k[1]].stage = "capability" /\ item[k[1]].status = "running"
                    /\ ~JevAsked(k[1])}
     IN Then(IF JevEnabled /\ keys # {} THEN <<Call("build", keys, "jev")>> ELSE <<>>)
  /\ UNCHANGED <<tables, world>>

(* Requests of one stage share model and effort: one job for each stage. *)
Select ==
  /\ Do("select")
  /\ LET keys == {k \in DOMAIN req :
                    /\ req[k].status = "queued" /\ req[k].job = "none"
                    /\ JevEnabled /\ k[2] = "capability" => JevAsked(k[1])}
         groups == {{k \in keys : k[2] = stage} : stage \in {k[2] : k \in keys}}
     IN Then(Queue("build", groups))
  /\ UNCHANGED <<tables, world>>

(* The insertion of the job row; without a free row (the bound Jobs) the
   requests wait for a later pass. *)
Build ==
  /\ Do("build")
  /\ IF Free = {} THEN Skip /\ UNCHANGED job
     ELSE LET j == CHOOSE j \in Free : TRUE
          IN /\ SetJob(j, [NoJob EXCEPT !.status = "building", !.jev = With = "jev"])
             /\ Then(<<Call("reserve", j, About)>>)
  /\ UNCHANGED <<item, req, remote, tool, assign, runs, world>>

(* _reserve_requests_for_job: all of them or, after a failed statement, none. *)
Reserve ==
  /\ Do("reserve")
  /\ \/ /\ SetRequests(With, LAMBDA r : [r EXCEPT !.job = About])
        /\ Then(<<Call(IF job[About].jev THEN "jevStart" ELSE "createBatch", About, "none")>>)
        /\ UNCHANGED faults
     \/ /\ faults < MaxFaults
        /\ faults' = faults + 1
        /\ Then(<<Call("failJob", About, "none")>>)
        /\ UNCHANGED req
  /\ UNCHANGED <<item, job, remote, tool, assign, runs, blocked, crashes>>

FailJob ==
  /\ Do("failJob")
  /\ SetJob(About, [job[About] EXCEPT !.status = "failed"])
  /\ Then(CASE With = "none" -> <<>>
            [] With = "blocked" -> <<Call("release", About, "none")>>
            [] OTHER -> <<Call("failRequests", About, With)>>)
  /\ UNCHANGED <<item, req, remote, tool, assign, runs, world>>

(* The rows of a JEV job are answered one by one and their answers applied at
   once; the provider keeps nothing. *)
JevStart ==
  /\ Do("jevStart")
  /\ SetJob(About, [job[About] EXCEPT !.status = "in_progress"])
  /\ Then(<<Call("jevSubmit", About, "none")>>)
  /\ UNCHANGED <<item, req, remote, tool, assign, runs, world>>

JevSubmit ==
  /\ Do("jevSubmit")
  /\ SetRequests(KeysOf(About, {"queued"}), LAMBDA r : [r EXCEPT !.jev = TRUE, !.status = "submitted"])
  /\ Then(Queue("jevAnswer", KeysOf(About, {"queued"})) \o <<Call("jevDone", About, "none")>>)
  /\ UNCHANGED <<item, job, remote, tool, assign, runs, world>>

JevAnswer ==
  /\ Do("jevAnswer")
  /\ \E answer \in CapabilityOutputs \cup (LineErrors \cap {"retryable"}) :
       Then(<<Call("apply", About, answer)>>)
  /\ UNCHANGED <<tables, world>>

JevDone ==
  /\ Do("jevDone")
  /\ SetJob(About, [job[About] EXCEPT !.status = "completed"])
  /\ Skip
  /\ UNCHANGED <<item, req, remote, tool, assign, runs, world>>

(* Upload and create_batch: the batch exists and we know, it exists and the
   answer is lost, or it does not exist. *)
CreateBatch ==
  /\ Do("createBatch")
  /\ LET j == About
         keys == KeysOf(j, {"queued"})
         Exists == /\ remote' = [remote EXCEPT ![j].keys = keys]
                   /\ SetRequests(keys, LAMBDA r : [r EXCEPT !.sent = @ + 1])
     IN \/ /\ Exists
           /\ Then(<<Call("persist", j, "none")>>)
           /\ UNCHANGED faults
        \/ /\ faults < MaxFaults
           /\ faults' = faults + 1
           /\ \/ Exists /\ Then(<<Call("failJob", j, "retryable")>>)
              \/ /\ \E error \in LineErrors : Then(<<Call("failJob", j, error)>>)
                 /\ UNCHANGED <<remote, req>>
  /\ UNCHANGED <<item, job, tool, assign, runs, blocked, crashes>>

(* _persist_remote_batch_job *)
Persist ==
  /\ Do("persist")
  /\ SetJob(About, [job[About] EXCEPT !.batch = TRUE, !.status = "validating"])
  /\ Then(<<Call("mark", About, "submit")>>)
  /\ UNCHANGED <<item, req, remote, tool, assign, runs, world>>

(* Mutant: a batch that could not be recorded is given up like one that does
   not exist. *)
GivesUpBatch == <<Call("failJob", About, "blocked")>>

(* Every try failed: the requests stay reserved, for the batch exists and may
   not be created again. *)
KeepsReservation == <<>>

PersistFails ==
  /\ Do("persist")
  /\ faults < MaxFaults
  /\ faults' = faults + 1
  /\ Then(KeepsReservation)
  /\ UNCHANGED <<tables, blocked, crashes>>

(* The mark after a submission may fail: the next poll repeats it. *)
MarkFails ==
  /\ Do("mark") /\ With = "submit"
  /\ faults < MaxFaults
  /\ faults' = faults + 1
  /\ Skip
  /\ UNCHANGED <<tables, blocked, crashes>>

(* A blocked provider: the requests are free again and the groups that are
   left are given up, so that the end of the pass is what follows. *)
Release ==
  /\ Do("release")
  /\ SetRequests(KeysOf(About, {"queued"}), LAMBDA r : [r EXCEPT !.job = "none"])
  /\ todo' = <<Call("reconcileTerminal", "none", "none")>>
  /\ UNCHANGED <<item, job, remote, tool, assign, runs, world>>

FailRequests ==
  /\ Do("failRequests")
  /\ LET keys == KeysOf(About, {"queued"})
     IN /\ SetRequests(keys, LAMBDA r : [r EXCEPT !.status = "failed", !.out = With])
        /\ Then([i \in 1..Cardinality(keys) |-> Call("fail", SetToSeq(keys)[i], With)])
  /\ UNCHANGED <<item, job, remote, tool, assign, runs, world>>

---------------------------------------------------------------------------
(* The pass and the world around it. *)

(* run_openai_taxonomy_batch_once: a blocked provider skips the seeding, the
   retries and the submission, which look at `blocked` themselves. *)
StartPass ==
  /\ todo = <<>>
  /\ todo' = [i \in 1..6 |-> Call(<<"reconcile", "poll", "seed", "resume", "submit",
                                    "reconcileTerminal">>[i], "none", "none")]
  /\ blocked' = FALSE
  /\ UNCHANGED <<tables, faults, crashes>>

(* The process stops, or a statement fails outside a try block, which ends
   the pass: the loop starts the next one. *)
StopPass ==
  /\ todo # <<>>
  /\ crashes < MaxCrashes
  /\ crashes' = crashes + 1
  /\ todo' = <<>>
  /\ blocked' = FALSE
  /\ UNCHANGED <<tables, faults>>

(* A call inside the try block of one polled job or one seeded tool fails; a
   provider call may say that the account is blocked. *)
CallFails ==
  /\ FirstMarker > 1
  /\ faults < MaxFaults
  /\ faults' = faults + 1
  /\ LET marker == todo[FirstMarker]
     IN \/ /\ marker[1] = "polled"
           /\ todo' = AfterMarker
           /\ blocked' \in IF Do("retrieve") /\ "blocked" \in LineErrors
                             THEN {blocked, TRUE} ELSE {blocked}
        \/ /\ marker[1] = "seeded"
           /\ todo' = <<Call("sourceFailed", marker[2], <<"retryable", marker[3]>>)>> \o Tail(AfterMarker)
           /\ UNCHANGED blocked
  /\ UNCHANGED <<tables, crashes>>

RetryFallsDue(t) ==
  /\ item[t].status = "pending" /\ item[t].retry # "none" /\ ~item[t].due
  /\ SetItem(t, [item[t] EXCEPT !.due = TRUE])
  /\ UNCHANGED <<req, job, remote, tool, assign, runs, todo, world>>

(* An hour outlasts every pass, so no pass is inside the job. *)
HourPasses(j) ==
  /\ todo = <<>>
  /\ job[j].jev /\ ~job[j].old
  /\ job[j].status \in {"building", "in_progress", "interrupted"}
  /\ KeysOf(j, OpenStatuses) # {}
  /\ SetJob(j, [job[j] EXCEPT !.old = TRUE])
  /\ UNCHANGED <<item, req, remote, tool, assign, runs, todo, world>>

(* The catalog publishes a tool that is ready. *)
ToolPublished(t) ==
  /\ t \in Published
  /\ tool[t].status \in {"pending_enrich", "pending_review"}
  /\ tool' = [tool EXCEPT ![t].status = "published"]
  /\ UNCHANGED <<item, req, job, remote, assign, runs, todo, world>>

(* A reviewer verifies the primary market, or sets the entity kind. *)
VerifyPrimary(t, m) ==
  /\ t \in Reviewed
  /\ ReviewDuringPass \/ todo = <<>>
  /\ ManualPrimaries(assign[t]) = {}
  /\ SetAssign(t, VerifyManually(assign[t], m))
  /\ UNCHANGED <<item, req, job, remote, tool, runs, todo, world>>

SetKindByHand(t, kind) ==
  /\ t \in Judged
  /\ ReviewDuringPass \/ todo = <<>>
  /\ ~tool[t].manual
  /\ tool' = [tool EXCEPT ![t].kind = kind, ![t].manual = TRUE]
  /\ UNCHANGED <<item, req, job, remote, assign, runs, todo, world>>

PassStep ==
  \/ StartPass \/ Reconcile \/ Poll \/ MarkSubmitted \/ RetrieveRunning
  \/ (\E j \in Jobs : RetrieveEnded(j))
  \/ Lines \/ Unreturned \/ Fallback \/ EndOfPolledJob
  \/ Seed \/ SeedRow \/ CreateItem \/ SourceFailed \/ RetrySource \/ EndOfSeedRow
  \/ ResumeRetries \/ ReconcileTerminalTools
  \/ Submit \/ JevRecover \/ JevClaim \/ JevInterrupted \/ JevSelect \/ JevStart \/ JevSubmit
  \/ JevAnswer \/ JevDone \/ Select \/ Build \/ Reserve \/ FailJob \/ CreateBatch \/ Persist
  \/ Release \/ FailRequests
  \/ Apply \/ Record \/ React \/ SetKind \/ SaveProfile \/ Decide \/ HandleFailure
  \/ Enqueue \/ Enter \/ Finalize \/ InsertRun \/ CheckpointRun \/ ReadManual
  \/ WriteAssignment \/ SetRunStatus \/ Finish \/ Route \/ MoveTools

Next ==
  \/ PassStep
  \/ StopPass \/ CallFails \/ PersistFails \/ MarkFails
  \/ \E t \in Tools : \/ RetryFallsDue(t) \/ ToolPublished(t)
                     \/ \E m \in Markets : VerifyPrimary(t, m)
                     \/ \E kind \in {"product", "non_product"} : SetKindByHand(t, kind)
  \/ \E j \in Jobs : HourPasses(j)

(* The loop runs passes for ever, a batch ends within its 24-hour window,
   and time passes. *)
Fairness ==
  /\ WF_vars(PassStep)
  /\ \A j \in Jobs : SF_vars(RetrieveEnded(j))
  /\ \A t \in Tools : WF_vars(RetryFallsDue(t))
  /\ \A j \in Jobs : SF_vars(HourPasses(j))

Spec == Init /\ [][Next]_vars /\ Fairness

---------------------------------------------------------------------------
(* A request is handed to the provider as a batch line at most once, however
   often the process stops or a checkpoint fails. *)
AskedOnce == \A k \in DOMAIN req : req[k].sent <= 1

(* A stage has no more attempts than the policy allows.  It is not so when a
   submission fails and the process stops before the failure is handled: the
   next pass then asks anew without looking at the policy. *)
WithinPolicy == \A k \in DOMAIN req : k[3] <= MaxAttempts

StageRank(stage) ==
  CASE stage = "profile" -> 1
    [] stage = "l1" -> 2
    [] stage = "l1_escalation" -> 3
    [] stage = "leaf" -> 4
    [] stage = "leaf_escalation" -> 5
    [] stage = "capability" -> 6
    [] OTHER -> 7

(* A late or repeated result never takes an item back to an earlier stage,
   nor reopens or reverses a closed one; only an item that waits for another
   capture of its page may start over. *)
NoStageGoesBack ==
  \A t \in Tools : item[t].status # "none" /\ item[t].retry # "source" =>
    /\ StageRank(item'[t].stage) >= StageRank(item[t].stage)
    /\ Closed(t) => item'[t] = item[t]
StagesAdvance == [][NoStageGoesBack]_item

(* A closed item that succeeded left the tool with exactly the primary it
   chose, unless a human had chosen, and with the capability it was given;
   its run says so too. *)
SucceededIsWritten ==
  \A t \in Tools : item[t].status = "succeeded" =>
    /\ runs[t][item[t].run] = "succeeded"
    /\ item[t].cap \in Capabilities => assign[t][item[t].cap].run = item[t].run
    /\ ~CapabilityOnly(t) /\ ManualPrimaries(assign[t]) = {} =>
         /\ {m \in Markets : assign[t][m].primary} = {item[t].leaf}
         /\ assign[t][item[t].leaf].run = item[t].run

(* A tool never has two primary markets, whatever statement the process
   stops after. *)
OnePrimary == \A t \in Tools : Cardinality({m \in Markets : assign[t][m].primary}) <= 1

(* Once a human verified a primary market, it stays the primary. *)
HumanLockKept ==
  \A t \in Tools : ManualPrimaries(assign[t]) # {} =>
    ManualPrimaries(assign'[t]) = ManualPrimaries(assign[t])
ManualWins == [][HumanLockKept]_assign

(* The pipeline moves a tool out of pending_enrich only; what was published
   meanwhile stays published. *)
NoneUnpublished ==
  \A t \in Tools : tool[t].status = "published" => tool'[t].status = "published"
PublishedStays == [][NoneUnpublished]_tool

(* The pipeline never rejects a tool a human declared to be a product. *)
NoneRejectedAgainstHuman ==
  \A t \in Tools : tool[t].manual /\ tool[t].kind = "product" =>
    tool'[t].status # "rejected" \/ tool[t].status = "rejected"
HumanProductKept == [][NoneRejectedAgainstHuman]_tool

(* What a stop can strand: a request reserved by a job of which no batch id
   was kept, an item that was created and never queued, or one that waits for
   another capture of a tool that is no longer selected. *)
Stranded(t) ==
  \/ \E k \in DOMAIN req : /\ k[1] = t /\ req[k].status = "queued" /\ req[k].job \in Jobs
                           /\ ~job[req[k].job].batch /\ ~job[req[k].job].jev
  \/ item[t].status = "pending" /\ item[t].retry = "none"
  \/ item[t].status = "pending" /\ item[t].retry = "source" /\ ~Selectable(t)

(* Every tool gets an item that closes, unless a human decided before, and a
   tool closed for review leaves pending_enrich, also when the process
   stopped between the two. *)
Settled(t) == \/ Stranded(t)
              \/ item[t].status = "none" /\ t \notin NewTools \cup CapabilityTools
              \/ /\ Closed(t)
                 /\ item[t].status \in ReviewStatuses => tool[t].status # "pending_enrich"

EverythingSettles == <>[](\A t \in Tools : Settled(t))
=============================================================================
