----------------------------- MODULE AssetTasks -----------------------------
(***************************************************************************)
(* The task ledger of the assets workload (src/workloads/assets): a batch  *)
(* revives dead letters, queues incomplete tools, claims what is due and   *)
(* completes the claimed tools requirement by requirement.  The ledger is  *)
(* fenced; what an execution writes to the facts is not.  What becomes   *)
(* of a completed tool is in CatalogReview.                                *)
(***************************************************************************)
EXTENDS Naturals

CONSTANTS
  Tools,          \* tools of the facts
  Published,      \* those that are published; the others are pending
  Adult,          \* those whose domain the safety rule matches
  AssetRunners,   \* processes that run the workload
  MaxRetries,     \* max_retries: extra fetch attempts of one execution
  MaxAttempts,    \* max_attempts of a task
  MaxGeneration,  \* bound: generations of a task
  Faults          \* a subset of {"error", "batch", "crash"}

VARIABLES
  facts,       \* tools: content safety, name and favicon
  assetTasks,  \* asset_tasks
  batches,     \* per runner: its phase and the tools of its last SELECT
  captures     \* executions of claimed tasks

assetVars == <<facts, assetTasks, batches, captures>>

---------------------------------------------------------------------------
Fact == [safety : {"unknown", "safe", "needs_review", "nsfw"},
         name : {"none", "machine", "human_approved"}, favicon : BOOLEAN]

(* due: what the row waits for (next_retry_at, the cooldown of a dead letter,
   a day since 'done') has come.  The attempt stands for the random token. *)
Task == [status : {"absent", "queued", "processing", "done", "failed"},
         attempts : 0..MaxAttempts, generation : 0..MaxGeneration, due : BOOLEAN,
         dead : BOOLEAN, error : {"none", "content_safety_blocked", "other"},
         lease : {"none", "held", "expired"}, token : 0..MaxAttempts]

Phases == {"idle", "reviving", "queue", "queueing", "claim", "claiming", "work"}

Batch == [phase : Phases, todo : SUBSET Tools]

Requirements == {"content_safety", "favicon", "description"}

Stages == {"start", "skip", "preflight", "core", "safety", "name", "favicon", "upload",
           "end", "done", "failed", "handling"}

Capture == [runner : AssetRunners, tool : Tools, generation : 1..MaxGeneration,
            token : 1..MaxAttempts, try : 0..MaxRetries, stage : Stages,
            missing : SUBSET Requirements, retryable : BOOLEAN,
            error : {"none", "page", "content_safety_blocked", "other"}]

TypeOK == /\ facts \in [Tools -> Fact]
          /\ assetTasks \in [Tools -> Task]
          /\ batches \in [AssetRunners -> Batch]
          /\ captures \subseteq Capture

NoTask == [status |-> "absent", attempts |-> 0, generation |-> 0, due |-> TRUE, dead |-> FALSE,
           error |-> "none", lease |-> "none", token |-> 0]

Resting == [phase |-> "idle", todo |-> {}]

Init == /\ facts = [t \in Tools |-> [safety |-> "unknown", name |-> "none", favicon |-> FALSE]]
        /\ assetTasks = [t \in Tools |-> NoTask]
        /\ batches = [r \in AssetRunners |-> Resting]
        /\ captures = {}

---------------------------------------------------------------------------
(* One batch: _run_assets_once. *)

(* A SELECT that returns nothing leaves nothing to do for its phase. *)
Selects(r, found, phase, otherwise) ==
  batches' = [batches EXCEPT ![r].todo = found,
                             ![r].phase = IF found = {} THEN otherwise ELSE phase]

(* The next of the selected tools has been dealt with. *)
Handled(r, t, otherwise) ==
  LET rest == batches[r].todo \ {t}
  IN batches' = [batches EXCEPT ![r].todo = rest,
                                ![r].phase = IF rest = {} THEN otherwise ELSE @]

(* revive_incomplete_dead_letter_tasks *)
Revivable(t) ==
  /\ assetTasks[t].status = "failed" /\ assetTasks[t].dead /\ assetTasks[t].due
  /\ assetTasks[t].error # "content_safety_blocked" /\ t \notin Published
  /\ assetTasks[t].generation < MaxGeneration

SelectDeadLetters(r) ==
  /\ batches[r].phase = "idle"
  /\ Selects(r, {t \in Tools : Revivable(t)}, "reviving", "queue")
  /\ UNCHANGED <<facts, assetTasks, captures>>

Requeued(task) == [NoTask EXCEPT !.status = "queued", !.generation = task.generation + 1]

Revive(r, t) ==
  /\ batches[r].phase = "reviving" /\ t \in batches[r].todo
  /\ assetTasks[t].generation < MaxGeneration
  /\ assetTasks' = IF assetTasks[t].status = "failed" /\ assetTasks[t].dead
                     THEN [assetTasks EXCEPT ![t] = Requeued(assetTasks[t])]
                     ELSE assetTasks
  /\ Handled(r, t, "queue")
  /\ UNCHANGED <<facts, captures>>

(* queue_missing_asset_tasks *)
Incomplete(t) == \/ t \notin Published /\ facts[t].safety # "safe"
                 \/ ~facts[t].favicon
                 \/ facts[t].name = "none"

(* Open tasks are selected too; the upsert passes them by, unless they are
   done by then. *)
Queueable(t) ==
  \/ assetTasks[t].status = "absent"
  \/ assetTasks[t].status = "done" /\ assetTasks[t].due
  \/ ~assetTasks[t].dead /\ assetTasks[t].status = "queued"
  \/ ~assetTasks[t].dead /\ assetTasks[t].status = "processing" /\ assetTasks[t].lease = "expired"
  \/ /\ ~assetTasks[t].dead /\ assetTasks[t].status = "failed"
     /\ assetTasks[t].attempts < MaxAttempts /\ assetTasks[t].due

SelectIncomplete(r) ==
  /\ batches[r].phase = "queue"
  /\ Selects(r, {t \in Tools : /\ Incomplete(t) /\ Queueable(t)
                               /\ assetTasks[t].generation < MaxGeneration},
             "queueing", "claim")
  /\ UNCHANGED <<facts, assetTasks, captures>>

Queue(r, t) ==
  /\ batches[r].phase = "queueing" /\ t \in batches[r].todo
  /\ assetTasks[t].generation < MaxGeneration
  /\ assetTasks' = IF assetTasks[t].status \in {"absent", "done"}
                     THEN [assetTasks EXCEPT ![t] = Requeued(assetTasks[t])]
                     ELSE assetTasks
  /\ Handled(r, t, "claim")
  /\ UNCHANGED <<facts, captures>>

(* The bound on generations ends either loop. *)
EndOfBound(r) ==
  /\ batches[r].phase \in {"reviving", "queueing"}
  /\ \A t \in batches[r].todo : assetTasks[t].generation = MaxGeneration
  /\ batches' = [batches EXCEPT ![r].todo = {}, ![r].phase = IF @ = "reviving" THEN "queue" ELSE "claim"]
  /\ UNCHANGED <<facts, assetTasks, captures>>

(* claim_due_tasks *)
Claimable(t) ==
  /\ ~assetTasks[t].dead /\ assetTasks[t].attempts < MaxAttempts
  /\ \/ assetTasks[t].status \in {"queued", "failed"} /\ assetTasks[t].due
     \/ assetTasks[t].status = "processing" /\ assetTasks[t].lease = "expired"

SelectDue(r) ==
  /\ batches[r].phase = "claim"
  /\ Selects(r, {t \in Tools : Claimable(t)}, "claiming", "work")
  /\ UNCHANGED <<facts, assetTasks, captures>>

(* Mutant: the claim trusts the selection about the attempts. *)
ClaimsSelected(t) ==
  \/ assetTasks[t].status \in {"queued", "failed"} /\ assetTasks[t].due
  \/ assetTasks[t].status = "processing" /\ assetTasks[t].lease = "expired"

Claims(t) == Claimable(t)

Claimed(task) == [task EXCEPT !.status = "processing", !.attempts = @ + 1, !.due = TRUE,
                              !.error = "none", !.lease = "held", !.token = task.attempts + 1]

Claim(r, t) ==
  /\ batches[r].phase = "claiming" /\ t \in batches[r].todo
  /\ Handled(r, t, "work")
  /\ IF Claims(t)
       THEN /\ assetTasks' = [assetTasks EXCEPT ![t] = Claimed(assetTasks[t])]
            /\ captures' = captures \cup
                 {[runner |-> r, tool |-> t, generation |-> assetTasks[t].generation,
                   token |-> assetTasks[t].attempts + 1, try |-> 0, stage |-> "start",
                   missing |-> {}, retryable |-> TRUE, error |-> "none"]}
       ELSE UNCHANGED <<assetTasks, captures>>
  /\ UNCHANGED facts

CapturesOf(r) == {e \in captures : e.runner = r}

EndWork(r) ==
  /\ batches[r].phase = "work" /\ CapturesOf(r) = {}
  /\ batches' = [batches EXCEPT ![r] = Resting]
  /\ UNCHANGED <<facts, assetTasks, captures>>

---------------------------------------------------------------------------
(* One task: process_asset_task. *)

(* Mutant: the token is not compared. *)
HoldsGeneration(e) ==
  assetTasks[e.tool].status = "processing" /\ assetTasks[e.tool].generation = e.generation

Holds(e) ==
  /\ assetTasks[e.tool].status = "processing"
  /\ assetTasks[e.tool].generation = e.generation /\ assetTasks[e.tool].token = e.token

Becomes(e, next) == captures' = (captures \ {e}) \cup {next}
Ends(e) == captures' = captures \ {e}

(* missing_asset_requirements; a screenshot is never one of them. *)
Missing(t) == {q \in Requirements :
                 \/ q = "content_safety" /\ facts[t].safety # "safe"
                 \/ q = "favicon" /\ ~facts[t].favicon
                 \/ q = "description" /\ facts[t].name = "none"}

ReadMissing(e) ==
  /\ e.stage = "start"
  /\ Becomes(e, [e EXCEPT !.missing = Missing(e.tool),
                          !.stage = IF Missing(e.tool) = {} THEN "skip" ELSE "preflight"])
  /\ UNCHANGED <<facts, assetTasks, batches>>

Failing(e, error, retryable) == [e EXCEPT !.stage = "failed", !.error = error, !.retryable = retryable]
AfterCore(e) == IF "favicon" \in e.missing THEN "favicon" ELSE "end"

(* Renewal before each of the long stages; a lost lease ends the execution. *)
Renewing(e, next) ==
  IF Holds(e) THEN assetTasks' = [assetTasks EXCEPT ![e.tool].lease = "held"] /\ Becomes(e, next)
  ELSE UNCHANGED assetTasks /\ Ends(e)

(* The homepage cannot be fetched, is no page of a product, or is one. *)
Preflight(e) ==
  /\ e.stage = "preflight"
  /\ \/ \E retryable \in BOOLEAN : Becomes(e, Failing(e, "other", retryable)) /\ UNCHANGED assetTasks
     \/ \E retryable \in BOOLEAN : Renewing(e, Failing(e, "page", retryable))
     \/ Renewing(e, [e EXCEPT !.stage =
                       IF e.missing \cap {"description", "content_safety"} # {} THEN "core"
                       ELSE AfterCore(e)])
  /\ UNCHANGED <<facts, batches>>

RenewForCore(e) ==
  /\ e.stage = "core"
  /\ Renewing(e, [e EXCEPT !.stage = "safety"])
  /\ UNCHANGED <<facts, batches>>

(* save_content_safety: the verdict is a rule about the domain. *)
Verdict(t) == IF t \notin Adult THEN "safe"
              ELSE IF t \in Published THEN "needs_review" ELSE "nsfw"

StoreVerdict(t) == facts' = [facts EXCEPT ![t].safety = Verdict(t)]

SaveContentSafety(e) ==
  /\ e.stage = "safety"
  /\ StoreVerdict(e.tool)
  /\ Becomes(e, IF e.tool \in Adult THEN Failing(e, "content_safety_blocked", FALSE)
                ELSE [e EXCEPT !.stage = "name"])
  /\ UNCHANGED <<assetTasks, batches>>

(* Mutant: the name of the page wins. *)
NamedByPage(name) == "machine"

(* save_tool_localization inserts, or repairs a name no human approved. *)
Named(name) == IF name = "human_approved" THEN name ELSE "machine"

SaveLocalization(e) ==
  /\ e.stage = "name"
  /\ facts' = [facts EXCEPT ![e.tool].name = Named(@)]
  /\ Becomes(e, [e EXCEPT !.stage = AfterCore(e)])
  /\ UNCHANGED <<assetTasks, batches>>

(* fetch_favicon_asset ends in a drawn letter: it always has something. *)
RenewForFavicon(e) ==
  /\ e.stage = "favicon"
  /\ Renewing(e, [e EXCEPT !.stage = "upload"])
  /\ UNCHANGED <<facts, batches>>

UploadFavicon(e) ==
  /\ e.stage = "upload"
  /\ facts' = [facts EXCEPT ![e.tool].favicon = TRUE]
  /\ Becomes(e, [e EXCEPT !.stage = "end"])
  /\ UNCHANGED <<assetTasks, batches>>

(* Mutant: a favicon that failed does not keep the task open. *)
RemainingBlocking(e) == Missing(e.tool) \ {"favicon"}

Remaining(e) == Missing(e.tool)

ReadMissingAgain(e) ==
  /\ e.stage = "end"
  /\ Becomes(e, IF Remaining(e) = {} THEN [e EXCEPT !.stage = "done"]
                ELSE Failing(e, "other", TRUE))
  /\ UNCHANGED <<facts, assetTasks, batches>>

Retries(e) == e.try < MaxRetries /\ e.retryable /\ e.error # "page"

TryAgain(e) ==
  /\ e.stage = "failed" /\ Retries(e)
  /\ Becomes(e, [e EXCEPT !.stage = "start", !.try = @ + 1, !.missing = {},
                          !.error = "none", !.retryable = TRUE])
  /\ UNCHANGED <<facts, assetTasks, batches>>

(* Mutant: a failed task is never a dead letter. *)
SettledNeverDead(e) ==
  [assetTasks[e.tool] EXCEPT !.status = IF e.stage \in {"skip", "done"} THEN "done" ELSE "failed",
                             !.due = FALSE, !.lease = "none", !.token = 0]

(* complete_task *)
Settled(e) ==
  LET done == e.stage \in {"skip", "done"}
      dead == ~done /\ (e.token >= MaxAttempts \/ ~e.retryable)
  IN [assetTasks[e.tool] EXCEPT
        !.status = IF done THEN "done" ELSE "failed", !.due = FALSE, !.dead = dead,
        !.error = IF done THEN "none" ELSE IF e.error = "page" THEN "other" ELSE e.error,
        !.lease = "none", !.token = 0]

Completing(e) == \/ e.stage \in {"skip", "done", "handling"}
                 \/ e.stage = "failed" /\ ~Retries(e)

Complete(e) == assetTasks' = IF Holds(e) THEN [assetTasks EXCEPT ![e.tool] = Settled(e)] ELSE assetTasks

CompleteTask(e) ==
  /\ Completing(e)
  /\ Complete(e)
  /\ Ends(e)
  /\ UNCHANGED <<facts, batches>>

(* A statement of the execution raises, applied or not.  Inside a stage the
   error is recorded and the next stage follows; elsewhere in the loop the
   attempt fails; outside of it the handler of the batch completes the task. *)
Handling(e) == [e EXCEPT !.stage = "handling", !.error = "other", !.retryable = TRUE]

CaptureRaises(e) ==
  /\ "error" \in Faults
  /\ \/ /\ e.stage = "start"
        /\ Becomes(e, Handling(e)) /\ UNCHANGED <<facts, assetTasks>>
     \/ /\ e.stage \in {"preflight", "end"}
        /\ Becomes(e, Failing(e, "other", TRUE)) /\ UNCHANGED <<facts, assetTasks>>
     \/ /\ e.stage \in {"core", "safety", "name"}
        /\ Becomes(e, [e EXCEPT !.stage = AfterCore(e)])
        /\ UNCHANGED assetTasks
        /\ \/ UNCHANGED facts
           \/ e.stage = "safety" /\ StoreVerdict(e.tool)
           \/ e.stage = "name" /\ facts' = [facts EXCEPT ![e.tool].name = Named(@)]
     \/ /\ e.stage \in {"favicon", "upload"}
        /\ Becomes(e, [e EXCEPT !.stage = "end"])
        /\ UNCHANGED assetTasks
        /\ \/ UNCHANGED facts
           \/ e.stage = "upload" /\ facts' = [facts EXCEPT ![e.tool].favicon = TRUE]
     \/ /\ Completing(e) /\ e.stage # "handling"
        /\ Becomes(e, IF e.stage = "done" THEN Failing(e, "other", TRUE) ELSE Handling(e))
        /\ Complete(e) \/ UNCHANGED assetTasks
        /\ UNCHANGED facts
  /\ UNCHANGED batches

---------------------------------------------------------------------------
(* The world around the runners. *)

(* A statement outside the work on one task raises, or the completion by the
   handler does: the batch is given up, what is left of it runs to its end. *)
BatchRaises(r) ==
  /\ "batch" \in Faults
  /\ \/ batches[r].phase \notin {"idle", "work"} /\ UNCHANGED captures
     \/ \E e \in CapturesOf(r) : e.stage = "handling" /\ Ends(e)
  /\ batches' = [batches EXCEPT ![r] = Resting]
  /\ UNCHANGED <<facts, assetTasks>>

Crash(r) ==
  /\ "crash" \in Faults /\ batches[r].phase # "idle"
  /\ batches' = [batches EXCEPT ![r] = Resting]
  /\ captures' = captures \ CapturesOf(r)
  /\ UNCHANGED <<facts, assetTasks>>

LeaseExpires(t) ==
  /\ assetTasks[t].lease = "held"
  /\ assetTasks' = [assetTasks EXCEPT ![t].lease = "expired"]
  /\ UNCHANGED <<facts, batches, captures>>

FallsDue(t) ==
  /\ ~assetTasks[t].due
  /\ assetTasks' = [assetTasks EXCEPT ![t].due = TRUE]
  /\ UNCHANGED <<facts, batches, captures>>

(* A reviewer approves a name, the generated or another one. *)
ApproveName(t) ==
  /\ facts[t].name = "machine"
  /\ facts' = [facts EXCEPT ![t].name = "human_approved"]
  /\ UNCHANGED <<assetTasks, batches, captures>>

Step(r) ==
  \/ SelectDeadLetters(r) \/ SelectIncomplete(r) \/ EndOfBound(r) \/ SelectDue(r)
  \/ \E t \in Tools : Revive(r, t) \/ Queue(r, t) \/ Claim(r, t)
  \/ EndWork(r)

Work(e) ==
  \/ ReadMissing(e) \/ Preflight(e) \/ RenewForCore(e) \/ SaveContentSafety(e)
  \/ SaveLocalization(e) \/ RenewForFavicon(e) \/ UploadFavicon(e)
  \/ ReadMissingAgain(e) \/ TryAgain(e) \/ CompleteTask(e)

AssetNext ==
  \/ \E r \in AssetRunners : Step(r) \/ BatchRaises(r) \/ Crash(r)
  \/ \E e \in captures : Work(e) \/ CaptureRaises(e)
  \/ \E t \in Tools : LeaseExpires(t) \/ FallsDue(t) \/ ApproveName(t)

(* A loop that runs batch after batch, requests with timeouts, and time. *)
AssetFairness ==
  /\ \A r \in AssetRunners : WF_assetVars(Step(r))
  /\ WF_assetVars(\E e \in captures : Work(e))
  /\ \A t \in Tools : WF_assetVars(LeaseExpires(t)) /\ WF_assetVars(FallsDue(t))

AssetSpec == Init /\ [][AssetNext]_assetVars
AssetFairSpec == AssetSpec /\ AssetFairness

---------------------------------------------------------------------------
(* A claimed task changes only by the expiry of its lease, a claim after
   that, or a step of the execution that holds it, whichever of the earlier
   executions still answers (claim_due_tasks, renew_lease, complete_task). *)
HolderOnly ==
  \A t \in Tools :
    LET old == assetTasks[t]
        new == assetTasks'[t]
    IN old.status = "processing" /\ new # old =>
         \/ new = [old EXCEPT !.lease = "expired"]
         \/ old.lease = "expired" /\ new = Claimed(old)
         \/ \E e \in captures \ captures' : /\ e.tool = t /\ e.token = old.token
                                             /\ e.generation = old.generation
OnlyTheHolderCompletes == [][HolderOnly]_<<assetTasks, captures>>

(* 'done' is said of tools that lack nothing: a failed favicon keeps the task
   in the bounded retries, and no late or repeated completion says otherwise
   ("marking the task done here would let the 24-hour missing-data scan
   revive it forever", process_asset_task). *)
DoneLacksNothing == \A t \in Tools : assetTasks[t].status = "done" => Missing(t) = {}

(* A name a human approved is not replaced by the name of a page fetched
   before or after the approval, by whichever execution. *)
NameKept == \A t \in Tools : facts[t].name = "human_approved" => facts'[t].name = "human_approved"
HumanNameKept == [][NameKept]_facts

(* As long as batches run to their end, a tool ends up complete, or its task dead:
   blocked by content safety, published, or out of generations. *)
AssetsComeToRest ==
  <>[](\A t \in Tools :
         \/ ~Incomplete(t)
         \/ /\ assetTasks[t].dead
            /\ \/ assetTasks[t].error = "content_safety_blocked" \/ t \in Published
               \/ assetTasks[t].generation = MaxGeneration)
=============================================================================
