----------------------- MODULE CatalogLedgers_proofs -----------------------
(***************************************************************************)
(* Theorems of the two ledgers that complete the catalog, of assets and of *)
(* domains, and of the review that publishes it, for every number of       *)
(* tools, domains and processes, every number of attempts and retries,     *)
(* every limit of a batch, and whatever may fail.                          *)
(***************************************************************************)
EXTENDS AssetTasks, TLAPS

(* The bounds of a task and of an execution are numbers. *)
Bounded == MaxAttempts \in Nat /\ MaxGeneration \in Nat /\ MaxRetries \in Nat

(* A task that exists is in a generation; one in work waits for nothing; one *)
(* that is done belongs to a tool that lacks nothing.                        *)
Founded(t) ==
  /\ assetTasks[t].status # "absent" => assetTasks[t].generation \in 1..MaxGeneration
  /\ assetTasks[t].status = "processing" => assetTasks[t].due
  /\ assetTasks[t].status = "done" => Missing(t) = {}

(* The safety of a tool is what the rule about its domain says, once it says *)
(* anything.                                                                 *)
Judged(t) == facts[t].safety \in {"unknown", Verdict(t)}

(* An execution about to say 'done' has found that nothing lacks.            *)
Ready(e) == e.stage \in {"skip", "done"} => Missing(e.tool) = {}

IInv ==
  /\ TypeOK
  /\ \A t \in Tools : Founded(t) /\ Judged(t)
  /\ \A e \in captures : Ready(e)

-----------------------------------------------------------------------------
(* What a tool lacks only becomes less.                                      *)
Enriches ==
  /\ facts' \in [Tools -> Fact]
  /\ \A t \in Tools : Judged(t)' /\ (Missing(t) = {} => Missing(t)' = {})

LEMMA Nothing ==
  ASSUME NEW t
  PROVE  Missing(t) = {} <=> facts[t].safety = "safe" /\ facts[t].favicon /\ facts[t].name # "none"
BY DEF Missing, Requirements

LEMMA NothingNext ==
  ASSUME NEW t
  PROVE  Missing(t)' = {} <=> facts'[t].safety = "safe" /\ facts'[t].favicon /\ facts'[t].name # "none"
BY DEF Missing, Requirements

LEMMA FactsStay ==
  ASSUME IInv, UNCHANGED facts
  PROVE  Enriches
BY DEF IInv, TypeOK, Enriches, Judged, Missing

LEMMA VerdictStored ==
  ASSUME IInv, NEW t \in Tools, StoreVerdict(t)
  PROVE  Enriches
<1>1. facts \in [Tools -> Fact] /\ Verdict(t) \in {"safe", "needs_review", "nsfw"}
  BY DEF IInv, TypeOK, Verdict
<1>2. facts' \in [Tools -> Fact]
  BY <1>1 DEF StoreVerdict, Fact
<1>3. ASSUME NEW o \in Tools
      PROVE  Judged(o)' /\ (Missing(o) = {} => Missing(o)' = {})
  <2>1. Judged(o)
    BY DEF IInv
  <2>2. CASE o = t
    <3>1. /\ facts'[t].safety = Verdict(t)
          /\ facts'[t].name = facts[t].name /\ facts'[t].favicon = facts[t].favicon
      BY <1>1 DEF StoreVerdict, Fact
    <3> QED
      BY <2>1, <2>2, <3>1, Nothing, NothingNext DEF Judged
  <2>3. CASE o # t
    <3>1. facts'[o] = facts[o]
      BY <1>1, <2>3 DEF StoreVerdict
    <3> QED
      BY <2>1, <3>1 DEF Judged, Missing
  <2> QED
    BY <2>2, <2>3
<1> QED
  BY <1>2, <1>3 DEF Enriches

LEMMA FactStored ==
  ASSUME IInv, NEW t \in Tools, NEW fact \in Fact, facts' = [facts EXCEPT ![t] = fact],
         fact.safety = facts[t].safety, facts[t].favicon => fact.favicon, fact.name # "none" \/ facts[t].name = "none"
  PROVE  Enriches
<1>1. facts \in [Tools -> Fact]
  BY DEF IInv, TypeOK
<1>2. facts' \in [Tools -> Fact]
  BY <1>1
<1>3. ASSUME NEW o \in Tools
      PROVE  Judged(o)' /\ (Missing(o) = {} => Missing(o)' = {})
  <2>1. Judged(o)
    BY DEF IInv
  <2>2. CASE o = t
    BY <1>1, <2>1, <2>2, Nothing, NothingNext DEF Judged
  <2>3. CASE o # t
    <3>1. facts'[o] = facts[o]
      BY <1>1, <2>3
    <3> QED
      BY <2>1, <3>1 DEF Judged, Missing
  <2> QED
    BY <2>2, <2>3
<1> QED
  BY <1>2, <1>3 DEF Enriches

LEMMA NameStored ==
  ASSUME IInv, NEW t \in Tools, NEW name \in {"machine", "human_approved"},
         facts' = [facts EXCEPT ![t].name = name]
  PROVE  Enriches
<1>1. PICK fact : fact = [facts[t] EXCEPT !.name = name]
  OBVIOUS
<1>2. /\ fact \in Fact /\ fact.safety = facts[t].safety
      /\ fact.favicon = facts[t].favicon /\ fact.name = name
  BY <1>1 DEF IInv, TypeOK, Fact
<1> QED
  BY <1>1, <1>2, FactStored

LEMMA FaviconStored ==
  ASSUME IInv, NEW t \in Tools, facts' = [facts EXCEPT ![t].favicon = TRUE]
  PROVE  Enriches
<1>1. PICK fact : fact = [facts[t] EXCEPT !.favicon = TRUE]
  OBVIOUS
<1>2. /\ fact \in Fact /\ fact.safety = facts[t].safety
      /\ fact.favicon = TRUE /\ fact.name = facts[t].name
  BY <1>1 DEF IInv, TypeOK, Fact
<1> QED
  BY <1>1, <1>2, FactStored

-----------------------------------------------------------------------------
(* What becomes of a task.                                                   *)

LEMMA RequeuedTyped ==
  ASSUME Bounded, NEW task \in Task, task.generation < MaxGeneration
  PROVE  /\ Requeued(task) \in Task
         /\ Requeued(task).status = "queued" /\ Requeued(task).generation \in 1..MaxGeneration
<1>1. task.generation + 1 \in 1..MaxGeneration /\ task.generation + 1 \in 0..MaxGeneration /\ 0 \in 0..MaxAttempts
  BY DEF Bounded, Task
<1>2. Requeued(task) \in Task
  BY <1>1 DEF Requeued, NoTask, Task
<1> QED
  BY <1>1, <1>2 DEF Requeued, NoTask

LEMMA ClaimedTyped ==
  ASSUME Bounded, NEW task \in Task, task.attempts < MaxAttempts
  PROVE  /\ Claimed(task) \in Task
         /\ Claimed(task).status = "processing" /\ Claimed(task).due
         /\ Claimed(task).generation = task.generation
<1>1. task.attempts + 1 \in 0..MaxAttempts
  BY DEF Bounded, Task
<1>2. Claimed(task) \in Task
  BY <1>1 DEF Claimed, Task
<1> QED
  BY <1>1, <1>2 DEF Claimed, Task

LEMMA SettledTyped ==
  ASSUME Bounded, TypeOK, NEW e \in Capture
  PROVE  /\ Settled(e) \in Task
         /\ Settled(e).status = IF e.stage \in {"skip", "done"} THEN "done" ELSE "failed"
         /\ Settled(e).generation = assetTasks[e.tool].generation
<1> DEFINE done == e.stage \in {"skip", "done"}
<1>1. PICK task \in Task : task = assetTasks[e.tool]
  BY DEF TypeOK, Capture
<1>2. PICK dead \in BOOLEAN : dead = (~done /\ (e.token >= MaxAttempts \/ ~e.retryable))
  OBVIOUS
<1>3. PICK error : error = IF done THEN "none" ELSE IF e.error = "page" THEN "other" ELSE e.error
  OBVIOUS
<1>4. error \in {"none", "content_safety_blocked", "other"}
  BY <1>3 DEF Capture
<1>5. PICK status \in {"done", "failed"} : status = IF done THEN "done" ELSE "failed"
  OBVIOUS
<1>6. Settled(e) = [task EXCEPT !.status = status, !.due = FALSE, !.dead = dead, !.error = error,
                                !.lease = "none", !.token = 0]
  BY <1>1, <1>2, <1>3, <1>5 DEF Settled, Task
<1>7. 0 \in 0..MaxAttempts
  BY DEF Bounded
<1> QED
  BY <1>1, <1>4, <1>5, <1>6, <1>7 DEF Task

(* What a step makes of a task: nothing, or one that is founded again.       *)
Settles(t) ==
  \/ assetTasks'[t] = assetTasks[t]
  \/ /\ assetTasks'[t] \in Task
     /\ assetTasks'[t].status # "absent" => assetTasks'[t].generation \in 1..MaxGeneration
     /\ assetTasks'[t].status = "processing" => assetTasks'[t].due
     /\ assetTasks'[t].status = "done" => Missing(t) = {}

LEMMA Keeps ==
  ASSUME IInv, Enriches, batches' \in [AssetRunners -> Batch],
         DOMAIN assetTasks' = Tools, assetTasks' = [t \in Tools |-> assetTasks'[t]],
         \A t \in Tools : Settles(t),
         \A e \in captures' : e \in captures \/ (e \in Capture /\ Ready(e))
  PROVE  IInv'
<1>1. assetTasks' \in [Tools -> Task]
  <2>1. \A t \in Tools : assetTasks'[t] \in Task
    BY DEF IInv, TypeOK, Settles
  <2> QED
    BY <2>1
<1>2. ASSUME NEW e \in captures'
      PROVE  e \in Capture /\ Ready(e)'
  <2>1. e \in Capture /\ e.tool \in Tools /\ Ready(e)
    BY DEF IInv, TypeOK, Capture
  <2> QED
    BY <2>1 DEF Ready, Enriches
<1>3. TypeOK'
  BY <1>1, <1>2 DEF TypeOK, Enriches
<1>4. ASSUME NEW t \in Tools
      PROVE  Founded(t)' /\ Judged(t)'
  BY DEF IInv, Founded, Settles, Enriches
<1> QED
  BY <1>2, <1>3, <1>4 DEF IInv

LEMMA OneTask ==
  ASSUME IInv, NEW t \in Tools, NEW next \in Task, assetTasks' = [assetTasks EXCEPT ![t] = next],
         next.status # "absent" => next.generation \in 1..MaxGeneration,
         next.status = "processing" => next.due,
         next.status = "done" => Missing(t) = {}
  PROVE  /\ DOMAIN assetTasks' = Tools /\ assetTasks' = [o \in Tools |-> assetTasks'[o]]
         /\ \A o \in Tools : Settles(o)
<1>1. assetTasks \in [Tools -> Task]
  BY DEF IInv, TypeOK
<1>2. assetTasks'[t] = next /\ \A o \in Tools \ {t} : assetTasks'[o] = assetTasks[o]
  BY <1>1
<1> QED
  BY <1>1, <1>2 DEF Settles

LEMMA NoTaskMoves ==
  ASSUME IInv, UNCHANGED assetTasks
  PROVE  /\ DOMAIN assetTasks' = Tools /\ assetTasks' = [o \in Tools |-> assetTasks'[o]]
         /\ \A o \in Tools : Settles(o)
BY DEF IInv, TypeOK, Settles

-----------------------------------------------------------------------------
LEMMA Initially ==
  ASSUME Bounded, Init
  PROVE  IInv
<1>1. NoTask \in Task /\ Resting \in Batch
  BY DEF Bounded, NoTask, Task, Resting, Batch, Phases
<1>2. TypeOK
  BY <1>1 DEF Init, TypeOK, Fact
<1> QED
  BY <1>2 DEF Init, IInv, Founded, Judged, NoTask

(* Steps of a batch.                                                         *)
LEMMA BatchTyped ==
  ASSUME IInv, NEW r \in AssetRunners, NEW phase \in Phases, NEW todo \in SUBSET Tools,
         batches' = [batches EXCEPT ![r].phase = phase, ![r].todo = todo]
  PROVE  batches' \in [AssetRunners -> Batch]
BY DEF IInv, TypeOK, Batch

LEMMA Selections ==
  ASSUME IInv, NEW r \in AssetRunners, NEW found \in SUBSET Tools, NEW phase \in Phases, NEW otherwise \in Phases,
         Selects(r, found, phase, otherwise), UNCHANGED <<facts, assetTasks, captures>>
  PROVE  IInv'
<1>1. batches' \in [AssetRunners -> Batch]
  BY DEF Selects, IInv, TypeOK, Batch
<1> QED
  BY <1>1, FactsStay, NoTaskMoves, Keeps

LEMMA HandledTyped ==
  ASSUME IInv, NEW r \in AssetRunners, NEW t, NEW otherwise \in Phases, Handled(r, t, otherwise)
  PROVE  batches' \in [AssetRunners -> Batch]
BY DEF Handled, IInv, TypeOK, Batch

LEMMA Reads ==
  ASSUME IInv, NEW r \in AssetRunners, SelectDeadLetters(r) \/ SelectIncomplete(r) \/ SelectDue(r)
  PROVE  IInv'
<1>1. \A phase \in {"reviving", "queue", "queueing", "claim", "claiming", "work"} : phase \in Phases
  BY DEF Phases
<1>2. CASE SelectDeadLetters(r)
  BY <1>1, <1>2, Selections DEF SelectDeadLetters
<1>3. CASE SelectIncomplete(r)
  <2>1. PICK found \in SUBSET Tools : Selects(r, found, "queueing", "claim")
    BY <1>3 DEF SelectIncomplete
  <2> QED
    BY <1>1, <1>3, <2>1, Selections DEF SelectIncomplete
<1>4. CASE SelectDue(r)
  BY <1>1, <1>4, Selections DEF SelectDue
<1> QED
  BY <1>2, <1>3, <1>4

LEMMA Rests ==
  ASSUME IInv, NEW r \in AssetRunners, EndWork(r) \/ EndOfBound(r) \/ BatchRaises(r) \/ Crash(r)
  PROVE  IInv'
<1>1. Resting \in Batch
  BY DEF Resting, Batch, Phases
<1>2. batches' \in [AssetRunners -> Batch]
  BY <1>1 DEF EndWork, EndOfBound, BatchRaises, Crash, IInv, TypeOK, Batch, Phases
<1>3. UNCHANGED <<facts, assetTasks>> /\ captures' \subseteq captures
  BY DEF EndWork, EndOfBound, BatchRaises, Crash, Ends
<1> QED
  BY <1>2, <1>3, FactsStay, NoTaskMoves, Keeps

LEMMA Requeues ==
  ASSUME Bounded, IInv, NEW r \in AssetRunners, NEW t \in Tools, Revive(r, t) \/ Queue(r, t)
  PROVE  IInv'
<1>1. batches' \in [AssetRunners -> Batch]
  BY HandledTyped DEF Revive, Queue, Phases
<1>2. /\ UNCHANGED <<facts, captures>> /\ assetTasks[t] \in Task /\ assetTasks[t].generation < MaxGeneration
      /\ \/ UNCHANGED assetTasks
         \/ assetTasks' = [assetTasks EXCEPT ![t] = Requeued(assetTasks[t])]
  BY DEF Revive, Queue, IInv, TypeOK
<1>3. CASE UNCHANGED assetTasks
  BY <1>1, <1>2, <1>3, FactsStay, NoTaskMoves, Keeps
<1>4. CASE assetTasks' = [assetTasks EXCEPT ![t] = Requeued(assetTasks[t])]
  <2>1. /\ Requeued(assetTasks[t]) \in Task /\ Requeued(assetTasks[t]).status = "queued"
        /\ Requeued(assetTasks[t]).generation \in 1..MaxGeneration
    BY <1>2, RequeuedTyped
  <2>2. /\ DOMAIN assetTasks' = Tools /\ assetTasks' = [o \in Tools |-> assetTasks'[o]]
        /\ \A o \in Tools : Settles(o)
    BY <1>4, <2>1, OneTask
  <2> QED
    BY <1>1, <1>2, <2>2, FactsStay, Keeps
<1> QED
  BY <1>2, <1>3, <1>4

LEMMA Claiming ==
  ASSUME Bounded, IInv, NEW r \in AssetRunners, NEW t \in Tools, Claim(r, t)
  PROVE  IInv'
<1>1. batches' \in [AssetRunners -> Batch] /\ UNCHANGED facts
  BY HandledTyped DEF Claim, Phases
<1>2. CASE UNCHANGED <<assetTasks, captures>>
  BY <1>1, <1>2, FactsStay, NoTaskMoves, Keeps
<1>3. CASE Claims(t)
  <2>1. /\ assetTasks[t] \in Task /\ Founded(t)
        /\ assetTasks[t].attempts < MaxAttempts /\ assetTasks[t].status \in {"queued", "failed", "processing"}
    BY <1>3 DEF Claims, Claimable, IInv, TypeOK
  <2>2. assetTasks[t].generation \in 1..MaxGeneration /\ assetTasks[t].attempts + 1 \in 1..MaxAttempts
    BY <2>1 DEF Bounded, Founded, Task
  <2>3. PICK e : /\ captures' = captures \cup {e}
                 /\ e = [runner |-> r, tool |-> t, generation |-> assetTasks[t].generation,
                         token |-> assetTasks[t].attempts + 1, try |-> 0, stage |-> "start",
                         missing |-> {}, retryable |-> TRUE, error |-> "none"]
    BY <1>3 DEF Claim
  <2>4. e \in Capture /\ Ready(e)
    BY <2>2, <2>3 DEF Bounded, Capture, Stages, Ready
  <2>5. assetTasks' = [assetTasks EXCEPT ![t] = Claimed(assetTasks[t])]
    BY <1>3 DEF Claim
  <2>6. /\ Claimed(assetTasks[t]) \in Task /\ Claimed(assetTasks[t]).status = "processing"
        /\ Claimed(assetTasks[t]).due /\ Claimed(assetTasks[t]).generation = assetTasks[t].generation
    BY <2>1, ClaimedTyped
  <2>7. /\ DOMAIN assetTasks' = Tools /\ assetTasks' = [o \in Tools |-> assetTasks'[o]]
        /\ \A o \in Tools : Settles(o)
    BY <2>2, <2>5, <2>6, OneTask
  <2> QED
    BY <1>1, <2>3, <2>4, <2>7, FactsStay, Keeps
<1> QED
  BY <1>2, <1>3 DEF Claim

-----------------------------------------------------------------------------
(* Steps of an execution.                                                    *)

(* It goes on in another stage, ready for it.                                *)
Resumes(e, next) == next \in Capture /\ next.stage # e.stage /\ Ready(next)

Acts(e) ==
  /\ UNCHANGED batches /\ Enriches
  /\ \/ UNCHANGED assetTasks
     \/ Holds(e) /\ assetTasks' = [assetTasks EXCEPT ![e.tool].lease = "held"]
     \/ Complete(e)
  /\ Ends(e) \/ \E next : Resumes(e, next) /\ Becomes(e, next)

LEMMA ActsKeep ==
  ASSUME Bounded, IInv, NEW e \in captures, Acts(e)
  PROVE  IInv'
<1>1. /\ TypeOK /\ e \in Capture /\ e.tool \in Tools /\ Ready(e) /\ Founded(e.tool)
      /\ assetTasks[e.tool] \in Task /\ batches' \in [AssetRunners -> Batch]
  BY DEF IInv, TypeOK, Capture, Acts
<1>2. \A o \in captures' : o \in captures \/ (o \in Capture /\ Ready(o))
  BY DEF Acts, Ends, Becomes, Resumes
<1>3. CASE UNCHANGED assetTasks
  BY <1>1, <1>2, <1>3, NoTaskMoves, Keeps DEF Acts
<1>4. ASSUME NEW next \in Task, assetTasks' = [assetTasks EXCEPT ![e.tool] = next],
             next.status # "absent" => next.generation \in 1..MaxGeneration,
             next.status = "processing" => next.due,
             next.status = "done" => Missing(e.tool) = {}
      PROVE  IInv'
  <2>1. /\ DOMAIN assetTasks' = Tools /\ assetTasks' = [o \in Tools |-> assetTasks'[o]]
        /\ \A o \in Tools : Settles(o)
    BY <1>1, <1>4, OneTask
  <2> QED
    BY <1>1, <1>2, <2>1, Keeps DEF Acts
<1>5. CASE Holds(e) /\ assetTasks' = [assetTasks EXCEPT ![e.tool].lease = "held"]
  <2>1. PICK next : next = [assetTasks[e.tool] EXCEPT !.lease = "held"]
    OBVIOUS
  <2>2. /\ next \in Task /\ next.status = "processing" /\ next.due
        /\ next.generation = assetTasks[e.tool].generation /\ next.generation \in 1..MaxGeneration
    BY <1>1, <1>5, <2>1 DEF Task, Holds, Founded
  <2> QED
    BY <1>4, <1>5, <2>1, <2>2
<1>6. CASE Complete(e) /\ Holds(e)
  <2>1. PICK next : next = Settled(e)
    OBVIOUS
  <2>2. /\ next \in Task
        /\ next.status = IF e.stage \in {"skip", "done"} THEN "done" ELSE "failed"
        /\ next.generation = assetTasks[e.tool].generation
    BY <1>1, <2>1, SettledTyped
  <2>3. next.generation \in 1..MaxGeneration /\ (next.status = "done" => Missing(e.tool) = {})
    BY <1>1, <1>6, <2>2 DEF Holds, Founded, Ready
  <2>4. assetTasks' = [assetTasks EXCEPT ![e.tool] = next]
    BY <1>6, <2>1 DEF Complete
  <2> QED
    BY <1>4, <2>2, <2>3, <2>4
<1> QED
  BY <1>3, <1>5, <1>6 DEF Acts, Complete

LEMMA StageGoes ==
  ASSUME NEW e \in Capture, NEW stage \in Stages \ {"skip", "done"}, stage # e.stage
  PROVE  Resumes(e, [e EXCEPT !.stage = stage])
BY DEF Resumes, Capture, Ready

LEMMA StageFails ==
  ASSUME NEW e \in Capture, NEW stage \in {"failed", "handling"}, stage # e.stage,
         NEW error \in {"page", "content_safety_blocked", "other"}, NEW retryable \in BOOLEAN
  PROVE  Resumes(e, [e EXCEPT !.stage = stage, !.error = error, !.retryable = retryable])
BY DEF Resumes, Capture, Stages, Ready

LEMMA OfFailures ==
  ASSUME NEW e \in Capture
  PROVE  /\ e.stage # "failed" =>
              \A error \in {"page", "content_safety_blocked", "other"}, retryable \in BOOLEAN :
                Resumes(e, Failing(e, error, retryable))
         /\ e.stage # "handling" => Resumes(e, Handling(e))
BY StageFails DEF Failing, Handling

LEMMA OfWork ==
  ASSUME Bounded, IInv, NEW e \in captures, Work(e)
  PROVE  Acts(e)
<1>1. e \in Capture /\ e.tool \in Tools /\ Ready(e) /\ facts[e.tool] \in Fact
  BY DEF IInv, TypeOK, Capture
<1>2. \A stage \in {"start", "preflight", "core", "safety", "name", "favicon", "upload", "end"} :
        stage # e.stage => Resumes(e, [e EXCEPT !.stage = stage])
  BY <1>1, StageGoes DEF Stages
<1>3. CASE ReadMissing(e)
  <2>1. PICK next : /\ next = [e EXCEPT !.missing = Missing(e.tool),
                                        !.stage = IF Missing(e.tool) = {} THEN "skip" ELSE "preflight"]
                    /\ Becomes(e, next)
    BY <1>3 DEF ReadMissing
  <2>2. Missing(e.tool) \in SUBSET Requirements
    BY DEF Missing
  <2>3. /\ next \in Capture /\ next.tool = e.tool
        /\ next.stage = IF Missing(e.tool) = {} THEN "skip" ELSE "preflight"
    BY <1>1, <2>1, <2>2 DEF Capture, Stages
  <2>4. Resumes(e, next)
    BY <1>3, <2>3 DEF Resumes, Ready, ReadMissing
  <2> QED
    BY <1>3, <2>1, <2>4, FactsStay DEF ReadMissing, Acts
<1>4. CASE Preflight(e)
  <2>1. AfterCore(e) \in {"favicon", "end"} /\ e.stage = "preflight" /\ UNCHANGED <<facts, batches>>
    BY <1>4 DEF AfterCore, Preflight
  <2>2. PICK next : /\ Resumes(e, next)
                    /\ Renewing(e, next) \/ (Becomes(e, next) /\ UNCHANGED assetTasks)
    <3>1. ASSUME NEW retryable \in BOOLEAN, NEW error \in {"other", "page"}
          PROVE  Resumes(e, Failing(e, error, retryable))
      BY <1>1, <2>1, OfFailures
    <3>2. \A stage \in {"core", "favicon", "end"} : Resumes(e, [e EXCEPT !.stage = stage])
      BY <1>2, <2>1
    <3> QED
      BY <1>4, <2>1, <3>1, <3>2 DEF Preflight
  <2> QED
    BY <2>1, <2>2, FactsStay DEF Renewing, Acts
<1>5. CASE RenewForCore(e) \/ RenewForFavicon(e)
  <2>1. PICK stage \in {"safety", "upload"} : /\ Renewing(e, [e EXCEPT !.stage = stage])
                                              /\ e.stage # stage /\ UNCHANGED <<facts, batches>>
    BY <1>5 DEF RenewForCore, RenewForFavicon
  <2>2. PICK next : next = [e EXCEPT !.stage = stage] /\ Resumes(e, next)
    BY <1>2, <2>1
  <2> QED
    BY <2>1, <2>2, FactsStay DEF Renewing, Acts
<1>6. CASE SaveContentSafety(e)
  <2>1. PICK next : Becomes(e, next) /\ Resumes(e, next)
    BY <1>1, <1>2, <1>6, OfFailures DEF SaveContentSafety
  <2> QED
    BY <1>1, <1>6, <2>1, VerdictStored DEF SaveContentSafety, Acts
<1>7. CASE SaveLocalization(e)
  <2>1. AfterCore(e) \in {"favicon", "end"} /\ Named(facts[e.tool].name) \in {"machine", "human_approved"}
    BY DEF AfterCore, Named
  <2>2. PICK next : Becomes(e, next) /\ Resumes(e, next)
    BY <1>2, <1>7, <2>1 DEF SaveLocalization
  <2>3. facts' = [facts EXCEPT ![e.tool].name = Named(facts[e.tool].name)]
    BY <1>7 DEF SaveLocalization
  <2>4. Enriches
    BY <1>1, <2>1, <2>3, NameStored
  <2> QED
    BY <1>7, <2>2, <2>4 DEF SaveLocalization, Acts
<1>8. CASE UploadFavicon(e)
  <2>1. PICK next : Becomes(e, next) /\ Resumes(e, next)
    BY <1>2, <1>8 DEF UploadFavicon
  <2> QED
    BY <1>1, <1>8, <2>1, FaviconStored DEF UploadFavicon, Acts
<1>9. CASE ReadMissingAgain(e)
  <2>1. PICK next : Becomes(e, next) /\ Resumes(e, next)
    <3>1. [e EXCEPT !.stage = "done"] \in Capture /\ [e EXCEPT !.stage = "done"].stage = "done"
          /\ [e EXCEPT !.stage = "done"].tool = e.tool
      BY <1>1 DEF Capture, Stages
    <3>2. CASE Remaining(e) = {}
      BY <1>9, <3>1, <3>2 DEF ReadMissingAgain, Remaining, Resumes, Ready
    <3>3. CASE Remaining(e) # {}
      BY <1>1, <1>9, <3>3, OfFailures DEF ReadMissingAgain
    <3> QED
      BY <3>2, <3>3
  <2> QED
    BY <1>9, <2>1, FactsStay DEF ReadMissingAgain, Acts
<1>10. CASE TryAgain(e)
  <2>1. PICK next : /\ Becomes(e, next)
                    /\ next = [e EXCEPT !.stage = "start", !.try = e.try + 1, !.missing = {},
                                        !.error = "none", !.retryable = TRUE]
    BY <1>1, <1>10 DEF TryAgain, Capture
  <2>2. e.try + 1 \in 0..MaxRetries
    BY <1>1, <1>10 DEF TryAgain, Retries, Bounded, Capture
  <2>3. Resumes(e, next)
    BY <1>1, <1>10, <2>1, <2>2 DEF TryAgain, Resumes, Ready, Capture, Stages
  <2> QED
    BY <1>10, <2>1, <2>3, FactsStay DEF TryAgain, Acts
<1>11. CASE CompleteTask(e)
  BY <1>11, FactsStay DEF CompleteTask, Acts
<1> QED
  BY <1>3, <1>4, <1>5, <1>6, <1>7, <1>8, <1>9, <1>10, <1>11 DEF Work

LEMMA OfExceptions ==
  ASSUME Bounded, IInv, NEW e \in captures, CaptureRaises(e)
  PROVE  Acts(e)
<1>1. /\ e \in Capture /\ e.tool \in Tools /\ facts[e.tool] \in Fact /\ UNCHANGED batches
  BY DEF IInv, TypeOK, Capture, CaptureRaises
<1>2. CASE e.stage = "start" /\ Becomes(e, Handling(e)) /\ UNCHANGED <<facts, assetTasks>>
  BY <1>1, <1>2, OfFailures, FactsStay DEF Acts
<1>3. CASE e.stage \in {"preflight", "end"} /\ Becomes(e, Failing(e, "other", TRUE)) /\ UNCHANGED <<facts, assetTasks>>
  BY <1>1, <1>3, OfFailures, FactsStay DEF Acts
<1>4. CASE /\ e.stage \in {"core", "safety", "name"}
           /\ Becomes(e, [e EXCEPT !.stage = AfterCore(e)])
           /\ UNCHANGED assetTasks
           /\ \/ UNCHANGED facts
              \/ e.stage = "safety" /\ StoreVerdict(e.tool)
              \/ e.stage = "name" /\ facts' = [facts EXCEPT ![e.tool].name = Named(@)]
  <2>1. AfterCore(e) \in {"favicon", "end"} /\ Named(facts[e.tool].name) \in {"machine", "human_approved"}
    BY DEF AfterCore, Named
  <2>2. Resumes(e, [e EXCEPT !.stage = AfterCore(e)])
    BY <1>1, <1>4, <2>1, StageGoes DEF Stages
  <2>3. \/ UNCHANGED facts \/ StoreVerdict(e.tool)
        \/ facts' = [facts EXCEPT ![e.tool].name = Named(facts[e.tool].name)]
    BY <1>4
  <2>4. Enriches
    BY <1>1, <2>1, <2>3, FactsStay, VerdictStored, NameStored
  <2> QED
    BY <1>1, <1>4, <2>2, <2>4 DEF Acts
<1>5. CASE /\ e.stage \in {"favicon", "upload"}
           /\ Becomes(e, [e EXCEPT !.stage = "end"])
           /\ UNCHANGED assetTasks
           /\ \/ UNCHANGED facts
              \/ e.stage = "upload" /\ facts' = [facts EXCEPT ![e.tool].favicon = TRUE]
  <2>1. Resumes(e, [e EXCEPT !.stage = "end"])
    BY <1>1, <1>5, StageGoes DEF Stages
  <2>2. Enriches
    BY <1>1, <1>5, FactsStay, FaviconStored
  <2> QED
    BY <1>1, <1>5, <2>1, <2>2 DEF Acts
<1>6. CASE /\ Completing(e) /\ e.stage # "handling"
           /\ Becomes(e, IF e.stage = "done" THEN Failing(e, "other", TRUE) ELSE Handling(e))
           /\ Complete(e) \/ UNCHANGED assetTasks
           /\ UNCHANGED facts
  <2>1. PICK next : Becomes(e, next) /\ Resumes(e, next)
    BY <1>1, <1>6, OfFailures
  <2> QED
    BY <1>1, <1>6, <2>1, FactsStay DEF Acts
<1> QED
  BY <1>2, <1>3, <1>4, <1>5, <1>6 DEF CaptureRaises

-----------------------------------------------------------------------------
LEMMA Surroundings ==
  ASSUME IInv, NEW t \in Tools, LeaseExpires(t) \/ FallsDue(t) \/ ApproveName(t)
  PROVE  IInv'
<1>1. /\ TypeOK /\ assetTasks[t] \in Task /\ Founded(t) /\ UNCHANGED <<batches, captures>>
      /\ batches' \in [AssetRunners -> Batch]
  BY DEF IInv, TypeOK, LeaseExpires, FallsDue, ApproveName
<1>2. ASSUME NEW next \in Task, assetTasks' = [assetTasks EXCEPT ![t] = next], UNCHANGED facts,
             next.status = assetTasks[t].status, next.generation = assetTasks[t].generation,
             assetTasks[t].due => next.due
      PROVE  IInv'
  <2>1. /\ DOMAIN assetTasks' = Tools /\ assetTasks' = [o \in Tools |-> assetTasks'[o]]
        /\ \A o \in Tools : Settles(o)
    BY <1>1, <1>2, OneTask DEF Founded
  <2> QED
    BY <1>1, <1>2, <2>1, FactsStay, Keeps
<1>3. CASE LeaseExpires(t)
  <2>1. PICK next : next = [assetTasks[t] EXCEPT !.lease = "expired"]
    OBVIOUS
  <2>2. /\ next \in Task /\ next.status = assetTasks[t].status
        /\ next.generation = assetTasks[t].generation /\ next.due = assetTasks[t].due
    BY <1>1, <2>1 DEF Task
  <2> QED
    BY <1>2, <1>3, <2>1, <2>2 DEF LeaseExpires
<1>4. CASE FallsDue(t)
  <2>1. PICK next : next = [assetTasks[t] EXCEPT !.due = TRUE]
    OBVIOUS
  <2>2. /\ next \in Task /\ next.status = assetTasks[t].status
        /\ next.generation = assetTasks[t].generation /\ next.due
    BY <1>1, <2>1 DEF Task
  <2> QED
    BY <1>2, <1>4, <2>1, <2>2 DEF FallsDue
<1>5. CASE ApproveName(t)
  BY <1>1, <1>5, NameStored, NoTaskMoves, Keeps DEF ApproveName
<1> QED
  BY <1>3, <1>4, <1>5

LEMMA Inductive ==
  ASSUME Bounded, IInv, [AssetNext]_assetVars
  PROVE  IInv'
<1>1. CASE UNCHANGED assetVars
  BY <1>1 DEF assetVars, IInv, TypeOK, Founded, Judged, Ready, Missing
<1>2. ASSUME NEW r \in AssetRunners, Step(r) \/ BatchRaises(r) \/ Crash(r)
      PROVE  IInv'
  BY <1>2, Reads, Rests, Requeues, Claiming DEF Step
<1> QED
  BY <1>1, <1>2, OfWork, OfExceptions, ActsKeep, Surroundings DEF AssetNext

(* What holds whatever happens.                                              *)
LEMMA Always ==
  ASSUME Bounded
  PROVE  AssetSpec => []IInv
<1>1. Init => IInv
  BY Initially
<1>2. IInv /\ [AssetNext]_assetVars => IInv'
  BY Inductive
<1> QED
  BY <1>1, <1>2, PTL DEF AssetSpec

(* Tasks, facts, batches and executions are well typed: no task is in an     *)
(* attempt or a generation, and no execution in a retry, that its bound does *)
(* not allow (claim_due_tasks, process_asset_task).                          *)
THEOREM AssetsTyped ==
  ASSUME Bounded
  PROVE  AssetSpec => []TypeOK
<1>1. IInv => TypeOK
  BY DEF IInv
<1> QED
  BY <1>1, Always, PTL

(* 'done' is said of tools that lack nothing: a late or repeated completion, *)
(* an exception after the last read or a favicon that failed does not say it *)
(* of another one (process_asset_task, complete_task).                       *)
THEOREM DoneIsComplete ==
  ASSUME Bounded
  PROVE  AssetSpec => []DoneLacksNothing
<1>1. IInv => DoneLacksNothing
  BY DEF IInv, Founded, DoneLacksNothing
<1> QED
  BY <1>1, Always, PTL

-----------------------------------------------------------------------------
LEMMA StepNames ==
  ASSUME IInv, AssetNext
  PROVE  NameKept
<1>1. TypeOK
  BY DEF IInv
<1>2. ASSUME UNCHANGED facts
      PROVE  NameKept
  BY <1>2 DEF NameKept
<1>3. ASSUME NEW e \in captures, Work(e) \/ CaptureRaises(e)
      PROVE  NameKept
  <2>1. e.tool \in Tools
    BY <1>1 DEF TypeOK, Capture
  <2>2. \/ UNCHANGED facts \/ StoreVerdict(e.tool)
        \/ facts' = [facts EXCEPT ![e.tool].name = Named(facts[e.tool].name)]
        \/ facts' = [facts EXCEPT ![e.tool].favicon = TRUE]
    BY <1>3 DEF Work, CaptureRaises, ReadMissing, Preflight, RenewForCore, SaveContentSafety,
         SaveLocalization,
                RenewForFavicon, UploadFavicon, ReadMissingAgain, TryAgain, CompleteTask
  <2> QED
    BY <1>1, <2>1, <2>2 DEF StoreVerdict, Named, NameKept, TypeOK, Fact
<1>4. ASSUME NEW r \in AssetRunners, Step(r) \/ BatchRaises(r) \/ Crash(r)
      PROVE  UNCHANGED facts
  BY <1>4 DEF Step, BatchRaises, Crash, SelectDeadLetters, SelectIncomplete, EndOfBound, SelectDue,
              Revive, Queue, Claim, EndWork
<1>5. ASSUME NEW t \in Tools, ApproveName(t)
      PROVE  NameKept
  BY <1>1, <1>5 DEF ApproveName, NameKept, TypeOK, Fact
<1> QED
  BY <1>2, <1>3, <1>4, <1>5 DEF AssetNext, LeaseExpires, FallsDue

(* A name a human approved is not replaced by the name of a page, by         *)
(* whichever execution, late, retried or failing (save_tool_localization).   *)
THEOREM ApprovedNamesStay ==
  ASSUME Bounded
  PROVE  AssetSpec => HumanNameKept
<1>1. IInv /\ [AssetNext]_assetVars => [NameKept]_facts
  BY StepNames DEF assetVars
<1> QED
  BY <1>1, Always, PTL DEF AssetSpec, HumanNameKept

-----------------------------------------------------------------------------
LEMMA StepHeld ==
  ASSUME Bounded, IInv, AssetNext
  PROVE  HolderOnly
<1> SUFFICES ASSUME NEW t \in Tools, assetTasks[t].status = "processing", assetTasks'[t] # assetTasks[t]
             PROVE  \/ assetTasks'[t] = [assetTasks[t] EXCEPT !.lease = "expired"]
                    \/ assetTasks[t].lease = "expired" /\ assetTasks'[t] = Claimed(assetTasks[t])
                    \/ \E e \in captures \ captures' : /\ e.tool = t /\ e.token = assetTasks[t].token
                                                       /\ e.generation = assetTasks[t].generation
  BY DEF HolderOnly
<1>1. assetTasks \in [Tools -> Task] /\ Founded(t)
  BY DEF IInv, TypeOK
<1>2. ASSUME NEW r \in AssetRunners, Step(r) \/ BatchRaises(r) \/ Crash(r)
      PROVE  assetTasks[t].lease = "expired" /\ assetTasks'[t] = Claimed(assetTasks[t])
  <2>1. PICK o \in Tools : Revive(r, o) \/ Queue(r, o) \/ Claim(r, o)
    BY <1>2 DEF Step, BatchRaises, Crash, SelectDeadLetters, SelectIncomplete, EndOfBound, SelectDue, EndWork
  <2> QED
    BY <1>1, <2>1 DEF Revive, Queue, Claim, Claims, Claimable
<1>3. ASSUME NEW e \in captures, Work(e) \/ CaptureRaises(e)
      PROVE  /\ e \in captures \ captures' /\ e.tool = t /\ e.token = assetTasks[t].token
             /\ e.generation = assetTasks[t].generation
  <2>1. Acts(e) /\ e \in Capture
    BY <1>3, OfWork, OfExceptions DEF IInv, TypeOK
  <2>2. Holds(e) /\ e.tool = t
    BY <1>1, <2>1 DEF Acts, Complete
  <2>3. e \notin captures'
    BY <2>1 DEF Acts, Ends, Becomes, Resumes
  <2> QED
    BY <2>2, <2>3 DEF Holds
<1>4. ASSUME NEW o \in Tools, LeaseExpires(o) \/ FallsDue(o) \/ ApproveName(o)
      PROVE  assetTasks'[t] = [assetTasks[t] EXCEPT !.lease = "expired"]
  BY <1>1, <1>4 DEF LeaseExpires, FallsDue, ApproveName, Founded
<1> QED
  BY <1>2, <1>3, <1>4 DEF AssetNext

(* A claimed task changes only by the expiry of its lease, a claim after     *)
(* that, or a step of the execution that holds it (claim_due_tasks,          *)
(* renew_lease, complete_task).                                              *)
THEOREM AssetFenceHolds ==
  ASSUME Bounded
  PROVE  AssetSpec => OnlyTheHolderCompletes
<1>1. IInv /\ [AssetNext]_assetVars => [HolderOnly]_<<assetTasks, captures>>
  BY StepHeld DEF assetVars
<1> QED
  BY <1>1, Always, PTL DEF AssetSpec, OnlyTheHolderCompletes

-----------------------------------------------------------------------------
(* The domain ledger, whose tables are its own.  What is alike in the two    *)
(* ledgers has the same name here, with Domain before it.                    *)
CONSTANTS Domains, Runners, Limit

VARIABLES domainFacts, dtasks, drunners, dexecs, credential

Domain == INSTANCE DomainStateTasks WITH facts <- domainFacts

(* The bounds of a task are numbers. *)
DomainBounded == MaxAttempts \in Nat /\ MaxGeneration \in Nat

(* A task that exists is in a generation; one in work waits for no retry; it *)
(* asks for RDAP only while nothing came of it.                              *)
DomainFounded(d) ==
  /\ dtasks[d].status # "absent" => dtasks[d].generation \in 1..MaxGeneration
  /\ dtasks[d].status = "processing" => dtasks[d].retry = "due"
  /\ dtasks[d].rdap => domainFacts[d].rdap = "none"

(* An execution belongs to a claim of the past: of this generation or an     *)
(* earlier one, of this attempt or an earlier one.  The one that holds the   *)
(* lease asks for what the task asks for, and brings nothing else.           *)
Dated(e) ==
  /\ e.generation <= dtasks[e.domain].generation
  /\ e.generation = dtasks[e.domain].generation => e.token <= dtasks[e.domain].attempts
  /\ Domain!Holds(e) => e.rdap = dtasks[e.domain].rdap
  /\ e.result.rdap # "none" => e.rdap

DomainIInv == Domain!TypeOK /\ (\A d \in Domains : DomainFounded(d)) /\ (\A e \in dexecs : Dated(e))

-----------------------------------------------------------------------------
(* What becomes of a task.                                                   *)

LEMMA DomainRequeuedTyped ==
  ASSUME DomainBounded, NEW task \in Domain!Task, task.generation < MaxGeneration
  PROVE  /\ Domain!Requeued(task) \in Domain!Task
         /\ Domain!Requeued(task).status = "queued" /\ Domain!Requeued(task).rdap = task.rdap
         /\ Domain!Requeued(task).generation = task.generation + 1
         /\ Domain!Requeued(task).generation \in 1..MaxGeneration
<1>1. task.generation + 1 \in 1..MaxGeneration /\ task.generation + 1 \in 0..MaxGeneration /\ 0 \in 0..MaxAttempts
  BY DEF DomainBounded, Domain!Task
<1>2. Domain!Requeued(task) \in Domain!Task
  BY <1>1 DEF Domain!Requeued, Domain!Task, Domain!Statuses
<1> QED
  BY <1>1, <1>2 DEF Domain!Requeued, Domain!Task

LEMMA DomainClaimedTyped ==
  ASSUME DomainBounded, NEW task \in Domain!Task, task.attempts < MaxAttempts
  PROVE  /\ Domain!Claimed(task) \in Domain!Task
         /\ Domain!Claimed(task).status = "processing" /\ Domain!Claimed(task).retry = "due"
         /\ Domain!Claimed(task).rdap = task.rdap /\ Domain!Claimed(task).generation = task.generation
         /\ Domain!Claimed(task).attempts = task.attempts + 1 /\ Domain!Claimed(task).token = task.attempts + 1
<1>1. task.attempts + 1 \in 0..MaxAttempts
  BY DEF DomainBounded, Domain!Task
<1>2. Domain!Claimed(task) \in Domain!Task
  BY <1>1 DEF Domain!Claimed, Domain!Task, Domain!Statuses
<1> QED
  BY <1>1, <1>2 DEF Domain!Claimed, Domain!Task

LEMMA DomainSettledTyped ==
  ASSUME DomainBounded, Domain!TypeOK, NEW e \in Domain!Execution, NEW x \in Domain!Result
  PROVE  LET task == dtasks[e.domain]
             settled == Domain!Settled(e, x)
         IN /\ settled \in Domain!Task /\ settled.status \in {"done", "no_data", "failed"}
            /\ settled.generation = task.generation /\ settled.attempts = task.attempts
            /\ settled.rdap => task.rdap /\ x.rdap = "none"
<1>1. dtasks[e.domain] \in Domain!Task /\ x.status \in {"done", "no_data", "failed", "credential"}
  BY DEF Domain!TypeOK, Domain!Execution, Domain!Result
<1> DEFINE ended == x.status \in {"done", "no_data"}
           exhausted == e.token >= MaxAttempts
<1>2. ended \in BOOLEAN /\ (~ended /\ exhausted) \in BOOLEAN /\ 0 \in 0..MaxAttempts
  BY DEF DomainBounded
<1>3. PICK status, retry, error, asks :
        /\ status = IF ended THEN x.status ELSE "failed"
        /\ retry = IF ended \/ exhausted THEN "due" ELSE "ahead"
        /\ error = IF ended THEN "none" ELSE IF x.status = "credential" THEN "credential" ELSE "other"
        /\ asks = IF x.rdap # "none" THEN FALSE ELSE dtasks[e.domain].rdap
  OBVIOUS
<1>4. PICK dead \in BOOLEAN : dead = (~ended /\ exhausted)
  BY <1>2
<1>5. Domain!Settled(e, x) = [dtasks[e.domain] EXCEPT !.status = status, !.retry = retry, !.dead = dead,
                                              !.error = error, !.rdap = asks, !.lease = "none", !.token = 0]
  BY <1>1, <1>3, <1>4 DEF Domain!Settled, Domain!Task
<1>6. /\ status \in {"done", "no_data", "failed"} /\ retry \in {"ahead", "due"}
      /\ error \in {"none", "credential", "other"} /\ asks \in BOOLEAN
      /\ asks => dtasks[e.domain].rdap /\ x.rdap = "none"
  BY <1>1, <1>3 DEF Domain!Task
<1>7. Domain!Settled(e, x) \in Domain!Task
  <2>1. PICK task \in Domain!Task : task = dtasks[e.domain]
    BY <1>1
  <2>2. [task EXCEPT !.status = status, !.retry = retry, !.dead = dead, !.error = error,
                     !.rdap = asks, !.lease = "none", !.token = 0] \in Domain!Task
    BY <1>2, <1>6 DEF Domain!Task, Domain!Statuses
  <2> QED
    BY <1>5, <2>1, <2>2
<1> QED
  BY <1>1, <1>5, <1>6, <1>7 DEF Domain!Task

-----------------------------------------------------------------------------
LEMMA DomainInitially ==
  ASSUME DomainBounded, Domain!Init
  PROVE  DomainIInv
<1>1. Domain!NoTask \in Domain!Task
  BY DEF DomainBounded, Domain!NoTask, Domain!Task, Domain!Statuses
<1>2. Domain!TypeOK
  BY <1>1 DEF Domain!Init, Domain!TypeOK, Domain!Fact, Domain!Phases
<1> QED
  BY <1>2 DEF Domain!Init, DomainIInv, DomainFounded, Domain!NoTask

(* The tasks of some domains move on at once: those of the others stay.      *)
LEMMA TasksMove ==
  ASSUME DomainBounded, DomainIInv, UNCHANGED <<domainFacts, dexecs>>,
         drunners' \in [Runners -> Domain!Phases], credential' \in BOOLEAN,
         dtasks' \in [Domains -> Domain!Task],
         \A d \in Domains : \/ dtasks'[d] = dtasks[d]
                            \/ /\ DomainFounded(d)'
                               /\ \/ dtasks'[d].generation = dtasks[d].generation + 1
                                  \/ /\ dtasks'[d].generation = dtasks[d].generation
                                     /\ dtasks'[d].attempts = dtasks[d].attempts
                                     /\ dtasks'[d].token = dtasks[d].token
                                     /\ dtasks'[d].status = dtasks[d].status
                                     /\ dtasks'[d].rdap = dtasks[d].rdap
  PROVE  DomainIInv'
<1>1. Domain!TypeOK'
  BY DEF DomainIInv, Domain!TypeOK
<1>2. ASSUME NEW d \in Domains
      PROVE  DomainFounded(d)'
  BY DEF DomainIInv, DomainFounded
<1>3. ASSUME NEW e \in dexecs
      PROVE  Dated(e)'
  <2>1. e \in Domain!Execution /\ Dated(e) /\ dtasks[e.domain] \in Domain!Task /\ e.domain \in Domains
    BY DEF DomainIInv, Domain!TypeOK, Domain!Execution
  <2>2. e.generation \in Nat /\ dtasks[e.domain].generation \in Nat
    BY <2>1 DEF DomainBounded, Domain!Execution, Domain!Task
  <2> QED
    BY <2>1, <2>2 DEF Dated, Domain!Holds
<1> QED
  BY <1>1, <1>2, <1>3 DEF DomainIInv

LEMMA Quiet ==
  ASSUME DomainIInv, UNCHANGED <<domainFacts, dtasks>>, dexecs' \subseteq dexecs,
         drunners' \in [Runners -> Domain!Phases], credential' \in BOOLEAN
  PROVE  DomainIInv'
BY DEF DomainIInv, Domain!TypeOK, DomainFounded, Dated, Domain!Holds

LEMMA Batches ==
  ASSUME DomainBounded, DomainIInv, NEW r \in Runners,
         Domain!StartBatch(r) \/ Domain!EndBatch(r) \/ Domain!Crash(r)
  PROVE  DomainIInv'
<1>1. drunners' \in [Runners -> Domain!Phases] /\ credential' \in BOOLEAN
  BY DEF DomainIInv, Domain!TypeOK, Domain!StartBatch, Domain!EndBatch, Domain!Crash, Domain!Goto,
       Domain!Phases
<1> QED
  BY <1>1, Quiet DEF Domain!StartBatch, Domain!EndBatch, Domain!Crash, Domain!ExecutionsOf

LEMMA DomainRequeues ==
  ASSUME DomainBounded, DomainIInv, NEW r \in Runners, Domain!RequeueMissingCredential(r)
  PROVE  DomainIInv'
<1>1. drunners' \in [Runners -> Domain!Phases] /\ credential' \in BOOLEAN /\ UNCHANGED <<domainFacts, dexecs>>
  BY DEF DomainIInv, Domain!TypeOK, Domain!RequeueMissingCredential, Domain!Goto, Domain!Phases
<1>2. ASSUME NEW d \in Domains
      PROVE  /\ dtasks'[d] \in Domain!Task
             /\ \/ dtasks'[d] = dtasks[d]
                \/ DomainFounded(d)' /\ dtasks'[d].generation = dtasks[d].generation + 1
  <2>1. dtasks[d] \in Domain!Task /\ DomainFounded(d)
    BY DEF DomainIInv, Domain!TypeOK
  <2>2. dtasks'[d] = IF Domain!LostForCredential(d) THEN Domain!Requeued(dtasks[d]) ELSE dtasks[d]
    BY DEF Domain!RequeueMissingCredential
  <2>3. CASE Domain!LostForCredential(d)
    <3>1. /\ Domain!Requeued(dtasks[d]) \in Domain!Task /\ Domain!Requeued(dtasks[d]).status = "queued"
          /\ Domain!Requeued(dtasks[d]).rdap = dtasks[d].rdap
          /\ Domain!Requeued(dtasks[d]).generation = dtasks[d].generation + 1
          /\ Domain!Requeued(dtasks[d]).generation \in 1..MaxGeneration
      BY <2>1, <2>3, DomainRequeuedTyped DEF Domain!LostForCredential
    <3> QED
      BY <1>1, <2>1, <2>2, <2>3, <3>1 DEF DomainFounded
  <2> QED
    BY <2>1, <2>2, <2>3
<1>3. dtasks' \in [Domains -> Domain!Task]
  BY <1>2 DEF Domain!RequeueMissingCredential
<1> QED
  BY <1>1, <1>2, <1>3, TasksMove

LEMMA Queues ==
  ASSUME DomainBounded, DomainIInv, NEW r \in Runners, Domain!QueueDueTasks(r)
  PROVE  DomainIInv'
<1>1. PICK some \in SUBSET {d \in Domains : Domain!Due(d)} :
        /\ dtasks' = [d \in Domains |-> IF d \in some THEN Domain!QueuedFor(d) ELSE dtasks[d]]
        /\ Domain!Goto(r, IF some = {} THEN "work" ELSE "claimAgain")
  BY DEF Domain!QueueDueTasks
<1>2. drunners' \in [Runners -> Domain!Phases] /\ credential' \in BOOLEAN /\ UNCHANGED <<domainFacts, dexecs>>
  BY <1>1 DEF DomainIInv, Domain!TypeOK, Domain!QueueDueTasks, Domain!Goto, Domain!Phases
<1>3. ASSUME NEW d \in Domains
      PROVE  /\ dtasks'[d] \in Domain!Task
             /\ \/ dtasks'[d] = dtasks[d]
                \/ DomainFounded(d)' /\ dtasks'[d].generation = dtasks[d].generation + 1
  <2>1. dtasks[d] \in Domain!Task
    BY DEF DomainIInv, Domain!TypeOK
  <2>2. CASE d \in some
    <3>1. /\ Domain!Requeued(dtasks[d]) \in Domain!Task /\ Domain!Requeued(dtasks[d]).status = "queued"
          /\ Domain!Requeued(dtasks[d]).generation = dtasks[d].generation + 1
          /\ Domain!Requeued(dtasks[d]).generation \in 1..MaxGeneration
      BY <2>1, <2>2, DomainRequeuedTyped DEF Domain!Due
    <3>2. PICK task \in Domain!Task : task = Domain!Requeued(dtasks[d])
      BY <3>1
    <3>3. dtasks'[d] = [task EXCEPT !.rate = domainFacts[d].rating # "fresh", !.rdap = domainFacts[d].rdap = "none"]
      BY <1>1, <2>2, <3>2 DEF Domain!QueuedFor
    <3>4. /\ dtasks'[d] \in Domain!Task /\ dtasks'[d].status = task.status
          /\ dtasks'[d].generation = task.generation /\ dtasks'[d].rdap = (domainFacts[d].rdap = "none")
      BY <3>3 DEF Domain!Task
    <3> QED
      BY <1>2, <3>1, <3>2, <3>4 DEF DomainFounded
  <2> QED
    BY <1>1, <2>1, <2>2
<1>4. dtasks' \in [Domains -> Domain!Task]
  BY <1>1, <1>3
<1> QED
  BY <1>2, <1>3, <1>4, TasksMove

LEMMA DomainClaims ==
  ASSUME DomainBounded, DomainIInv, NEW r \in Runners, Domain!ClaimDueTasks(r)
  PROVE  DomainIInv'
<1>1. PICK some \in SUBSET {d \in Domains : Domain!Claimable(d)} :
        /\ dtasks' = [d \in Domains |-> IF d \in some THEN Domain!Claimed(dtasks[d]) ELSE dtasks[d]]
        /\ dexecs' = dexecs \cup {Domain!ExecutionOf(r, d) : d \in some}
        /\ Domain!Goto(r, "work") \/ Domain!Goto(r, "discover")
  BY DEF Domain!ClaimDueTasks
<1>2. drunners' \in [Runners -> Domain!Phases] /\ credential' \in BOOLEAN /\ UNCHANGED <<domainFacts>>
  BY <1>1 DEF DomainIInv, Domain!TypeOK, Domain!ClaimDueTasks, Domain!Goto, Domain!Phases
<1>3. ASSUME NEW d \in some
      PROVE  /\ d \in Domains /\ dtasks[d] \in Domain!Task /\ dtasks'[d] \in Domain!Task
             /\ dtasks[d].generation \in 1..MaxGeneration /\ dtasks[d].attempts \in 0..MaxAttempts
             /\ dtasks[d].attempts < MaxAttempts
             /\ dtasks'[d].status = "processing" /\ dtasks'[d].retry = "due"
             /\ dtasks'[d].rdap = dtasks[d].rdap /\ dtasks'[d].generation = dtasks[d].generation
             /\ dtasks'[d].attempts = dtasks[d].attempts + 1 /\ dtasks'[d].token = dtasks[d].attempts + 1
  <2>1. d \in Domains /\ dtasks[d] \in Domain!Task /\ dtasks[d].attempts < MaxAttempts /\ DomainFounded(d)
        /\ dtasks[d].status \in {"queued", "failed", "processing"}
    BY DEF DomainIInv, Domain!TypeOK, Domain!Claimable
  <2>2. dtasks'[d] = Domain!Claimed(dtasks[d])
    BY <1>1, <2>1
  <2> QED
    BY <2>1, <2>2, DomainClaimedTyped DEF DomainFounded, Domain!Task
<1>4. \A d \in Domains \ some : dtasks'[d] = dtasks[d] /\ dtasks[d] \in Domain!Task
  BY <1>1 DEF DomainIInv, Domain!TypeOK
<1>5. ASSUME NEW d \in some, NEW e, e = Domain!ExecutionOf(r, d)
      PROVE  e \in Domain!Execution /\ Dated(e)'
  <2>1. e \in Domain!Execution
    BY <1>3, <1>5 DEF DomainBounded, Domain!ExecutionOf, Domain!Execution, Domain!Failure, Domain!Result,
         Domain!Task
  <2>2. /\ e.domain = d /\ e.generation = dtasks[d].generation /\ e.token = dtasks[d].attempts + 1
        /\ e.rdap = dtasks[d].rdap /\ e.result.rdap = "none"
    BY <1>5 DEF Domain!ExecutionOf, Domain!Failure
  <2>3. dtasks[d].generation \in Nat /\ dtasks[d].attempts \in Nat
    BY <1>3 DEF DomainBounded
  <2>4. Dated(e)'
    BY <1>3, <2>2, <2>3 DEF Dated, Domain!Holds
  <2> QED
    BY <2>1, <2>4
<1>6. ASSUME NEW e \in dexecs
      PROVE  Dated(e)'
  <2>1. e \in Domain!Execution /\ Dated(e) /\ e.domain \in Domains
    BY DEF DomainIInv, Domain!TypeOK, Domain!Execution
  <2>2. e.generation \in Nat /\ e.token \in Nat
    BY <2>1 DEF DomainBounded, Domain!Execution
  <2>3. CASE e.domain \in some
    <3>1. /\ dtasks[e.domain].attempts \in Nat
          /\ dtasks'[e.domain].generation = dtasks[e.domain].generation
          /\ dtasks'[e.domain].attempts = dtasks[e.domain].attempts + 1
          /\ dtasks'[e.domain].token = dtasks[e.domain].attempts + 1
      BY <1>3, <2>3 DEF DomainBounded
    <3> QED
      BY <2>1, <2>2, <3>1 DEF Dated, Domain!Holds
  <2>4. CASE e.domain \notin some
    BY <1>4, <2>1, <2>4 DEF Dated, Domain!Holds
  <2> QED
    BY <2>3, <2>4
<1>7. Domain!TypeOK'
  <2>1. dtasks' \in [Domains -> Domain!Task]
    BY <1>1, <1>3, <1>4
  <2>2. dexecs' \subseteq Domain!Execution
    BY <1>1, <1>5 DEF DomainIInv, Domain!TypeOK
  <2> QED
    BY <1>2, <2>1, <2>2 DEF DomainIInv, Domain!TypeOK
<1>8. ASSUME NEW d \in Domains
      PROVE  DomainFounded(d)'
  BY <1>2, <1>3, <1>4 DEF DomainIInv, DomainFounded
<1>9. ASSUME NEW e \in dexecs'
      PROVE  Dated(e)'
  BY <1>1, <1>5, <1>6
<1> QED
  BY <1>7, <1>8, <1>9 DEF DomainIInv

-----------------------------------------------------------------------------
(* What an execution does to its task and its domain: nothing, a renewal, or *)
(* the completion with what it may bring.                                    *)
Brings(e, x) == x \in Domain!Result /\ (x.rdap # "none" => e.rdap)

DomainActs(e) ==
  \/ UNCHANGED <<domainFacts, dtasks>>
  \/ Domain!Holds(e) /\ Domain!Renew(e) /\ UNCHANGED domainFacts
  \/ \E x : Brings(e, x) /\ Domain!Complete(e, x)

LEMMA WrittenTyped ==
  ASSUME Domain!TypeOK, NEW e \in Domain!Execution, NEW x \in Domain!Result
  PROVE  /\ Domain!Written(e, x) \in Domain!Fact
         /\ Domain!Written(e, x).rdap = IF x.rdap # "none" THEN x.rdap ELSE domainFacts[e.domain].rdap
<1>1. domainFacts[e.domain] \in Domain!Fact /\ x.rdap \in {"none", "observed", "failed"}
  BY DEF Domain!TypeOK, Domain!Execution, Domain!Result
<1> QED
  BY <1>1 DEF Domain!Written, Domain!Fact

LEMMA DomainActsKeep ==
  ASSUME DomainBounded, DomainIInv, NEW e \in dexecs, DomainActs(e)
  PROVE  /\ domainFacts' \in [Domains -> Domain!Fact] /\ dtasks' \in [Domains -> Domain!Task]
         /\ \A d \in Domains : DomainFounded(d)'
         /\ \A o \in dexecs : Dated(o)'
<1>1. /\ Domain!TypeOK /\ e \in Domain!Execution /\ e.domain \in Domains /\ dtasks[e.domain] \in Domain!Task
      /\ \A d \in Domains : DomainFounded(d)
      /\ \A o \in dexecs : o \in Domain!Execution /\ Dated(o) /\ o.domain \in Domains
  BY DEF DomainIInv, Domain!TypeOK, Domain!Execution
<1>2. CASE UNCHANGED <<domainFacts, dtasks>>
  BY <1>1, <1>2 DEF Domain!TypeOK, DomainFounded, Dated, Domain!Holds
<1>3. CASE Domain!Holds(e) /\ Domain!Renew(e) /\ UNCHANGED domainFacts
  <2>1. [dtasks[e.domain] EXCEPT !.lease = "held"]
          = [dtasks[e.domain] EXCEPT !.lease = "held", !.retry = dtasks[e.domain].retry]
        /\ dtasks[e.domain].retry \in {"ahead", "due"}
    BY <1>1 DEF Domain!Task
  <2>2. PICK next \in Domain!Task :
          /\ dtasks' = [dtasks EXCEPT ![e.domain] = next]
          /\ next.status = dtasks[e.domain].status /\ next.generation = dtasks[e.domain].generation
          /\ next.attempts = dtasks[e.domain].attempts /\ next.token = dtasks[e.domain].token
          /\ next.rdap = dtasks[e.domain].rdap /\ next.retry = dtasks[e.domain].retry
    <3>1. PICK task \in Domain!Task, retry \in {"ahead", "due"} : task = dtasks[e.domain] /\ retry = task.retry
      BY <1>1, <2>1
    <3>2. dtasks' = [dtasks EXCEPT ![e.domain] = [task EXCEPT !.lease = "held", !.retry = retry]]
      BY <1>3, <2>1, <3>1 DEF Domain!Renew
    <3>3. PICK next : next = [task EXCEPT !.lease = "held", !.retry = retry]
      OBVIOUS
    <3>4. next \in Domain!Task /\ next.status = task.status /\ next.generation = task.generation
          /\ next.attempts = task.attempts /\ next.token = task.token
          /\ next.rdap = task.rdap /\ next.retry = retry
      BY <3>1, <3>3 DEF Domain!Task
    <3> QED
      BY <3>1, <3>2, <3>3, <3>4
  <2>3. /\ dtasks' \in [Domains -> Domain!Task] /\ dtasks'[e.domain] = next
        /\ \A d \in Domains \ {e.domain} : dtasks'[d] = dtasks[d]
    BY <1>1, <2>2 DEF Domain!TypeOK
  <2>4. \A d \in Domains : DomainFounded(d)'
    BY <1>1, <1>3, <2>2, <2>3 DEF DomainFounded
  <2>5. \A o \in dexecs : Dated(o)'
    BY <1>1, <2>2, <2>3 DEF Dated, Domain!Holds
  <2> QED
    BY <1>1, <1>3, <2>3, <2>4, <2>5 DEF Domain!TypeOK
<1>4. ASSUME NEW x, Brings(e, x), Domain!Complete(e, x), Domain!Holds(e)
      PROVE  /\ domainFacts' \in [Domains -> Domain!Fact] /\ dtasks' \in [Domains -> Domain!Task]
             /\ \A d \in Domains : DomainFounded(d)'
             /\ \A o \in dexecs : Dated(o)'
  <2>1. x \in Domain!Result /\ (x.rdap # "none" => e.rdap)
    BY <1>4 DEF Brings
  <2>2. PICK next \in Domain!Task, fact \in Domain!Fact :
          /\ dtasks' = [dtasks EXCEPT ![e.domain] = next] /\ domainFacts' = [domainFacts EXCEPT ![e.domain] = fact]
          /\ next.status \in {"done", "no_data", "failed"} /\ next.generation = dtasks[e.domain].generation
          /\ next.attempts = dtasks[e.domain].attempts
          /\ next.rdap => dtasks[e.domain].rdap /\ x.rdap = "none"
          /\ x.rdap = "none" => fact.rdap = domainFacts[e.domain].rdap
    BY <1>1, <1>4, <2>1, DomainSettledTyped, WrittenTyped DEF Domain!Complete
  <2>3. /\ dtasks' \in [Domains -> Domain!Task] /\ dtasks'[e.domain] = next
        /\ domainFacts' \in [Domains -> Domain!Fact] /\ domainFacts'[e.domain] = fact
        /\ \A d \in Domains \ {e.domain} : dtasks'[d] = dtasks[d] /\ domainFacts'[d] = domainFacts[d]
    BY <1>1, <2>2 DEF Domain!TypeOK
  <2>4. \A d \in Domains : DomainFounded(d)'
    BY <1>1, <1>4, <2>2, <2>3 DEF DomainFounded, Domain!Holds
  <2>5. \A o \in dexecs : Dated(o)'
    BY <1>1, <2>2, <2>3 DEF Dated, Domain!Holds
  <2> QED
    BY <2>3, <2>4, <2>5
<1>5. ASSUME NEW x, Domain!Complete(e, x), ~Domain!Holds(e)
      PROVE  UNCHANGED <<domainFacts, dtasks>>
  BY <1>5 DEF Domain!Complete
<1> QED
  BY <1>2, <1>3, <1>4, <1>5 DEF DomainActs

(* An execution acts, and ends or goes on with what it may bring.            *)
LEMMA Works ==
  ASSUME DomainBounded, DomainIInv, NEW e \in dexecs, DomainActs(e), UNCHANGED <<drunners, credential>>,
         \/ dexecs' = dexecs \ {e}
         \/ \E phase \in {"fetching", "completing", "handling"} : \E x : Brings(e, x) /\ Domain!Becomes(e, phase, x)
  PROVE  DomainIInv'
<1>1. /\ domainFacts' \in [Domains -> Domain!Fact] /\ dtasks' \in [Domains -> Domain!Task]
      /\ \A d \in Domains : DomainFounded(d)'
      /\ \A o \in dexecs : Dated(o)'
  BY DomainActsKeep
<1>2. dexecs \subseteq Domain!Execution /\ Domain!TypeOK
  BY DEF DomainIInv, Domain!TypeOK
<1>3. dexecs' \subseteq Domain!Execution /\ \A o \in dexecs' : Dated(o)'
  <2>1. CASE dexecs' = dexecs \ {e}
    BY <1>1, <1>2, <2>1
  <2>2. ASSUME NEW phase \in {"fetching", "completing", "handling"}, NEW x, Brings(e, x), Domain!Becomes(e, phase, x)
        PROVE  dexecs' \subseteq Domain!Execution /\ \A o \in dexecs' : Dated(o)'
    <3>1. PICK next : next = [e EXCEPT !.phase = phase, !.result = x]
      OBVIOUS
    <3>2. next \in Domain!Execution
      BY <1>2, <2>2, <3>1 DEF Domain!Execution, Brings
    <3>3. /\ next.domain = e.domain /\ next.generation = e.generation /\ next.token = e.token
          /\ next.rdap = e.rdap /\ next.result = x
      BY <1>2, <3>1 DEF Domain!Execution
    <3>4. Dated(next)'
      BY <1>1, <2>2, <3>3 DEF Dated, Domain!Holds, Brings
    <3> QED
      BY <1>1, <1>2, <2>2, <3>1, <3>2, <3>4 DEF Domain!Becomes
  <2> QED
    BY <2>1, <2>2
<1> QED
  BY <1>1, <1>2, <1>3 DEF DomainIInv, Domain!TypeOK

LEMMA OfExecutions ==
  ASSUME DomainIInv, NEW e \in dexecs,
         Domain!FetchAndRenew(e) \/ Domain!CompleteTask(e) \/ Domain!WorkRaises(e) \/ Domain!HandlerRaises(e)
  PROVE  /\ DomainActs(e) /\ UNCHANGED <<drunners, credential>>
         /\ \/ dexecs' = dexecs \ {e}
            \/ \E phase \in {"fetching", "completing", "handling"} : \E x : Brings(e, x) /\ Domain!Becomes(e, phase, x)
<1>1. Brings(e, e.result) /\ Brings(e, Domain!Failure)
  BY DEF DomainIInv, Domain!TypeOK, Domain!Execution, Dated, Brings, Domain!Failure, Domain!Result
<1>2. \A x \in Domain!Results(e) : Brings(e, x)
  BY DEF Domain!Results, Brings
<1>3. CASE Domain!FetchAndRenew(e)
  BY <1>2, <1>3 DEF Domain!FetchAndRenew, DomainActs
<1>4. CASE Domain!CompleteTask(e)
  BY <1>1, <1>4 DEF Domain!CompleteTask, DomainActs
<1>5. CASE Domain!WorkRaises(e)
  BY <1>1, <1>5 DEF Domain!WorkRaises, DomainActs
<1>6. CASE Domain!HandlerRaises(e)
  BY <1>1, <1>6 DEF Domain!HandlerRaises, DomainActs
<1> QED
  BY <1>3, <1>4, <1>5, <1>6

LEMMA Executions ==
  ASSUME DomainBounded, DomainIInv, NEW e \in dexecs,
         Domain!FetchAndRenew(e) \/ Domain!CompleteTask(e) \/ Domain!WorkRaises(e) \/ Domain!HandlerRaises(e)
  PROVE  DomainIInv'
BY OfExecutions, Works

-----------------------------------------------------------------------------
LEMMA DomainSurroundings ==
  ASSUME DomainBounded, DomainIInv,
         \/ Domain!ConfigureCredential
         \/ \E d \in Domains : Domain!LeaseExpires(d) \/ Domain!RetryFallsDue(d) \/ Domain!RatingAges(d)
  PROVE  DomainIInv'
<1>1. CASE Domain!ConfigureCredential
  BY <1>1, Quiet DEF Domain!ConfigureCredential, DomainIInv, Domain!TypeOK
<1>2. ASSUME NEW d \in Domains, Domain!LeaseExpires(d) \/ Domain!RetryFallsDue(d)
      PROVE  DomainIInv'
  <2>1. Domain!TypeOK /\ dtasks[d] \in Domain!Task /\ UNCHANGED <<domainFacts, dexecs, drunners, credential>>
    BY <1>2 DEF DomainIInv, Domain!TypeOK, Domain!LeaseExpires, Domain!RetryFallsDue
  <2>2. PICK lease \in {"none", "held", "expired"}, retry \in {"ahead", "due"} :
          /\ dtasks' = [dtasks EXCEPT ![d] = [dtasks[d] EXCEPT !.lease = lease, !.retry = retry]]
          /\ retry = dtasks[d].retry \/ retry = "due"
    <3>1. /\ [dtasks[d] EXCEPT !.lease = "expired"] = [dtasks[d] EXCEPT !.lease = "expired", !.retry = dtasks[d].retry]
          /\ [dtasks[d] EXCEPT !.retry = "due"] = [dtasks[d] EXCEPT !.lease = dtasks[d].lease, !.retry = "due"]
          /\ dtasks[d].retry \in {"ahead", "due"} /\ dtasks[d].lease \in {"none", "held", "expired"}
      BY <2>1 DEF Domain!Task
    <3> QED
      BY <1>2, <3>1 DEF Domain!LeaseExpires, Domain!RetryFallsDue
  <2>3. PICK next \in Domain!Task :
          /\ dtasks' = [dtasks EXCEPT ![d] = next]
          /\ next.status = dtasks[d].status /\ next.generation = dtasks[d].generation
          /\ next.attempts = dtasks[d].attempts /\ next.token = dtasks[d].token
          /\ next.rdap = dtasks[d].rdap /\ next.retry = retry
    <3>1. PICK task \in Domain!Task : task = dtasks[d]
      BY <2>1
    <3>2. PICK next : next = [task EXCEPT !.lease = lease, !.retry = retry]
      OBVIOUS
    <3>3. next \in Domain!Task /\ next.status = task.status /\ next.generation = task.generation
          /\ next.attempts = task.attempts /\ next.token = task.token
          /\ next.rdap = task.rdap /\ next.retry = retry
      BY <2>2, <3>1, <3>2 DEF Domain!Task
    <3> QED
      BY <2>2, <3>1, <3>2, <3>3
  <2>4. /\ dtasks' \in [Domains -> Domain!Task] /\ dtasks'[d] = next
        /\ \A o \in Domains \ {d} : dtasks'[o] = dtasks[o]
    BY <2>1, <2>3 DEF Domain!TypeOK
  <2>5. DomainFounded(d)'
    BY <2>1, <2>2, <2>3, <2>4 DEF DomainIInv, DomainFounded
  <2> QED
    BY <2>1, <2>3, <2>4, <2>5, TasksMove DEF Domain!TypeOK
<1>3. ASSUME NEW d \in Domains, Domain!RatingAges(d)
      PROVE  DomainIInv'
  <2>1. domainFacts' \in [Domains -> Domain!Fact] /\ \A o \in Domains : domainFacts'[o].rdap = domainFacts[o].rdap
    BY <1>3 DEF Domain!RatingAges, DomainIInv, Domain!TypeOK, Domain!Fact
  <2> QED
    BY <1>3, <2>1 DEF Domain!RatingAges, DomainIInv, Domain!TypeOK, DomainFounded, Dated, Domain!Holds
<1> QED
  BY <1>1, <1>2, <1>3

LEMMA DomainInductive ==
  ASSUME DomainBounded, DomainIInv, [Domain!Next]_(Domain!vars)
  PROVE  DomainIInv'
<1>1. CASE UNCHANGED Domain!vars
  BY <1>1, Quiet DEF Domain!vars, DomainIInv, Domain!TypeOK
<1> QED
  BY <1>1, Batches, DomainRequeues, DomainClaims, Queues, Executions, DomainSurroundings DEF Domain!Next,
       Domain!Step, Domain!Work

(* What holds whatever happens.                                              *)
LEMMA DomainAlways ==
  ASSUME DomainBounded
  PROVE  Domain!Spec => []DomainIInv
<1>1. Domain!Init => DomainIInv
  BY DomainInitially
<1>2. DomainIInv /\ [Domain!Next]_(Domain!vars) => DomainIInv'
  BY DomainInductive
<1> QED
  BY <1>1, <1>2, PTL DEF Domain!Spec

(* Tasks, facts and executions are well typed: no task is in an attempt or a *)
(* generation that its bounds do not allow (claim_due_tasks, complete_task). *)
THEOREM LedgerTyped ==
  ASSUME DomainBounded
  PROVE  Domain!Spec => []Domain!TypeOK
<1>1. DomainIInv => Domain!TypeOK
  BY DEF DomainIInv
<1> QED
  BY <1>1, DomainAlways, PTL

-----------------------------------------------------------------------------
(* Only a completion under the fence writes what RDAP said.                  *)
LEMMA StepObserves ==
  ASSUME DomainBounded, DomainIInv, Domain!Next
  PROVE  Domain!ObservationKept
<1>1. ASSUME UNCHANGED domainFacts
      PROVE  Domain!ObservationKept
  BY <1>1 DEF Domain!ObservationKept
<1>2. ASSUME NEW e \in dexecs, DomainActs(e)
      PROVE  Domain!ObservationKept
  <2>1. Domain!TypeOK /\ e \in Domain!Execution /\ e.domain \in Domains /\ Dated(e) /\ DomainFounded(e.domain)
    BY DEF DomainIInv, Domain!TypeOK, Domain!Execution
  <2>2. ASSUME NEW x, Brings(e, x), Domain!Complete(e, x), Domain!Holds(e),
               NEW d \in Domains, domainFacts[d].rdap # "none"
        PROVE  domainFacts'[d].rdap = domainFacts[d].rdap
    <3>1. domainFacts' = [domainFacts EXCEPT ![e.domain] = Domain!Written(e, x)]
      BY <2>2 DEF Domain!Complete
    <3>2. CASE d = e.domain
      <4>1. x.rdap = "none"
        BY <2>1, <2>2, <3>2 DEF Dated, DomainFounded, Brings
      <4> QED
        BY <2>1, <2>2, <3>1, <3>2, <4>1, WrittenTyped DEF Brings, Domain!TypeOK
    <3> QED
      BY <2>1, <3>1, <3>2 DEF Domain!TypeOK
  <2> QED
    BY <1>1, <1>2, <2>2 DEF DomainActs, Domain!Complete, Domain!ObservationKept
<1>3. ASSUME NEW d \in Domains, Domain!RatingAges(d)
      PROVE  Domain!ObservationKept
  BY <1>3 DEF Domain!RatingAges, Domain!ObservationKept, DomainIInv, Domain!TypeOK, Domain!Fact
<1>4. ASSUME NEW r \in Runners, Domain!Step(r) \/ Domain!Crash(r)
      PROVE  UNCHANGED domainFacts
  BY <1>4 DEF Domain!Step, Domain!Crash, Domain!StartBatch, Domain!RequeueMissingCredential,
       Domain!ClaimDueTasks, Domain!QueueDueTasks, Domain!EndBatch
<1> QED
  BY <1>1, <1>2, <1>3, <1>4, OfExecutions DEF Domain!Next, Domain!Work, Domain!LeaseExpires,
       Domain!RetryFallsDue, Domain!ConfigureCredential

(* What came of the RDAP request of a domain first is never replaced:        *)
(* through retries, executions that come late, exceptions that complete a    *)
(* task twice, and the requeue of dead letters (DomainStateClient.fetch,     *)
(* complete_task).                                                           *)
THEOREM RegistrationObservedOnce ==
  ASSUME DomainBounded
  PROVE  Domain!Spec => Domain!RdapObservedOnce
<1>1. DomainIInv /\ [Domain!Next]_(Domain!vars) => [Domain!ObservationKept]_domainFacts
  BY StepObserves DEF Domain!vars
<1> QED
  BY <1>1, DomainAlways, PTL DEF Domain!Spec, Domain!RdapObservedOnce

-----------------------------------------------------------------------------
(* The execution that holds the lease leaves, or goes on in another phase.   *)
LEMMA HolderSteps ==
  ASSUME DomainIInv, NEW e \in dexecs, Domain!Holds(e),
         Domain!FetchAndRenew(e) \/ Domain!CompleteTask(e) \/ Domain!WorkRaises(e) \/ Domain!HandlerRaises(e)
  PROVE  e \in dexecs \ dexecs'
<1>1. e \in Domain!Execution
  BY DEF DomainIInv, Domain!TypeOK
<1>2. ASSUME NEW phase, NEW x, phase # e.phase, Domain!Becomes(e, phase, x)
      PROVE  e \notin dexecs'
  <2>1. [e EXCEPT !.phase = phase, !.result = x].phase = phase
    BY <1>1 DEF Domain!Execution
  <2> QED
    BY <1>2, <2>1 DEF Domain!Becomes
<1> QED
  BY <1>1, <1>2 DEF Domain!FetchAndRenew, Domain!CompleteTask, Domain!WorkRaises, Domain!HandlerRaises,
       Domain!At

LEMMA DomainStepHeld ==
  ASSUME DomainBounded, DomainIInv, Domain!Next
  PROVE  Domain!HolderOnly
<1> SUFFICES ASSUME NEW d \in Domains, dtasks[d].status = "processing",
                    NEW holderActs \in BOOLEAN,
                    holderActs = \E e \in dexecs \ dexecs' : /\ e.domain = d /\ e.token = dtasks[d].token
                                                             /\ e.generation = dtasks[d].generation
             PROVE  /\ dtasks'[d] # dtasks[d] => \/ dtasks'[d] = [dtasks[d] EXCEPT !.lease = "expired"]
                                                 \/ dtasks[d].lease = "expired" /\ dtasks'[d] = Domain!Claimed(dtasks[d])
                                                 \/ holderActs
                    /\ \/ domainFacts'[d] = domainFacts[d] \/ holderActs
                       \/ domainFacts'[d] = [domainFacts[d] EXCEPT !.rating = "stale"]
  BY DEF Domain!HolderOnly
<1>1. Domain!TypeOK /\ DomainFounded(d)
  BY DEF DomainIInv
<1>2. ASSUME NEW r \in Runners, Domain!Step(r) \/ Domain!Crash(r)
      PROVE  /\ domainFacts' = domainFacts
             /\ \/ dtasks'[d] = dtasks[d]
                \/ dtasks[d].lease = "expired" /\ dtasks'[d] = Domain!Claimed(dtasks[d])
  <2>1. CASE Domain!ClaimDueTasks(r)
    BY <1>1, <2>1 DEF Domain!ClaimDueTasks, Domain!Claimable
  <2>2. CASE Domain!RequeueMissingCredential(r)
    BY <1>1, <2>2 DEF Domain!RequeueMissingCredential, Domain!LostForCredential
  <2>3. CASE Domain!QueueDueTasks(r)
    BY <1>1, <2>3 DEF Domain!QueueDueTasks, Domain!Due
  <2> QED
    BY <1>2, <2>1, <2>2, <2>3 DEF Domain!Step, Domain!Crash, Domain!StartBatch, Domain!EndBatch
<1>3. ASSUME NEW e \in dexecs,
             Domain!FetchAndRenew(e) \/ Domain!CompleteTask(e) \/ Domain!WorkRaises(e) \/ Domain!HandlerRaises(e)
      PROVE  holderActs \/ (domainFacts'[d] = domainFacts[d] /\ dtasks'[d] = dtasks[d])
  <2>1. DomainActs(e) /\ e.domain \in Domains
    BY <1>3, OfExecutions DEF DomainIInv, Domain!TypeOK, Domain!Execution
  <2>2. CASE ~Domain!Holds(e)
    BY <2>1, <2>2 DEF DomainActs, Domain!Complete
  <2>3. CASE e.domain # d
    BY <1>1, <2>1, <2>3 DEF DomainActs, Domain!Complete, Domain!Renew, Domain!TypeOK
  <2>4. CASE Domain!Holds(e) /\ e.domain = d
    BY <1>3, <2>4, HolderSteps DEF Domain!Holds
  <2> QED
    BY <2>2, <2>3, <2>4
<1>4. ASSUME NEW o \in Domains, Domain!LeaseExpires(o)
      PROVE  domainFacts' = domainFacts /\ dtasks'[d] \in {dtasks[d], [dtasks[d] EXCEPT !.lease = "expired"]}
  BY <1>1, <1>4 DEF Domain!LeaseExpires, Domain!TypeOK
<1>5. ASSUME NEW o \in Domains, Domain!RetryFallsDue(o)
      PROVE  domainFacts' = domainFacts /\ dtasks'[d] = dtasks[d]
  BY <1>1, <1>5 DEF Domain!RetryFallsDue, Domain!TypeOK, DomainFounded
<1>6. ASSUME NEW o \in Domains, Domain!RatingAges(o)
      PROVE  dtasks' = dtasks /\ domainFacts'[d] \in {domainFacts[d], [domainFacts[d] EXCEPT !.rating = "stale"]}
  BY <1>1, <1>6 DEF Domain!RatingAges, Domain!TypeOK
<1>7. CASE Domain!ConfigureCredential
  BY <1>7 DEF Domain!ConfigureCredential
<1> QED
  BY <1>2, <1>3, <1>4, <1>5, <1>6, <1>7 DEF Domain!Next, Domain!Work

(* A claimed task, and the facts of its domain, change only by the expiry of *)
(* the lease, a claim after that, or a step of the execution that holds the  *)
(* lease: one whose lease was taken over writes no outcome (renew_lease,     *)
(* complete_task).                                                           *)
THEOREM DomainFenceHolds ==
  ASSUME DomainBounded
  PROVE  Domain!Spec => Domain!OnlyTheHolderWrites
<1>1. DomainIInv /\ [Domain!Next]_(Domain!vars) => [Domain!HolderOnly]_<<domainFacts, dtasks, dexecs>>
  BY DomainStepHeld DEF Domain!vars
<1> QED
  BY <1>1, DomainAlways, PTL DEF Domain!Spec, Domain!OnlyTheHolderWrites
-----------------------------------------------------------------------------
(* The review: the readiness of tools and their publication.                 *)
CONSTANTS Products, Reviewers, Changes, Failures

VARIABLES catalog, states, changeLog, rounds, evaluations

Review == INSTANCE CatalogReview

(* What other writers of the catalog do to a tool.                           *)
ReviewBounded == Changes \subseteq {"named", "safe", "accepted", "retired", "held", "released"}

OneReviewer == \A r, s \in Reviewers : r = s

(* No evaluation outlives the batch that began it.  The code only waits for  *)
(* them where none raises: asyncio.gather passes the first exception on and  *)
(* leaves the others running (evaluate_tools).                               *)
EvaluationsEnd ==
  \A r \in Reviewers : rounds[r].phase \notin {"reconcile", "reconciling"} => Review!EvaluationsOf(r) = {}

-----------------------------------------------------------------------------
LEMMA ChangedTyped ==
  ASSUME ReviewBounded, Review!TypeOK, NEW t \in Products, NEW change \in Changes
  PROVE  /\ Review!Changed(t, change) \in Review!Entry
         /\ Review!Changed(t, change).status = catalog[t].status
         /\ catalog[t].safe => Review!Changed(t, change).safe
         /\ catalog[t].named => Review!Changed(t, change).named
<1>1. /\ catalog[t] \in Review!Entry
      /\ change \in {"named", "safe", "accepted", "retired", "held", "released"}
  BY DEF ReviewBounded, Review!TypeOK
<1>2. CASE change = "named"
  BY <1>1, <1>2 DEF Review!Changed, Review!Entry
<1>3. CASE change = "safe"
  BY <1>1, <1>3 DEF Review!Changed, Review!Entry
<1>4. CASE change \in {"accepted", "retired"}
  <2>1. Review!Changed(t, change) = [catalog[t] EXCEPT !.accepted = (change = "accepted")]
    BY <1>4 DEF Review!Changed
  <2>2. (change = "accepted") \in BOOLEAN
    OBVIOUS
  <2> QED
    BY <1>1, <2>1, <2>2 DEF Review!Entry
<1>5. CASE change \in {"held", "released"}
  <2>1. Review!Changed(t, change) = [catalog[t] EXCEPT !.held = (change = "held")]
    BY <1>5 DEF Review!Changed
  <2>2. (change = "held") \in BOOLEAN
    OBVIOUS
  <2> QED
    BY <1>1, <2>1, <2>2 DEF Review!Entry
<1> QED
  BY <1>1, <1>2, <1>3, <1>4, <1>5

(* A process moves to another phase with nothing selected.                   *)
LEMMA Moved ==
  ASSUME Review!TypeOK, NEW r \in Reviewers,
         NEW phase \in {"idle", "log", "commit", "work", "reconcile", "reconciling"}, Review!Goto(r, phase)
  PROVE  /\ rounds' \in [Reviewers -> Review!Round]
         /\ rounds'[r].phase = phase
         /\ \A s \in Reviewers : s # r => rounds'[s] = rounds[s]
<1>1. PICK next : next = [Review!Resting EXCEPT !.phase = phase]
  OBVIOUS
<1>2. next \in Review!Round /\ next.phase = phase
  BY <1>1 DEF Review!Resting, Review!Round
<1>3. rounds' = [rounds EXCEPT ![r] = next]
  BY <1>1 DEF Review!Goto
<1> QED
  BY <1>2, <1>3 DEF Review!TypeOK

LEMMA Rested ==
  ASSUME Review!TypeOK, NEW r, rounds' = [rounds EXCEPT ![r] = Review!Resting]
  PROVE  /\ rounds' \in [Reviewers -> Review!Round]
         /\ r \in Reviewers => rounds'[r].phase = "idle"
         /\ \A s \in Reviewers : s # r => rounds'[s] = rounds[s]
<1>1. Review!Resting \in Review!Round /\ Review!Resting.phase = "idle"
  BY DEF Review!Resting, Review!Round
<1> QED
  BY <1>1 DEF Review!TypeOK

LEMMA ReviewBegins ==
  Review!Init => Review!TypeOK
<1> SUFFICES ASSUME Review!Init
             PROVE  Review!TypeOK
  OBVIOUS
<1>1. Review!Resting \in Review!Round
  BY DEF Review!Resting, Review!Round
<1> QED
  BY <1>1 DEF Review!Init, Review!TypeOK, Review!Entry, Review!State

-----------------------------------------------------------------------------
(* Publication: the selection, the entry and the update.                     *)
LEMMA SelectTyped ==
  ASSUME Review!TypeOK, NEW r \in Reviewers, Review!SelectReviewed(r)
  PROVE  Review!TypeOK'
<1>1. PICK found \in SUBSET Products : found = {t \in Products : Review!Publishable(t)}
  OBVIOUS
<1>2. \/ Review!Goto(r, "work")
      \/ rounds' = [rounds EXCEPT ![r] = [phase |-> "log", todo |-> found, logged |-> {}]]
  BY <1>1, Zenon DEF Review!SelectReviewed
<1>3. [phase |-> "log", todo |-> found, logged |-> {}] \in Review!Round
  BY DEF Review!Round
<1>4. rounds' \in [Reviewers -> Review!Round]
  BY <1>2, <1>3, Moved DEF Review!TypeOK
<1> QED
  BY <1>4 DEF Review!TypeOK, Review!SelectReviewed

LEMMA Logged ==
  ASSUME Review!TypeOK, NEW r \in Reviewers, Review!LogPublication(r)
  PROVE  /\ rounds' \in [Reviewers -> Review!Round]
         /\ rounds'[r].phase = "commit" /\ rounds'[r].todo = rounds[r].todo
         /\ \A t \in rounds[r].todo : t \in rounds'[r].logged <=> Review!Publishable(t)
         /\ \A s \in Reviewers : s # r => rounds'[s] = rounds[s]
<1>1. rounds[r] \in Review!Round /\ rounds \in [Reviewers -> Review!Round]
  BY DEF Review!TypeOK
<1>2. PICK found \in SUBSET Products : found = {t \in rounds[r].todo : Review!Publishable(t)}
  BY <1>1 DEF Review!Round
<1>3. PICK next : next = [rounds[r] EXCEPT !.phase = "commit", !.logged = found]
  OBVIOUS
<1>4. rounds' = [rounds EXCEPT ![r] = next]
  BY <1>1, <1>2, <1>3 DEF Review!LogPublication
<1>5. next \in Review!Round /\ next.phase = "commit" /\ next.todo = rounds[r].todo /\ next.logged = found
  BY <1>1, <1>3 DEF Review!Round
<1> QED
  BY <1>1, <1>2, <1>4, <1>5

(* What an update makes of a tool.                                           *)
LEMMA Committed ==
  ASSUME Review!TypeOK, NEW r \in Reviewers, Review!CommitPublication(r)
  PROVE  /\ catalog' \in [Products -> Review!Entry] /\ states' \in [Products -> Review!State]
         /\ changeLog' \subseteq Products /\ changeLog' = changeLog \cup rounds[r].logged
         /\ \A t \in Products : \/ catalog'[t] = catalog[t]
                                \/ t \in Review!Publishes(r) /\ catalog'[t].status = "published"
<1>1. /\ rounds[r] \in Review!Round /\ catalog \in [Products -> Review!Entry]
      /\ states \in [Products -> Review!State] /\ changeLog \subseteq Products
  BY DEF Review!TypeOK
<1>2. ASSUME NEW t \in Products
      PROVE  /\ [catalog[t] EXCEPT !.status = "published"] \in Review!Entry
             /\ [catalog[t] EXCEPT !.status = "published"].status = "published"
             /\ [states[t] EXCEPT !.touched = TRUE] \in Review!State
  <2>1. catalog[t] \in Review!Entry /\ states[t] \in Review!State
    BY <1>1
  <2> QED
    BY <2>1 DEF Review!Entry, Review!State
<1>3. \A t \in Products :
        catalog'[t] = IF t \in Review!Publishes(r) THEN [catalog[t] EXCEPT !.status = "published"]
                      ELSE catalog[t]
  BY DEF Review!CommitPublication
<1>4. catalog' \in [Products -> Review!Entry]
  BY <1>1, <1>2 DEF Review!CommitPublication
<1>5. states' \in [Products -> Review!State]
  BY <1>1, <1>2 DEF Review!CommitPublication
<1>6. changeLog' = changeLog \cup rounds[r].logged /\ rounds[r].logged \subseteq Products
  BY <1>1 DEF Review!CommitPublication, Review!Round
<1> QED
  BY <1>1, <1>2, <1>3, <1>4, <1>5, <1>6

LEMMA CommitTyped ==
  ASSUME Review!TypeOK, NEW r \in Reviewers, Review!CommitPublication(r)
  PROVE  Review!TypeOK'
<1>1. rounds' \in [Reviewers -> Review!Round] /\ UNCHANGED evaluations
  BY Moved DEF Review!CommitPublication
<1> QED
  BY <1>1, Committed DEF Review!TypeOK

-----------------------------------------------------------------------------
(* Evaluations.                                                              *)
LEMMA Evaluating ==
  ASSUME Review!TypeOK, NEW r \in Reviewers, NEW tools \in SUBSET Products, Review!Evaluates(r, tools)
  PROVE  /\ evaluations' \subseteq Review!Evaluation
         /\ \A v \in evaluations' : v \in evaluations \/ v.runner = r
<1>1. \A t \in tools : [runner |-> r, tool |-> t, step |-> "read", blocking |-> {}] \in Review!Evaluation
  BY DEF Review!Evaluation
<1> QED
  BY <1>1 DEF Review!Evaluates, Review!TypeOK

LEMMA EvaluatingTyped ==
  ASSUME Review!TypeOK, NEW r \in Reviewers, Review!EvaluateClaimed(r) \/ Review!ReconcileActiveTools(r)
  PROVE  Review!TypeOK'
<1>1. PICK tools \in SUBSET Products : Review!Evaluates(r, tools)
  BY DEF Review!EvaluateClaimed, Review!ReconcileActiveTools
<1>2. rounds' \in [Reviewers -> Review!Round] /\ UNCHANGED <<catalog, states, changeLog>>
  BY Moved DEF Review!EvaluateClaimed, Review!ReconcileActiveTools
<1> QED
  BY <1>1, <1>2, Evaluating DEF Review!TypeOK

LEMMA Became ==
  ASSUME Review!TypeOK, NEW v \in evaluations, NEW next \in SUBSET Review!Evaluation, Review!Becomes(v, next),
         \A w \in next : w.runner = v.runner
  PROVE  /\ evaluations' \subseteq Review!Evaluation
         /\ \A w \in evaluations' : \E o \in evaluations : o.runner = w.runner
BY DEF Review!Becomes, Review!TypeOK

LEMMA Evaluated ==
  ASSUME Review!TypeOK, NEW v \in evaluations, Review!Evaluate(v)
  PROVE  /\ Review!TypeOK' /\ UNCHANGED <<changeLog, rounds>>
         /\ \A w \in evaluations' : \E o \in evaluations : o.runner = w.runner
         /\ \A t \in Products : catalog'[t] = catalog[t] \/ catalog[t].status # "published"
         /\ \A t \in Products : catalog'[t].status = "published" => catalog[t].status = "published"
<1>1. /\ v \in Review!Evaluation /\ v.tool \in Products /\ v.runner \in Reviewers
      /\ catalog \in [Products -> Review!Entry] /\ states \in [Products -> Review!State]
  BY DEF Review!TypeOK, Review!Evaluation
<1>2. CASE Review!ReadReadiness(v)
  <2>1. PICK blocking \in SUBSET Review!Blockers : blocking = Review!Blocking(v.tool)
    BY DEF Review!Blocking
  <2>2. PICK next : next = [v EXCEPT !.step = "write", !.blocking = blocking]
    OBVIOUS
  <2>3. next \in Review!Evaluation /\ next.runner = v.runner
    BY <1>1, <2>2 DEF Review!Evaluation
  <2>4. Review!Becomes(v, {next}) /\ UNCHANGED <<catalog, states, changeLog, rounds>>
    BY <1>2, <2>1, <2>2 DEF Review!ReadReadiness
  <2> QED
    BY <2>3, <2>4, Became DEF Review!TypeOK
<1>3. CASE Review!WriteReadiness(v)
  <2>1. PICK next \in SUBSET Review!Evaluation : /\ Review!Becomes(v, next)
                                                 /\ \A w \in next : w.runner = v.runner
    <3>1. PICK promote : promote = [v EXCEPT !.step = "promote"]
      OBVIOUS
    <3>2. promote \in Review!Evaluation /\ promote.runner = v.runner
      BY <1>1, <3>1 DEF Review!Evaluation
    <3>3. Review!Becomes(v, {promote}) \/ Review!Becomes(v, {})
      BY <1>3, <3>1, Zenon DEF Review!WriteReadiness
    <3> QED
      BY <3>2, <3>3
  <2>2. PICK row : row = [readiness |-> IF v.blocking = {} THEN "ready" ELSE "blocked",
                          blocking |-> v.blocking, touched |-> FALSE]
    OBVIOUS
  <2>3. row \in Review!State
    BY <1>1, <2>2 DEF Review!State, Review!Evaluation
  <2>4. states' = [states EXCEPT ![v.tool] = row] /\ UNCHANGED <<catalog, changeLog, rounds>>
    BY <1>3, <2>2 DEF Review!WriteReadiness
  <2> QED
    BY <1>1, <2>1, <2>3, <2>4, Became DEF Review!TypeOK
<1>4. CASE Review!Promote(v)
  <2>1. PICK row : row = [catalog[v.tool] EXCEPT !.status = Review!Promoted(@)]
    OBVIOUS
  <2>2. catalog[v.tool] \in Review!Entry
    BY <1>1
  <2>3. PICK status : status = Review!Promoted(catalog[v.tool].status)
    OBVIOUS
  <2>4. /\ status \in {"pending_review", "published"}
        /\ (status = "published") <=> (catalog[v.tool].status = "published")
    BY <2>2, <2>3 DEF Review!Promoted, Review!Entry
  <2>5. row = [catalog[v.tool] EXCEPT !.status = status]
    BY <2>1, <2>3
  <2>6. /\ row \in Review!Entry
        /\ (row.status = "published") <=> (catalog[v.tool].status = "published")
        /\ catalog[v.tool].status = "published" => row = catalog[v.tool]
    BY <2>2, <2>4, <2>5 DEF Review!Entry
  <2>7. catalog' = [catalog EXCEPT ![v.tool] = row] /\ UNCHANGED <<states, changeLog, rounds>>
    BY <1>4, <2>1 DEF Review!Promote
  <2>8. Review!Becomes(v, {})
    BY <1>4 DEF Review!Promote
  <2>9. /\ evaluations' \subseteq Review!Evaluation
        /\ \A w \in evaluations' : \E o \in evaluations : o.runner = w.runner
    BY <2>8, Became
  <2>10. \A t \in Products : catalog'[t] = catalog[t] \/ (t = v.tool /\ catalog'[t] = row)
    BY <1>1, <2>6, <2>7
  <2>11. catalog' \in [Products -> Review!Entry]
    BY <1>1, <2>6, <2>7
  <2>12. Review!TypeOK'
    BY <2>7, <2>9, <2>11 DEF Review!TypeOK
  <2> QED
    BY <2>6, <2>7, <2>9, <2>10, <2>12
<1> QED
  BY <1>2, <1>3, <1>4 DEF Review!Evaluate

LEMMA EvaluationRaised ==
  ASSUME Review!TypeOK, NEW v \in evaluations, Review!EvaluationRaises(v)
  PROVE  Review!TypeOK' /\ UNCHANGED <<catalog, states, changeLog>>
<1>1. Review!Becomes(v, {}) /\ rounds' = [rounds EXCEPT ![v.runner] = Review!Resting]
  BY DEF Review!EvaluationRaises
<1>2. evaluations' \subseteq Review!Evaluation
  BY <1>1 DEF Review!Becomes, Review!TypeOK
<1>3. rounds' \in [Reviewers -> Review!Round]
  BY <1>1, Rested
<1> QED
  BY <1>2, <1>3 DEF Review!EvaluationRaises, Review!TypeOK

LEMMA ReviewerStops ==
  ASSUME Review!TypeOK, NEW r \in Reviewers,
         Review!Crash(r) \/ Review!PublicationRaises(r) \/ Review!EndRound(r)
  PROVE  /\ Review!TypeOK' /\ UNCHANGED <<catalog, states, changeLog>>
         /\ rounds'[r].phase \in {"idle", "work"}
         /\ \A s \in Reviewers : s # r => rounds'[s] = rounds[s]
         /\ evaluations' \subseteq evaluations
         /\ (\A w \in evaluations' : w.runner # r) \/ rounds[r].phase \in {"log", "commit"}
<1>1. CASE Review!Crash(r)
  <2>1. /\ rounds' \in [Reviewers -> Review!Round] /\ rounds'[r].phase = "idle"
        /\ \A s \in Reviewers : s # r => rounds'[s] = rounds[s]
    BY <1>1, Rested DEF Review!Crash
  <2>2. evaluations' = evaluations \ Review!EvaluationsOf(r) /\ UNCHANGED <<catalog, states, changeLog>>
    BY <1>1 DEF Review!Crash
  <2>3. evaluations' \subseteq evaluations /\ \A w \in evaluations' : w.runner # r
    BY <2>2 DEF Review!EvaluationsOf
  <2>4. Review!TypeOK'
    BY <2>1, <2>2, <2>3 DEF Review!TypeOK
  <2> QED
    BY <2>1, <2>2, <2>3, <2>4
<1>2. CASE Review!PublicationRaises(r)
  BY <1>2, Moved DEF Review!PublicationRaises, Review!TypeOK
<1>3. CASE Review!EndRound(r)
  <2>1. /\ rounds' \in [Reviewers -> Review!Round] /\ rounds'[r].phase = "idle"
        /\ \A s \in Reviewers : s # r => rounds'[s] = rounds[s]
    BY <1>3, Moved DEF Review!EndRound
  <2>2. UNCHANGED <<catalog, states, changeLog, evaluations>> /\ Review!EvaluationsOf(r) = {}
    BY <1>3 DEF Review!EndRound
  <2>3. \A w \in evaluations' : w.runner # r
    BY <2>2 DEF Review!EvaluationsOf
  <2>4. Review!TypeOK'
    BY <2>1, <2>2 DEF Review!TypeOK
  <2> QED
    BY <2>1, <2>2, <2>3, <2>4
<1> QED
  BY <1>1, <1>2, <1>3

LEMMA OthersChange ==
  ASSUME ReviewBounded, Review!TypeOK, NEW t \in Products, NEW change \in Changes, Review!Change(t, change)
  PROVE  /\ Review!TypeOK' /\ UNCHANGED <<changeLog, rounds, evaluations>>
         /\ \A o \in Products : /\ catalog'[o].status = catalog[o].status
                                /\ states'[o].readiness = states[o].readiness
                                /\ catalog[o].safe => catalog'[o].safe
                                /\ catalog[o].named => catalog'[o].named
<1>1. PICK row : row = Review!Changed(t, change)
  OBVIOUS
<1>2. /\ row \in Review!Entry /\ row.status = catalog[t].status
      /\ catalog[t].safe => row.safe
      /\ catalog[t].named => row.named
  BY <1>1, ChangedTyped
<1>3. catalog' = [catalog EXCEPT ![t] = row] /\ catalog \in [Products -> Review!Entry]
  BY <1>1 DEF Review!Change, Review!TypeOK
<1>4. PICK state : state = [states[t] EXCEPT !.touched = TRUE]
  OBVIOUS
<1>5. states[t] \in Review!State /\ states \in [Products -> Review!State]
  BY DEF Review!TypeOK
<1>6. state \in Review!State /\ state.readiness = states[t].readiness
  BY <1>4, <1>5 DEF Review!State
<1>7. states' = states \/ states' = [states EXCEPT ![t] = state]
  BY <1>4, Zenon DEF Review!Change
<1>8. catalog' \in [Products -> Review!Entry] /\ states' \in [Products -> Review!State]
  BY <1>2, <1>3, <1>5, <1>6, <1>7
<1>9. UNCHANGED <<changeLog, rounds, evaluations>>
  BY DEF Review!Change
<1>10. ASSUME NEW o \in Products
       PROVE  /\ catalog'[o].status = catalog[o].status
              /\ states'[o].readiness = states[o].readiness
              /\ catalog[o].safe => catalog'[o].safe
              /\ catalog[o].named => catalog'[o].named
  <2>1. catalog'[o] = catalog[o] \/ (o = t /\ catalog'[o] = row)
    BY <1>2, <1>3
  <2>2. states'[o] = states[o] \/ (o = t /\ states'[o] = state)
    BY <1>5, <1>6, <1>7
  <2> QED
    BY <1>2, <1>6, <2>1, <2>2
<1>11. Review!TypeOK'
  BY <1>8, <1>9 DEF Review!TypeOK
<1> QED
  BY <1>9, <1>10, <1>11

LEMMA ReviewInductive ==
  ASSUME ReviewBounded, Review!TypeOK, [Review!ReviewNext]_(Review!reviewVars)
  PROVE  Review!TypeOK'
<1>1. ASSUME NEW r \in Reviewers, Review!Step(r) \/ Review!PublicationRaises(r) \/ Review!Crash(r)
      PROVE  Review!TypeOK'
  <2>1. CASE Review!LogPublication(r)
    BY <2>1, Logged DEF Review!LogPublication, Review!TypeOK
  <2> QED
    BY <1>1, <2>1, SelectTyped, CommitTyped, EvaluatingTyped, ReviewerStops DEF Review!Step
<1>2. ASSUME NEW v \in evaluations, Review!Evaluate(v) \/ Review!EvaluationRaises(v)
      PROVE  Review!TypeOK'
  BY <1>2, Evaluated, EvaluationRaised
<1>3. ASSUME NEW t \in Products, NEW change \in Changes, Review!Change(t, change)
      PROVE  Review!TypeOK'
  BY <1>3, OthersChange
<1>4. CASE UNCHANGED Review!reviewVars
  BY <1>4 DEF Review!reviewVars, Review!TypeOK
<1> QED
  BY <1>1, <1>2, <1>3, <1>4 DEF Review!ReviewNext

(* Tools, their states, the rounds and the evaluations are well typed: an    *)
(* entry is of a tool of the catalog, and a decision blocks by what it read. *)
THEOREM ReviewTyped ==
  ASSUME ReviewBounded
  PROVE  Review!ReviewSpec => []Review!TypeOK
<1>1. Review!TypeOK /\ [Review!ReviewNext]_(Review!reviewVars) => Review!TypeOK'
  BY ReviewInductive
<1> QED
  BY <1>1, ReviewBegins, PTL DEF Review!ReviewSpec

-----------------------------------------------------------------------------
(* What a step does to the published tools: an update publishes what it      *)
(* finds publishable, and nothing else changes them.                         *)
LEMMA PublishedChange ==
  ASSUME ReviewBounded, Review!TypeOK, Review!ReviewNext, NEW t \in Products
  PROVE  /\ catalog[t].status = "published" => catalog'[t].status = "published"
         /\ t \in changeLog => t \in changeLog'
         /\ catalog'[t].status = "published" =>
              \/ catalog[t].status = "published"
              \/ \E r \in Reviewers : Review!CommitPublication(r) /\ t \in Review!Publishes(r)
<1>1. ASSUME NEW r \in Reviewers, Review!Step(r) \/ Review!PublicationRaises(r) \/ Review!Crash(r)
      PROVE  \/ UNCHANGED <<catalog, changeLog>>
             \/ /\ Review!CommitPublication(r) /\ changeLog \subseteq changeLog'
                /\ \/ catalog'[t] = catalog[t]
                   \/ t \in Review!Publishes(r) /\ catalog'[t].status = "published"
  <2>1. CASE Review!CommitPublication(r)
    BY <2>1, Committed
  <2> QED
    BY <1>1, <2>1, ReviewerStops DEF Review!Step, Review!SelectReviewed, Review!LogPublication,
         Review!EvaluateClaimed, Review!ReconcileActiveTools
<1>2. ASSUME NEW v \in evaluations, Review!Evaluate(v) \/ Review!EvaluationRaises(v)
      PROVE  /\ UNCHANGED changeLog
             /\ \/ catalog'[t] = catalog[t]
                \/ catalog[t].status # "published" /\ catalog'[t].status # "published"
  <2>1. Review!Evaluate(v) => /\ UNCHANGED changeLog
                              /\ catalog'[t] = catalog[t] \/ catalog[t].status # "published"
                              /\ catalog'[t].status = "published" => catalog[t].status = "published"
    BY Evaluated
  <2>2. Review!EvaluationRaises(v) => UNCHANGED <<catalog, changeLog>>
    BY EvaluationRaised
  <2>3. CASE Review!Evaluate(v)
    BY <2>1, <2>3
  <2>4. CASE Review!EvaluationRaises(v)
    <3>1. catalog' = catalog /\ changeLog' = changeLog
      BY <2>2, <2>4
    <3> QED
      BY <3>1
  <2> QED
    BY <1>2, <2>3, <2>4
<1>3. ASSUME NEW o \in Products, NEW change \in Changes, Review!Change(o, change)
      PROVE  UNCHANGED changeLog /\ catalog'[t].status = catalog[t].status
  BY <1>3, OthersChange
<1> QED
  BY <1>1, <1>2, <1>3 DEF Review!ReviewNext

(* A published tool stays published: neither an evaluation that read the     *)
(* tool before, nor a publication under way, nor another writer sends it     *)
(* back (evaluate_tool, publish_ready).                                      *)
THEOREM PublicationsStay ==
  ASSUME ReviewBounded
  PROVE  Review!ReviewSpec => Review!StaysPublished
<1> DEFINE Stay == \A t \in Products : catalog[t].status = "published" => catalog'[t].status = "published"
<1>1. Review!TypeOK /\ [Review!ReviewNext]_(Review!reviewVars) => [Stay]_catalog
  BY PublishedChange DEF Review!reviewVars
<1> QED
  BY <1>1, ReviewTyped, PTL DEF Review!ReviewSpec, Review!StaysPublished

-----------------------------------------------------------------------------
(* The promise of one worker.                                                *)

(* Between the selection of a tool and the update nobody accepts a category  *)
(* for it again (upsert_assignment: an UPDATE, then an INSERT), and nobody   *)
(* releases it.                                                              *)
Undisturbed ==
  \A r \in Reviewers : rounds[r].phase \in {"log", "commit"} =>
    \A t \in rounds[r].todo :
      /\ catalog'[t].accepted => catalog[t].accepted
      /\ catalog[t].held => catalog'[t].held

(* What the selection found stays safe, named and ready, and what the entry  *)
(* leaves out has no accepted category, is held, or has another status.      *)
Selected(r) ==
  /\ rounds[r].phase \in {"log", "commit"} =>
       \A t \in rounds[r].todo : catalog[t].safe /\ catalog[t].named /\ states[t].readiness = "ready"
  /\ rounds[r].phase = "commit" => \A t \in rounds[r].todo : t \in rounds[r].logged \/ ~Review!Publishable(t)

LogInv == /\ Review!TypeOK /\ Review!PublishedIsLogged
          /\ \A r \in Reviewers : Selected(r)

(* Steps that leave what the selection looked at.                            *)
LEMMA SelectedStays ==
  ASSUME Review!TypeOK, NEW r \in Reviewers, Selected(r), rounds'[r] = rounds[r], Undisturbed,
         \A t \in Products : /\ catalog'[t].status = catalog[t].status
                             /\ states'[t].readiness = states[t].readiness
                             /\ catalog[t].safe => catalog'[t].safe
                             /\ catalog[t].named => catalog'[t].named
  PROVE  Selected(r)'
<1>1. rounds[r].todo \subseteq Products
  BY DEF Review!TypeOK, Review!Round
<1>2. ASSUME NEW t \in rounds[r].todo, rounds[r].phase \in {"log", "commit"}
      PROVE  catalog'[t].safe /\ catalog'[t].named /\ states'[t].readiness = "ready"
  BY <1>1, <1>2 DEF Selected
<1>3. ASSUME NEW t \in rounds[r].todo, rounds[r].phase = "commit", t \notin rounds[r].logged
      PROVE  ~Review!Publishable(t)'
  <2>1. ~Review!Publishable(t) /\ catalog[t].safe /\ catalog[t].named /\ states[t].readiness = "ready"
    BY <1>3 DEF Selected
  <2>2. rounds[r].phase \in {"log", "commit"}
    BY <1>3
  <2>3. (catalog'[t].accepted => catalog[t].accepted) /\ (catalog[t].held => catalog'[t].held)
    BY <2>2, Zenon DEF Undisturbed
  <2>4. catalog'[t].status = catalog[t].status
    BY <1>1
  <2> QED
    BY <2>1, <2>3, <2>4 DEF Review!Publishable, Review!Ready
<1> QED
  BY <1>2, <1>3 DEF Selected

LEMMA SelectedByAction ==
  ASSUME OneReviewer, LogInv, NEW r \in Reviewers,
         Review!Step(r) \/ Review!PublicationRaises(r) \/ Review!Crash(r)
  PROVE  \A s \in Reviewers : Selected(s)'
<1>1. Review!TypeOK /\ \A s \in Reviewers : s = r
  BY DEF LogInv, OneReviewer
<1>2. CASE Review!SelectReviewed(r)
  <2>1. PICK found \in SUBSET Products : found = {t \in Products : Review!Publishable(t)}
    OBVIOUS
  <2>2. /\ \/ Review!Goto(r, "work")
           \/ rounds' = [rounds EXCEPT ![r] = [phase |-> "log", todo |-> found, logged |-> {}]]
        /\ UNCHANGED <<catalog, states>>
    BY <1>2, <2>1, Zenon DEF Review!SelectReviewed
  <2>3. rounds'[r].phase = "work" \/ (rounds'[r].phase = "log" /\ rounds'[r].todo = found)
    <3>1. CASE Review!Goto(r, "work")
      BY <1>1, <3>1, Moved
    <3>2. CASE rounds' = [rounds EXCEPT ![r] = [phase |-> "log", todo |-> found, logged |-> {}]]
      BY <1>1, <3>2 DEF Review!TypeOK
    <3> QED
      BY <2>2, <3>1, <3>2
  <2>4. \A t \in found : catalog[t].safe /\ catalog[t].named /\ states[t].readiness = "ready"
    BY <2>1 DEF Review!Publishable, Review!Ready
  <2>5. \A t \in found : catalog'[t].safe /\ catalog'[t].named /\ states'[t].readiness = "ready"
    BY <2>2, <2>4
  <2> QED
    BY <1>1, <2>3, <2>5 DEF Selected
<1>3. CASE Review!LogPublication(r)
  <2>1. /\ rounds'[r].phase = "commit" /\ rounds'[r].todo = rounds[r].todo
        /\ \A t \in rounds[r].todo : t \in rounds'[r].logged <=> Review!Publishable(t)
    BY <1>1, <1>3, Logged
  <2>2. rounds[r].phase = "log" /\ UNCHANGED <<catalog, states>>
    BY <1>3 DEF Review!LogPublication
  <2>3. \A t \in rounds[r].todo : catalog[t].safe /\ catalog[t].named /\ states[t].readiness = "ready"
    BY <2>2 DEF LogInv, Selected
  <2>4. \A t \in rounds[r].todo : t \in rounds'[r].logged \/ ~Review!Publishable(t)'
    BY <2>1, <2>2 DEF Review!Publishable, Review!Ready
  <2>5. \A t \in rounds[r].todo : catalog'[t].safe /\ catalog'[t].named /\ states'[t].readiness = "ready"
    BY <2>2, <2>3
  <2> QED
    BY <1>1, <2>1, <2>2, <2>4, <2>5 DEF Selected
<1>4. CASE \/ Review!CommitPublication(r) \/ Review!EvaluateClaimed(r) \/ Review!ReconcileActiveTools(r)
           \/ Review!EndRound(r) \/ Review!PublicationRaises(r) \/ Review!Crash(r)
  <2>1. rounds'[r].phase \in {"idle", "work", "reconcile", "reconciling"}
    BY <1>1, <1>4, Moved, ReviewerStops DEF Review!CommitPublication, Review!EvaluateClaimed,
         Review!ReconcileActiveTools
  <2> QED
    BY <1>1, <2>1 DEF Selected
<1> QED
  BY <1>2, <1>3, <1>4 DEF Review!Step

LEMMA LogInductive ==
  ASSUME ReviewBounded, OneReviewer, LogInv, EvaluationsEnd, [Undisturbed]_(Review!reviewVars),
         [Review!ReviewNext]_(Review!reviewVars)
  PROVE  LogInv'
<1>1. Review!TypeOK /\ Review!TypeOK'
  BY ReviewInductive DEF LogInv
<1>2. CASE UNCHANGED Review!reviewVars
  BY <1>2 DEF Review!reviewVars, LogInv, Review!TypeOK, Review!PublishedIsLogged, Selected,
       Review!Publishable, Review!Ready
<1>3. CASE Review!ReviewNext /\ Undisturbed
  <2>1. ASSUME NEW t \in Products, catalog'[t].status = "published"
        PROVE  t \in changeLog'
    <3>1. CASE catalog[t].status = "published"
      BY <1>1, <1>3, <3>1, PublishedChange DEF LogInv, Review!PublishedIsLogged
    <3>2. CASE catalog[t].status # "published"
      <4>1. PICK r \in Reviewers : Review!CommitPublication(r) /\ t \in Review!Publishes(r)
        BY <1>1, <1>3, <2>1, <3>2, PublishedChange
      <4>2. rounds[r].phase = "commit" /\ t \in rounds[r].todo /\ Review!Publishable(t)
        BY <4>1 DEF Review!CommitPublication, Review!Publishes
      <4>3. t \in rounds[r].logged
        BY <4>2 DEF LogInv, Selected
      <4> QED
        BY <1>1, <4>1, <4>3, Committed
    <3> QED
      BY <3>1, <3>2
  <2>2. ASSUME NEW r \in Reviewers
        PROVE  Selected(r)'
    <3>1. ASSUME NEW s \in Reviewers, Review!Step(s) \/ Review!PublicationRaises(s) \/ Review!Crash(s)
          PROVE  Selected(r)'
      BY <3>1, SelectedByAction
    <3>2. ASSUME NEW v \in evaluations, Review!Evaluate(v) \/ Review!EvaluationRaises(v)
          PROVE  Selected(r)'
      <4>1. v.runner \in Reviewers
        BY <1>1 DEF Review!TypeOK, Review!Evaluation
      <4>2. v \in Review!EvaluationsOf(r)
        BY <4>1 DEF OneReviewer, Review!EvaluationsOf
      <4>3. rounds[r].phase \in {"reconcile", "reconciling"}
        BY <4>2 DEF EvaluationsEnd
      <4>4. rounds'[r].phase \notin {"log", "commit"}
        <5>1. CASE Review!Evaluate(v)
          BY <1>1, <4>3, <5>1, Evaluated
        <5>2. CASE Review!EvaluationRaises(v)
          BY <1>1, <4>3, <5>2, Rested DEF Review!EvaluationRaises
        <5> QED
          BY <3>2, <5>1, <5>2
      <4> QED
        BY <4>4 DEF Selected
    <3>3. ASSUME NEW t \in Products, NEW change \in Changes, Review!Change(t, change)
          PROVE  Selected(r)'
      BY <1>1, <1>3, <3>3, OthersChange, SelectedStays DEF LogInv
    <3> QED
      BY <1>3, <3>1, <3>2, <3>3 DEF Review!ReviewNext
  <2> QED
    BY <1>1, <2>1, <2>2 DEF LogInv, Review!PublishedIsLogged
<1> QED
  BY <1>2, <1>3

(* tool_change_log reports every publication of the one worker, wherever it  *)
(* stops, but for two causes: an evaluation that outlives its batch, and a   *)
(* tool that is accepted or released again between the statements of         *)
(* publish_ready, which evaluate the predicate each for itself (README,      *)
(* "Each successful transition writes a ... tool_change_log entry").         *)
THEOREM PublicationsAreLogged ==
  ASSUME ReviewBounded, OneReviewer
  PROVE  Review!ReviewSpec /\ []EvaluationsEnd /\ [][Undisturbed]_(Review!reviewVars)
           => []Review!PublishedIsLogged
<1>1. Review!Init => LogInv
  BY ReviewBegins DEF Review!Init, LogInv, Review!PublishedIsLogged, Selected, Review!Resting
<1>2. LogInv /\ EvaluationsEnd /\ [Undisturbed]_(Review!reviewVars)
        /\ [Review!ReviewNext]_(Review!reviewVars) => LogInv'
  BY LogInductive
<1>3. LogInv => Review!PublishedIsLogged
  BY DEF LogInv
<1> QED
  BY <1>1, <1>2, <1>3, PTL DEF Review!ReviewSpec

(* Where no statement raises there is no such evaluation: a batch waits for  *)
(* its evaluations, and a process that stops takes its own along.            *)
LEMMA EndsInductive ==
  ASSUME ReviewBounded, "error" \notin Failures, Review!TypeOK, EvaluationsEnd,
         [Review!ReviewNext]_(Review!reviewVars)
  PROVE  EvaluationsEnd'
<1> SUFFICES ASSUME NEW s \in Reviewers, rounds'[s].phase \notin {"reconcile", "reconciling"},
                    NEW w \in evaluations', w.runner = s
             PROVE  FALSE
  BY DEF EvaluationsEnd, Review!EvaluationsOf
<1>1. rounds[s].phase \notin {"reconcile", "reconciling"} => \A v \in evaluations : v.runner # s
  BY DEF EvaluationsEnd, Review!EvaluationsOf
<1>2. ASSUME NEW r \in Reviewers, Review!Step(r) \/ Review!PublicationRaises(r) \/ Review!Crash(r)
      PROVE  FALSE
  <2>1. CASE Review!EvaluateClaimed(r) \/ Review!ReconcileActiveTools(r)
    <3>1. PICK tools \in SUBSET Products : Review!Evaluates(r, tools)
      BY <2>1 DEF Review!EvaluateClaimed, Review!ReconcileActiveTools
    <3>2. /\ rounds'[r].phase \in {"reconcile", "reconciling"}
          /\ \A o \in Reviewers : o # r => rounds'[o] = rounds[o]
      BY <2>1, Moved DEF Review!EvaluateClaimed, Review!ReconcileActiveTools
    <3>3. w \in evaluations \/ w.runner = r
      BY <3>1, Evaluating
    <3> QED
      BY <1>1, <3>2, <3>3
  <2>2. CASE Review!Crash(r) \/ Review!PublicationRaises(r) \/ Review!EndRound(r)
    <3>1. /\ \A o \in Reviewers : o # r => rounds'[o] = rounds[o]
          /\ evaluations' \subseteq evaluations
          /\ (\A v \in evaluations' : v.runner # r) \/ rounds[r].phase \in {"log", "commit"}
      BY <2>2, ReviewerStops
    <3> QED
      BY <1>1, <3>1
  <2>3. CASE Review!SelectReviewed(r) \/ Review!LogPublication(r) \/ Review!CommitPublication(r)
    <3>1. rounds[r].phase \in {"idle", "log", "commit"} /\ evaluations' = evaluations
      BY <2>3 DEF Review!SelectReviewed, Review!LogPublication, Review!CommitPublication
    <3>2. \A o \in Reviewers : o # r => rounds'[o] = rounds[o]
      <4>1. CASE Review!SelectReviewed(r)
        BY <4>1, Zenon DEF Review!SelectReviewed, Review!Goto, Review!TypeOK
      <4> QED
        BY <2>3, <4>1, Logged, Moved DEF Review!CommitPublication
    <3> QED
      BY <1>1, <3>1, <3>2
  <2> QED
    BY <1>2, <2>1, <2>2, <2>3 DEF Review!Step
<1>3. ASSUME NEW v \in evaluations, Review!Evaluate(v)
      PROVE  FALSE
  BY <1>1, <1>3, Evaluated
<1>4. ASSUME NEW t \in Products, NEW change \in Changes, Review!Change(t, change)
      PROVE  FALSE
  BY <1>1, <1>4 DEF Review!Change
<1>5. CASE UNCHANGED Review!reviewVars
  BY <1>1, <1>5 DEF Review!reviewVars
<1> QED
  BY <1>2, <1>3, <1>4, <1>5 DEF Review!ReviewNext, Review!EvaluationRaises

(* A batch begins when the evaluations of the one before have ended, for any *)
(* number of processes and wherever they stop, where no statement raises     *)
(* (evaluate_tools).                                                         *)
THEOREM BatchesAwaitEvaluations ==
  ASSUME ReviewBounded, "error" \notin Failures
  PROVE  Review!ReviewSpec => []EvaluationsEnd
<1>1. Review!Init => EvaluationsEnd
  BY DEF Review!Init, EvaluationsEnd, Review!EvaluationsOf
<1>2. Review!TypeOK /\ EvaluationsEnd /\ [Review!ReviewNext]_(Review!reviewVars) => EvaluationsEnd'
  BY EndsInductive
<1> QED
  BY <1>1, <1>2, ReviewTyped, PTL DEF Review!ReviewSpec
=============================================================================
