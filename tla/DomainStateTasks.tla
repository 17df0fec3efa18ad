-------------------------- MODULE DomainStateTasks --------------------------
(***************************************************************************)
(* The domain facts workload (src/workloads/domain_state): a fenced task   *)
(* ledger whose executions rate a domain again and again, but observe its  *)
(* registration (RDAP) once.  Runners share the tables and nothing else.   *)
(* Every statement, and every batch, is one step.                          *)
(***************************************************************************)
EXTENDS Naturals, FiniteSets

CONSTANTS
  Domains,        \* domains of tools in the catalog
  Runners,        \* processes that run the workload
  Limit,          \* domain_state_limit
  MaxAttempts,    \* max_attempts of a task
  MaxGeneration,  \* bound: generations of a task
  Faults          \* a subset of {"error", "crash"}

VARIABLES
  facts,       \* domain_states: age of the rating, outcome of RDAP
  dtasks,      \* domain_state_tasks
  drunners,    \* per runner: its phase and the tasks it has claimed so far
  dexecs,      \* tasks in work
  credential   \* AHREF_API_KEY is configured

vars == <<facts, dtasks, drunners, dexecs, credential>>

---------------------------------------------------------------------------
Statuses == {"absent", "queued", "processing", "done", "no_data", "failed"}

(* error is "credential" for the text the requeue looks for.  The token of a
   lease is random; generation and attempt tell the claims apart, so the
   attempt stands for it, 0 for NULL. *)
Task == [status : Statuses, attempts : 0..MaxAttempts, generation : 0..MaxGeneration,
         retry : {"ahead", "due"}, dead : BOOLEAN, error : {"none", "credential", "other"},
         lease : {"none", "held", "expired"}, token : 0..MaxAttempts,
         rate : BOOLEAN, rdap : BOOLEAN]

Fact == [rating : {"never", "fresh", "stale"}, rdap : {"none", "observed", "failed"}]

Result == [status : {"done", "no_data", "failed", "credential"},
           rdap : {"none", "observed", "failed"}]

Execution == [runner : Runners, domain : Domains, generation : 1..MaxGeneration,
              token : 1..MaxAttempts, rate : BOOLEAN, rdap : BOOLEAN,
              phase : {"fetching", "completing", "handling"}, result : Result]

Phases == {"idle", "requeue", "claim", "discover", "claimAgain", "work"}

TypeOK == /\ facts \in [Domains -> Fact]
          /\ dtasks \in [Domains -> Task]
          /\ drunners \in [Runners -> Phases]
          /\ dexecs \subseteq Execution
          /\ credential \in BOOLEAN

NoTask == [status |-> "absent", attempts |-> 0, generation |-> 0, retry |-> "due",
           dead |-> FALSE, error |-> "none", lease |-> "none", token |-> 0,
           rate |-> FALSE, rdap |-> FALSE]

Failure == [status |-> "failed", rdap |-> "none"]

Init == /\ facts = [d \in Domains |-> [rating |-> "never", rdap |-> "none"]]
        /\ dtasks = [d \in Domains |-> NoTask]
        /\ drunners = [r \in Runners |-> "idle"]
        /\ dexecs = {}
        /\ credential = FALSE

---------------------------------------------------------------------------
(* One batch of a runner. *)

Goto(r, phase) == drunners' = [drunners EXCEPT ![r] = phase]
ExecutionsOf(r) == {e \in dexecs : e.runner = r}
Room(r) == Limit - Cardinality(ExecutionsOf(r))

(* The two ways into the queue reset the task and open a generation. *)
Requeued(task) == [task EXCEPT !.status = "queued", !.attempts = 0, !.retry = "due",
                               !.generation = @ + 1, !.dead = FALSE, !.error = "none",
                               !.lease = "none", !.token = 0]

StartBatch(r) ==
  /\ drunners[r] = "idle"
  /\ Goto(r, IF credential THEN "requeue" ELSE "claim")
  /\ UNCHANGED <<facts, dtasks, dexecs, credential>>

(* requeue_missing_credential_tasks *)
LostForCredential(d) ==
  /\ dtasks[d].status = "failed" /\ dtasks[d].attempts >= MaxAttempts
  /\ dtasks[d].dead /\ dtasks[d].error = "credential"
  /\ dtasks[d].generation < MaxGeneration

RequeueMissingCredential(r) ==
  /\ drunners[r] = "requeue"
  /\ dtasks' = [d \in Domains |-> IF LostForCredential(d) THEN Requeued(dtasks[d]) ELSE dtasks[d]]
  /\ Goto(r, "claim")
  /\ UNCHANGED <<facts, dexecs, credential>>

(* claim_due_tasks: one UPDATE over at most Limit rows. *)
Claimable(d) ==
  /\ ~dtasks[d].dead /\ dtasks[d].attempts < MaxAttempts
  /\ \/ dtasks[d].status \in {"queued", "failed"} /\ dtasks[d].retry = "due"
     \/ dtasks[d].status = "processing" /\ dtasks[d].lease = "expired"

Claimed(task) == [task EXCEPT !.status = "processing", !.attempts = @ + 1, !.retry = "due",
                              !.error = "none", !.lease = "held", !.token = task.attempts + 1]

ExecutionOf(r, d) ==
  [runner |-> r, domain |-> d, generation |-> dtasks[d].generation,
   token |-> dtasks[d].attempts + 1, rate |-> dtasks[d].rate, rdap |-> dtasks[d].rdap,
   phase |-> "fetching", result |-> Failure]

(* Discovery is for a batch with room, and not for every one of them. *)
ClaimDueTasks(r) ==
  /\ drunners[r] \in {"claim", "claimAgain"}
  /\ LET due == {d \in Domains : Claimable(d)}
     IN \E some \in SUBSET due :
          /\ Cardinality(some) = IF Cardinality(due) < Room(r) THEN Cardinality(due) ELSE Room(r)
          /\ dtasks' = [d \in Domains |-> IF d \in some THEN Claimed(dtasks[d]) ELSE dtasks[d]]
          /\ dexecs' = dexecs \cup {ExecutionOf(r, d) : d \in some}
          /\ \/ Goto(r, "work")
             \/ /\ drunners[r] = "claim" /\ Cardinality(some) < Room(r)
                /\ Goto(r, "discover")
  /\ UNCHANGED <<facts, credential>>

(* queue_due_tasks: the read of the catalog and the upsert are one statement. *)
Due(d) == /\ dtasks[d].status \in {"absent", "done", "no_data"}
          /\ facts[d].rating # "fresh" \/ facts[d].rdap = "none"
          /\ dtasks[d].generation < MaxGeneration

(* Mutant: the queue asks for RDAP like for the rating. *)
QueuedAsksBoth(d) == [Requeued(dtasks[d]) EXCEPT !.rate = TRUE, !.rdap = TRUE]

QueuedFor(d) == [Requeued(dtasks[d]) EXCEPT !.rate = facts[d].rating # "fresh",
                                            !.rdap = facts[d].rdap = "none"]

QueueDueTasks(r) ==
  /\ drunners[r] = "discover"
  /\ LET due == {d \in Domains : Due(d)}
     IN \E some \in SUBSET due :
          /\ Cardinality(some) = IF Cardinality(due) < Room(r) THEN Cardinality(due) ELSE Room(r)
          /\ dtasks' = [d \in Domains |-> IF d \in some THEN QueuedFor(d) ELSE dtasks[d]]
          /\ Goto(r, IF some = {} THEN "work" ELSE "claimAgain")
  /\ UNCHANGED <<facts, dexecs, credential>>

EndBatch(r) ==
  /\ drunners[r] = "work" /\ ExecutionsOf(r) = {}
  /\ Goto(r, "idle")
  /\ UNCHANGED <<facts, dtasks, dexecs, credential>>

---------------------------------------------------------------------------
(* process_domain_state *)

(* What the fetch attempts of one execution return: the rating decides the
   status, RDAP is asked in the first attempt only and its failure is an
   observation too (DomainStateClient.fetch). *)
Results(e) ==
  {x \in Result :
     /\ x.status \in IF ~e.rate THEN {"done"} ELSE IF credential THEN {"done", "no_data", "failed"}
                     ELSE {"credential"}
     /\ (x.rdap = "none") = ~e.rdap}

At(e, phase) == e.phase = phase /\ drunners[e.runner] = "work"

(* Mutant: the token is not compared. *)
HoldsGeneration(e) ==
  /\ dtasks[e.domain].status = "processing"
  /\ dtasks[e.domain].generation = e.generation

Holds(e) ==
  /\ dtasks[e.domain].status = "processing"
  /\ dtasks[e.domain].generation = e.generation
  /\ dtasks[e.domain].token = e.token

Renew(e) == dtasks' = [dtasks EXCEPT ![e.domain].lease = "held"]

Becomes(e, phase, result) ==
  dexecs' = (dexecs \ {e}) \cup {[e EXCEPT !.phase = phase, !.result = result]}

FetchAndRenew(e) ==
  /\ At(e, "fetching")
  /\ IF Holds(e)
       THEN Renew(e) /\ \E x \in Results(e) : Becomes(e, "completing", x)
       ELSE dexecs' = dexecs \ {e} /\ UNCHANGED dtasks
  /\ UNCHANGED <<facts, drunners, credential>>

(* complete_task: state, history and task in one batch, every statement of
   it under the same fence. *)
Written(e, x) ==
  [rating |-> IF e.rate /\ x.status \in {"done", "no_data"} THEN "fresh" ELSE facts[e.domain].rating,
   rdap |-> IF x.rdap # "none" THEN x.rdap ELSE facts[e.domain].rdap]

(* Mutant: an exhausted task waits for one more retry. *)
SettledNeverDead(e, x) ==
  LET ended == x.status \in {"done", "no_data"}
  IN [dtasks[e.domain] EXCEPT
        !.status = IF ended THEN x.status ELSE "failed", !.retry = IF ended THEN "due" ELSE "ahead",
        !.rdap = IF x.rdap # "none" THEN FALSE ELSE @, !.lease = "none", !.token = 0]

Settled(e, x) ==
  LET ended == x.status \in {"done", "no_data"}
      exhausted == e.token >= MaxAttempts
  IN [dtasks[e.domain] EXCEPT
        !.status = IF ended THEN x.status ELSE "failed",
        !.retry = IF ended \/ exhausted THEN "due" ELSE "ahead",
        !.dead = ~ended /\ exhausted,
        !.error = IF ended THEN "none" ELSE IF x.status = "credential" THEN "credential" ELSE "other",
        !.rdap = IF x.rdap # "none" THEN FALSE ELSE @,
        !.lease = "none", !.token = 0]

Complete(e, x) ==
  IF Holds(e)
    THEN /\ facts' = [facts EXCEPT ![e.domain] = Written(e, x)]
         /\ dtasks' = [dtasks EXCEPT ![e.domain] = Settled(e, x)]
    ELSE UNCHANGED <<facts, dtasks>>

CompleteTask(e) ==
  /\ At(e, "completing") \/ At(e, "handling")
  /\ Complete(e, e.result)
  /\ dexecs' = dexecs \ {e}
  /\ UNCHANGED <<drunners, credential>>

(* The renewal or the completion raises, applied or not: the handler
   completes the task once more, as failed and without an answer of RDAP. *)
WorkRaises(e) ==
  /\ "error" \in Faults
  /\ \/ /\ At(e, "fetching")
        /\ UNCHANGED facts
        /\ UNCHANGED dtasks \/ (Holds(e) /\ Renew(e))
     \/ /\ At(e, "completing")
        /\ UNCHANGED <<facts, dtasks>> \/ Complete(e, e.result)
  /\ Becomes(e, "handling", Failure)
  /\ UNCHANGED <<drunners, credential>>

(* When that completion raises too, it is logged and the task left alone. *)
HandlerRaises(e) ==
  /\ "error" \in Faults
  /\ At(e, "handling")
  /\ UNCHANGED <<facts, dtasks>> \/ Complete(e, e.result)
  /\ dexecs' = dexecs \ {e}
  /\ UNCHANGED <<drunners, credential>>

---------------------------------------------------------------------------
(* The world around the runners. *)

Crash(r) ==
  /\ "crash" \in Faults /\ drunners[r] # "idle"
  /\ Goto(r, "idle")
  /\ dexecs' = dexecs \ ExecutionsOf(r)
  /\ UNCHANGED <<facts, dtasks, credential>>

ConfigureCredential ==
  /\ ~credential
  /\ credential' = TRUE
  /\ UNCHANGED <<facts, dtasks, drunners, dexecs>>

LeaseExpires(d) ==
  /\ dtasks[d].lease = "held"
  /\ dtasks' = [dtasks EXCEPT ![d].lease = "expired"]
  /\ UNCHANGED <<facts, drunners, dexecs, credential>>

RetryFallsDue(d) ==
  /\ dtasks[d].retry = "ahead"
  /\ dtasks' = [dtasks EXCEPT ![d].retry = "due"]
  /\ UNCHANGED <<facts, drunners, dexecs, credential>>

RatingAges(d) ==
  /\ facts[d].rating = "fresh"
  /\ facts' = [facts EXCEPT ![d].rating = "stale"]
  /\ UNCHANGED <<dtasks, drunners, dexecs, credential>>

Step(r) ==
  \/ StartBatch(r) \/ RequeueMissingCredential(r) \/ ClaimDueTasks(r)
  \/ QueueDueTasks(r) \/ EndBatch(r)
Work(e) == FetchAndRenew(e) \/ CompleteTask(e)

Next ==
  \/ \E r \in Runners : Step(r) \/ Crash(r)
  \/ \E e \in dexecs : Work(e) \/ WorkRaises(e) \/ HandlerRaises(e)
  \/ \E d \in Domains : LeaseExpires(d) \/ RetryFallsDue(d) \/ RatingAges(d)
  \/ ConfigureCredential

(* The loop of a runner runs batch after batch, discovers now and then, and
   its requests have timeouts; time passes. *)
Discovers(r) == ClaimDueTasks(r) /\ drunners'[r] = "discover"
Moves == (\E r \in Runners : Step(r)) \/ \E e \in dexecs : Work(e)
Fairness ==
  /\ WF_vars(Moves)
  /\ \A r \in Runners : SF_vars(Discovers(r))
  /\ \A d \in Domains : WF_vars(LeaseExpires(d)) /\ WF_vars(RetryFallsDue(d))
  /\ WF_vars(ConfigureCredential)

Spec == Init /\ [][Next]_vars
FairSpec == Spec /\ Fairness

---------------------------------------------------------------------------
(* "RDAP is a one-time observation" (client.py): whatever came of it first
   is never replaced, through retries, late executions, exceptions that
   complete a task twice and the requeue of dead letters. *)
ObservationKept ==
  \A d \in Domains : facts[d].rdap # "none" => facts'[d].rdap = facts[d].rdap
RdapObservedOnce == [][ObservationKept]_facts

(* A claimed task, and the facts of its domain, change only by the expiry of
   the lease, a claim after that, or a step of the execution that holds the
   lease (renew_lease, complete_task). *)
HolderOnly ==
  \A d \in Domains :
    LET old == dtasks[d]
        new == dtasks'[d]
        holderActs == \E e \in dexecs \ dexecs' : /\ e.domain = d /\ e.token = old.token
                                                  /\ e.generation = old.generation
    IN old.status = "processing" =>
         /\ new # old => \/ new = [old EXCEPT !.lease = "expired"]
                         \/ old.lease = "expired" /\ new = Claimed(old)
                         \/ holderActs
         /\ facts'[d] = facts[d] \/ holderActs \/ facts'[d] = [facts[d] EXCEPT !.rating = "stale"]
OnlyTheHolderWrites == [][HolderOnly]_<<facts, dtasks, dexecs>>

(* Once the key is there, a task does not stay open, nor dead for want of
   the key, unless a process stopped in its last attempt. *)
AtRest(d) ==
  LET task == dtasks[d]
  IN \/ task.status \in {"done", "no_data"}
     \/ task.dead /\ (task.error # "credential" \/ task.generation = MaxGeneration)
     \/ task.status = "processing" /\ task.attempts = MaxAttempts
DomainsComeToRest == <>[](\A d \in Domains : AtRest(d))
=============================================================================
