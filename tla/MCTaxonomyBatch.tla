-------------------------- MODULE MCTaxonomyBatch --------------------------
(***************************************************************************)
(* Small worlds of the taxonomy worker in one run: `part`, chosen in the   *)
(* initial state, selects the constants.  Four of the batch pipeline:      *)
(*                                                                         *)
(*   capture   a tool without a profile; captures fail, the process stops  *)
(*   provider  a stored profile; calls and batches fail in every way       *)
(*   jev       two tools asking for capabilities; the process stops        *)
(*   review    a tool that is reviewed and published between two passes;   *)
(*             the process stops                                           *)
(*                                                                         *)
(* and four of the pass without it, whose variables are the second row:    *)
(*                                                                         *)
(*   repair    a candidate is approved and reclassified, a new tool waits  *)
(*             behind it; statements raise                                 *)
(*   queue     two workers and one request, whose lease expires            *)
(*   backlog   two places in a batch, a tool to label again, profiles      *)
(*             without capabilities; the provider blocks, a process stops  *)
(*   scan      two workers scan two polluted tools page by page, one stops *)
(***************************************************************************)
EXTENDS Naturals

VARIABLES
  part, item, req, job, remote, tool, assign, runs, todo, blocked, faults, crashes,
  polluted, candidates, detector, passes, requests, kinds, profiles, rows, history, work

Markets == {"m1", "m2"}
Capabilities == {"c1"}
ProfileOutputs == {"product", "silent", "nonproduct", "unclear"}
ReviewDuringPass == FALSE

Capture == INSTANCE TaxonomyBatch WITH
  Tools <- {1}, Stored <- {}, Backfill <- {}, Demoted <- {}, Capable <- {}, Upstream <- {1}, JevEnabled <- FALSE,
  MaxAttempts <- 2, SeedLimit <- 1, CaptureOutcomes <- {"ok", "retryable", "permanent"},
  L1Outputs <- {"empty"}, LeafOutputs <- {"m1"}, CapabilityOutputs <- {"c1"},
  LineErrors <- {}, BatchEnds <- {"completed"}, Jobs <- {"j1", "j2"},
  MaxFaults <- 0, MaxCrashes <- 1, Published <- {}, Reviewed <- {}, Judged <- {1}

Provider == INSTANCE TaxonomyBatch WITH
  Tools <- {1}, Stored <- {1}, Backfill <- {}, Demoted <- {}, Capable <- {}, Upstream <- {}, JevEnabled <- FALSE,
  MaxAttempts <- 2, SeedLimit <- 1, CaptureOutcomes <- {"ok"},
  L1Outputs <- {"empty"}, LeafOutputs <- {"weak"}, CapabilityOutputs <- {"c1"},
  LineErrors <- {"retryable", "permanent", "blocked"},
  BatchEnds <- {"completed", "unreadable", "failed"}, Jobs <- {"j1", "j2"},
  MaxFaults <- 1, MaxCrashes <- 0, Published <- {}, Reviewed <- {}, Judged <- {}

Jev == INSTANCE TaxonomyBatch WITH
  Tools <- {1, 2}, Stored <- {}, Backfill <- {1, 2}, Demoted <- {}, Capable <- {1, 2},
  Upstream <- {}, JevEnabled <- TRUE, MaxAttempts <- 2, SeedLimit <- 2, CaptureOutcomes <- {"ok"},
  L1Outputs <- {"clear"}, LeafOutputs <- {"m1"}, CapabilityOutputs <- {"c1", "nothing"},
  LineErrors <- {"retryable"}, BatchEnds <- {"completed"}, Jobs <- {"j1", "j2", "j3"},
  MaxFaults <- 0, MaxCrashes <- 1, Published <- {}, Reviewed <- {}, Judged <- {}

Review == INSTANCE TaxonomyBatch WITH
  Tools <- {1}, Stored <- {1}, Backfill <- {}, Demoted <- {1}, Capable <- {1}, Upstream <- {}, JevEnabled <- FALSE,
  MaxAttempts <- 1, SeedLimit <- 1, CaptureOutcomes <- {"ok"},
  L1Outputs <- {"clear"}, LeafOutputs <- {"m1", "m2"}, CapabilityOutputs <- {"c1"},
  LineErrors <- {}, BatchEnds <- {"completed"}, Jobs <- {"j1", "j2"},
  MaxFaults <- 0, MaxCrashes <- 1, Published <- {1}, Reviewed <- {1}, Judged <- {}

Repair == INSTANCE ShadowClassifier WITH
  assign <- rows, runs <- history,
  Tools <- {1, 2}, Workers <- {"w1"}, PageLimit <- 1, Rescans <- TRUE, Changing <- {},
  Requests <- {1}, Classified <- {1}, Mislabeled <- {}, Published <- {},
  MaxAttempts <- 1, MaxFailures <- 1, BatchLimit <- 1, Concurrency <- 1,
  Outcomes <- {"nonproduct"}, CapabilityAnswers <- {"c1"}, MaxFaults <- 1, MaxCrashes <- 0

Queue == INSTANCE ShadowClassifier WITH
  assign <- rows, runs <- history, Markets <- {"m1"},
  Tools <- {1}, Workers <- {"w1", "w2"}, PageLimit <- 1, Rescans <- FALSE, Changing <- {},
  Requests <- {1}, Classified <- {1}, Mislabeled <- {}, Published <- {},
  MaxAttempts <- 2, MaxFailures <- 1, BatchLimit <- 1, Concurrency <- 1,
  Outcomes <- {"l1_failed"}, CapabilityAnswers <- {"nothing"}, MaxFaults <- 0, MaxCrashes <- 0

Backlog == INSTANCE ShadowClassifier WITH
  assign <- rows, runs <- history, Markets <- {"m1"},
  Tools <- {1, 2}, Workers <- {"w1"}, PageLimit <- 1, Rescans <- FALSE, Changing <- {},
  Requests <- {1}, Classified <- {1}, Mislabeled <- {2}, Published <- {2},
  MaxAttempts <- 1, MaxFailures <- 1, BatchLimit <- 2, Concurrency <- 2,
  Outcomes <- {"blocked"}, CapabilityAnswers <- {"c1", "blocked"}, MaxFaults <- 0, MaxCrashes <- 1

Scan == INSTANCE ShadowClassifier WITH
  assign <- rows, runs <- history,
  Tools <- {1, 2}, Workers <- {"w1", "w2"}, PageLimit <- 1, Rescans <- TRUE, Changing <- {},
  Requests <- {}, Classified <- {1, 2}, Mislabeled <- {}, Published <- {},
  MaxAttempts <- 1, MaxFailures <- 1, BatchLimit <- 1, Concurrency <- 1,
  Outcomes <- {}, CapabilityAnswers <- {}, MaxFaults <- 0, MaxCrashes <- 1

batchVars == <<item, req, job, remote, tool, assign, runs, todo, blocked>>
shadowVars == <<polluted, candidates, detector, passes, requests, kinds, profiles, rows, history, work>>
vars == <<part, batchVars, shadowVars, faults, crashes>>

NoBatch ==
  /\ item = <<>> /\ req = <<>> /\ job = <<>> /\ remote = <<>> /\ tool = <<>>
  /\ assign = <<>> /\ runs = <<>> /\ todo = <<>> /\ blocked = FALSE

NoShadow ==
  /\ polluted = {} /\ candidates = <<>> /\ detector = <<>> /\ passes = <<>> /\ requests = <<>>
  /\ kinds = <<>> /\ profiles = {} /\ rows = <<>> /\ history = <<>> /\ work = <<>>

Init ==
  \/ /\ \/ part = "capture" /\ Capture!Init
        \/ part = "provider" /\ Provider!Init
        \/ part = "jev" /\ Jev!Init
        \/ part = "review" /\ Review!Init
     /\ NoShadow
  \/ /\ \/ part = "repair" /\ Repair!Init
        \/ part = "queue" /\ Queue!Init
        \/ part = "backlog" /\ Backlog!Init
        \/ part = "scan" /\ Scan!Init
     /\ NoBatch

BatchStep(which) == part = which /\ UNCHANGED <<part, shadowVars>>
ShadowStep(which) == part = which /\ UNCHANGED <<part, batchVars>>

CaptureNext == BatchStep("capture") /\ Capture!Next
ProviderNext == BatchStep("provider") /\ Provider!Next
JevNext == BatchStep("jev") /\ Jev!Next
ReviewNext == BatchStep("review") /\ Review!Next
RepairNext == ShadowStep("repair") /\ Repair!Next
QueueNext == ShadowStep("queue") /\ Queue!Next
BacklogNext == ShadowStep("backlog") /\ Backlog!Next
ScanNext == ShadowStep("scan") /\ Scan!Next

Next ==
  \/ CaptureNext \/ ProviderNext \/ JevNext \/ ReviewNext
  \/ RepairNext \/ QueueNext \/ BacklogNext \/ ScanNext

(* What is fair in each part; the parts share a condition where they can. *)
PassStep ==
  \/ BatchStep("capture") /\ Capture!PassStep
  \/ BatchStep("provider") /\ Provider!PassStep
  \/ BatchStep("jev") /\ Jev!PassStep
  \/ BatchStep("review") /\ Review!PassStep
  \/ ShadowStep("repair") /\ Repair!PassStep("w1")
  \/ ShadowStep("queue") /\ Queue!PassStep("w1")
  \/ ShadowStep("backlog") /\ Backlog!PassStep("w1")
  \/ ShadowStep("scan") /\ Scan!PassStep("w1")

SecondWorker ==
  \/ ShadowStep("queue") /\ Queue!PassStep("w2")
  \/ ShadowStep("scan") /\ Scan!PassStep("w2")

RetrieveEnded(j) ==
  \/ BatchStep("capture") /\ Capture!RetrieveEnded(j)
  \/ BatchStep("provider") /\ Provider!RetrieveEnded(j)
  \/ BatchStep("jev") /\ Jev!RetrieveEnded(j)
  \/ BatchStep("review") /\ Review!RetrieveEnded(j)

FirstFallsDue ==
  \/ BatchStep("jev") /\ Jev!RetryFallsDue(1)
  \/ part \in {"capture", "provider", "review"} /\ BatchStep(part) /\ Capture!RetryFallsDue(1)
  \/ ShadowStep("repair") /\ Repair!ScanAgain
  \/ ShadowStep("scan") /\ Scan!ScanAgain

SecondFallsDue ==
  \/ BatchStep("jev") /\ Jev!RetryFallsDue(2)
  \/ SecondWorker

HourPasses ==
  \/ BatchStep("jev") /\ \E j \in {"j1", "j2", "j3"} : Jev!HourPasses(j)
  \/ ShadowStep("repair") /\ Repair!LeaseExpires
  \/ ShadowStep("queue") /\ Queue!LeaseExpires
  \/ ShadowStep("backlog") /\ Backlog!LeaseExpires
  \/ ShadowStep("scan") /\ Scan!LeaseExpires

Fairness ==
  /\ WF_vars(PassStep)
  /\ \A j \in {"j1", "j2", "j3"} : SF_vars(RetrieveEnded(j))
  /\ WF_vars(FirstFallsDue)
  /\ WF_vars(SecondFallsDue)
  /\ SF_vars(HourPasses)

Spec == Init /\ [][Next]_vars /\ Fairness

(* The properties of TaxonomyBatch and of ShadowClassifier, in each part. *)
Shadow == part \in {"repair", "queue", "backlog", "scan"}

(* The types of the variables, of the part that runs. *)
TypeOK == CASE part = "capture" -> Capture!TypeOK
            [] part = "provider" -> Provider!TypeOK
            [] part = "jev" -> Jev!TypeOK
            [] part = "review" -> Review!TypeOK
            [] part = "repair" -> Repair!TypeOK
            [] part = "queue" -> Queue!TypeOK
            [] part = "backlog" -> Backlog!TypeOK
            [] OTHER -> Scan!TypeOK

(* A request is handed to the provider as a batch line at most once, also when
   the batch or its checkpoint fails (submit_queued_batches); and a stage is
   asked no more often than the policy allows (schedule_model_retry). *)
AskedOnce ==
  Shadow \/ /\ Capture!AskedOnce
            /\ IF part = "review" THEN Review!WithinPolicy ELSE Capture!WithinPolicy

(* What a finished classification claims is in the tables: of the batch
   pipeline, of which no statement leaves a tool with two primaries
   (finalize_classification), and of the shadow classifier. *)
SuccessIsWritten ==
  CASE part = "capture" -> Capture!OnePrimary
    [] part = "provider" -> Provider!OnePrimary /\ Provider!SucceededIsWritten
    [] part = "jev" -> Jev!OnePrimary /\ Jev!SucceededIsWritten
    [] part = "review" -> Review!OnePrimary /\ Review!SucceededIsWritten
    [] part = "repair" -> Repair!SuccessHasPrimary
    [] part = "backlog" -> Backlog!SuccessHasPrimary
    [] OTHER -> TRUE

(* The status of an anomaly candidate is true: a resolved tool is repaired, and
   the candidate of a request under way stays approved. *)
CandidatesAreTrue ==
  /\ part = "repair" => Repair!ResolvedIsRepaired
  /\ part = "backlog" => Backlog!ResolvedIsRepaired
  /\ part \in {"repair", "queue", "backlog"} => Repair!ActiveIsApproved

(* What a reviewer decided outlives the pipeline: the primary market a human
   verified, the kind a human set, and the publication of a tool. *)
HumanDecisionsKept ==
  /\ [][Shadow \/ Review!HumanLockKept]_assign
  /\ [][Shadow \/ (Capture!NoneRejectedAgainstHuman /\ Review!NoneUnpublished)]_tool

(* A late or repeated result takes no item back, nor reopens a closed one
   (apply_request_result). *)
StagesAdvance ==
  [][Shadow \/ IF part = "jev" THEN Jev!NoStageGoesBack ELSE Capture!NoStageGoesBack]_item

(* A reclassification is settled by the execution that claimed it last
   (complete_reclassification_request, fail_reclassification_request). *)
OnlyTheClaimSettles ==
  [][CASE part = "queue" -> Queue!ClaimSettles
       [] part = "repair" -> Repair!ClaimSettles
       [] part = "backlog" -> Backlog!ClaimSettles
       [] OTHER -> TRUE]_requests

(* Every item of the pipeline and every request for a reclassification ends. *)
EverythingSettles ==
  <>[](CASE part = "jev" -> Jev!Settled(1) /\ Jev!Settled(2)
         [] part = "repair" -> Repair!Rests(1)
         [] part = "queue" -> Queue!Rests(1)
         [] part = "backlog" -> Backlog!Rests(1)
         [] part = "scan" -> TRUE
         [] OTHER -> Capture!Settled(1))

(* Nothing is passed over for ever: tools without a classification behind a
   queue of requests, and polluted tools behind the page of a scan. *)
NothingIsOverlooked ==
  <>[](CASE part = "repair" -> Repair!AllClassified
         [] part = "backlog" -> Backlog!AllClassified
         [] part = "scan" -> \A t \in {1, 2} : Scan!Reported(t)
         [] OTHER -> TRUE)
=============================================================================
