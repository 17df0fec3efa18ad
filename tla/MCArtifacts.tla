---------------------------- MODULE MCArtifacts ----------------------------
(***************************************************************************)
(* The publication of the market, one instance at a time: part says which. *)
(*                                                                         *)
(*   serving   a runner and an operator publish two months of one tool     *)
(*   publish   a runner publishes two months of two tools in PostgreSQL    *)
(*   lasting   a runner whose statements fail, with versions that last     *)
(***************************************************************************)
EXTENDS MarketPublication

VARIABLES
  part,
  twoProgress, twoRows, twoWrites, twoOpens, twoReleased, twoVisible, twoRevision, twoVersions,
  twoJobs, twoEdits, twoFaults,
  lastProgress, lastRows, lastWrites, lastOpens, lastReleased, lastVisible, lastRevision,
  lastVersions, lastJobs, lastEdits, lastFaults

twoVars == <<twoProgress, twoRows, twoWrites, twoOpens, twoReleased, twoVisible, twoRevision,
             twoVersions, twoJobs, twoEdits, twoFaults>>
lastVars == <<lastProgress, lastRows, lastWrites, lastOpens, lastReleased, lastVisible, lastRevision,
              lastVersions, lastJobs, lastEdits, lastFaults>>

Publish == INSTANCE MarketPublication WITH
  Domains <- {1, 2}, Operators <- {}, Isolation <- "read_committed", MaxSnapshots <- 2, MaxWrites <- 2,
  progress <- twoProgress, rows <- twoRows, writes <- twoWrites, opens <- twoOpens,
  released <- twoReleased, visible <- twoVisible, revision <- twoRevision,
  versions <- twoVersions, jobs <- twoJobs, edits <- twoEdits, faults <- twoFaults

Lasting == INSTANCE MarketPublication WITH
  Domains <- {1}, Operators <- {}, Isolation <- "read_committed", MaxSnapshots <- 7, MaxOpens <- 1,
  MaxFaults <- 1,
  progress <- lastProgress, rows <- lastRows, writes <- lastWrites, opens <- lastOpens,
  released <- lastReleased, visible <- lastVisible, revision <- lastRevision,
  versions <- lastVersions, jobs <- lastJobs, edits <- lastEdits, faults <- lastFaults

(* Bound: only the rows of the first tool are written twice. *)
FewWrites == \A m \in Months : twoWrites[2, m] <= 1

(* Bound: only one of the months is queued. *)
FewOpens == lastOpens[1, 1] + lastOpens[1, 2] <= 1

MCInit == part \in {"serving", "publish", "lasting"} /\ Init /\ Publish!Init /\ Lasting!Init

Lasts(step) == part = "lasting" /\ step /\ UNCHANGED <<part, vars, twoVars>>

MCNext == \/ part = "publish" /\ Publish!Next /\ FewWrites' /\ UNCHANGED <<part, vars, lastVars>>
          \/ part = "serving" /\ Next /\ UNCHANGED <<part, twoVars, lastVars>>
          \/ Lasts(Lasting!Next /\ FewOpens')

mcvars == <<part, vars, twoVars, lastVars>>

(* The lasting part is as fair as FairSpec. *)
MCSpec ==
  /\ MCInit /\ [][MCNext]_mcvars
  /\ \A p \in Publishers : WF_mcvars(Lasts(Lasting!PublisherStep(p)))

(* Two tools, whose pages are read one after the other.  What is activated is
   the ready month that was read before the build (refresh_month). *)
TwoPagesAsRead == Publish!PublishedAsRead
(* It covers enough of what it replaces, and no tool that was archived while it
   was served is served again (activate_market_snapshot_from_d1). *)
TwoPagesReplace == Publish!CoverageKept /\ Publish!NothingArchivedReturns
(* A month that stays released, ready and coverable is served in the end,
   whatever fails and although newer months never get ready (refresh_month). *)
ReadyMonthsAreServed == part = "lasting" => Lasting!ReadyMonthIsServed
=============================================================================
