------------------------ MODULE MCSitemapScheduler ------------------------
(***************************************************************************)
(* Values of the scheduler's constants for TLC.  One unit of time stands    *)
(* for the shortest delay; families are model values.                       *)
(***************************************************************************)
EXTENDS SitemapScheduler

CONSTANTS f1, f2

Obs(kind, family, moved, signal, transient) ==
  [kind |-> kind, family |-> family, moved |-> moved,
   signal |-> signal, transient |-> transient]

(* Scheduling: a usable scan or a permanent failure; a transient failure is *)
(* a traversal that raises.                                                 *)
OutcomesOnly ==
  {Obs("complete", f1, FALSE, FALSE, FALSE),
   Obs("none", f1, FALSE, FALSE, FALSE)}

(* Baselines: two resource sets, migrations, partial scans.                 *)
ResourceSets ==
  {Obs("complete", f1, FALSE, FALSE, FALSE),
   Obs("complete", f2, FALSE, FALSE, FALSE),
   Obs("partial", f2, FALSE, FALSE, FALSE)}

MigrationSets ==
  ResourceSets \cup {Obs("complete", f2, TRUE, TRUE, FALSE)}

NoOffset == {0}

LongCooldowns == [i \in 1..3 |-> i + 1]

ShortCooldowns == [i \in 1..3 |-> i]
=============================================================================
