---------------------------- MODULE SearchDemand ----------------------------
(***************************************************************************)
(* The publication of the keyword projections of a month                   *)
(* (src/search_demand_refresh.py): what an earlier build left is cleared,  *)
(* rows are inserted page by page and validated, the sources are read a    *)
(* second time, and one last insert makes the month public.  Publishers    *)
(* keep apart by the lock of a directory, where they share it.             *)
(*                                                                         *)
(* A keyword stands for a page of rows.  The keyword table and the labels  *)
(* are left out: a build only adds to them.                                *)
(***************************************************************************)
EXTENDS Naturals, FiniteSets

CONSTANTS
  DemandMonths,  \* traffic months
  Keywords,      \* keywords of the sources
  Values,        \* what the sources may say of a keyword
  Builders,      \* processes that publish
  Locked,        \* they share the directory of the lock
  MaxBuilds,     \* bound: builds
  MaxStops,      \* bound: builds that stop half way
  MaxChanges     \* bound: changes of the sources

VARIABLES
  demand,    \* the sources: per month and keyword what they say, 0 for nothing
  passed,    \* months the market publication has passed
  tables,    \* rows of the three projections, per month
  coverage,  \* search_demand_coverage_snapshots: the plan of each public month
  builders,  \* the build of each process
  spent      \* builds, stops and changes so far

demandVars == <<demand, passed, tables, coverage, builders, spent>>

---------------------------------------------------------------------------
Tables == {"observations", "metrics", "terms"}
Plans == [Keywords -> Values \cup {0}]
Nothing == [k \in Keywords |-> 0]

(* The build stands for the identity of a row. *)
Row == [keyword : Keywords, value : Values, build : 1..MaxBuilds]

Builder == [at : {"idle", "select", "delete", "insert", "validate", "recheck", "commit"},
            month : DemandMonths \cup {0}, build : 0..MaxBuilds, plan : Plans,
            table : Tables, rows : SUBSET Row, todo : SUBSET Keywords]

TypeOK == /\ demand \in [DemandMonths -> Plans]
          /\ passed \subseteq DemandMonths
          /\ tables \in [Tables -> [DemandMonths -> SUBSET Row]]
          /\ coverage \in [DemandMonths -> Plans]
          /\ builders \in [Builders -> Builder]
          /\ spent \in [builds : 0..MaxBuilds, stops : 0..MaxStops, changes : 0..MaxChanges]

Idle == [at |-> "idle", month |-> 0, build |-> 0, plan |-> Nothing,
         table |-> "terms", rows |-> {}, todo |-> {}]

Init == /\ \E v \in Values : demand = [m \in DemandMonths |-> [k \in Keywords |-> v]]
        /\ passed = {}
        /\ tables = [t \in Tables |-> [m \in DemandMonths |-> {}]]
        /\ coverage = [m \in DemandMonths |-> Nothing]
        /\ builders = [p \in Builders |-> Idle]
        /\ spent = [builds |-> 0, stops |-> 0, changes |-> 0]

Public(m) == coverage[m] # Nothing
PublicSince(m) == \E n \in DemandMonths : n >= m /\ Public(n)

Goes(p, next) == builders' = [builders EXCEPT ![p] = next]
Stored(p) == tables[builders[p].table][builders[p].month]
Planned(plan) == {k \in Keywords : plan[k] # 0}

---------------------------------------------------------------------------
(* refresh_completed_search_demand, publish_month *)

(* Mutant: the lock is not taken. *)
MayStartUnlocked(p) == builders[p].at = "idle"

MayStart(p) == /\ builders[p].at = "idle"
               /\ Locked => \A q \in Builders : builders[q].at = "idle"

(* The oldest month that is passed and later than what is public. *)
Candidates == {m \in passed : ~PublicSince(m)}

(* A month without keywords raises, every time. *)
StartBuild(p) ==
  /\ MayStart(p) /\ spent.builds < MaxBuilds
  /\ \E m \in Candidates :
       /\ \A n \in Candidates : m <= n
       /\ Planned(demand[m]) # {}
       /\ Goes(p, [Idle EXCEPT !.at = "select", !.month = m, !.build = spent.builds + 1,
                               !.plan = demand[m]])
  /\ spent' = [spent EXCEPT !.builds = @ + 1]
  /\ UNCHANGED <<demand, passed, tables, coverage>>

(* Another process has the lock, the status file says not yet, or no month
   waits: the call returns. *)
Returns(p) == builders[p].at = "idle" /\ UNCHANGED demandVars

(* clear_unpublished: the rows of a table are selected, then deleted. *)
Inserting(b) == [b EXCEPT !.at = "insert", !.table = "observations", !.rows = {}, !.todo = Planned(b.plan)]

(* Mutant: the observations are not cleared. *)
ClearedEarly(b) ==
  IF b.table = "terms" THEN [b EXCEPT !.table = "metrics"] ELSE Inserting(b)

Cleared(b) ==
  CASE b.table = "terms" -> [b EXCEPT !.table = "metrics"]
    [] b.table = "metrics" -> [b EXCEPT !.table = "observations"]
    [] b.table = "observations" -> Inserting(b)

SelectRows(p) ==
  /\ builders[p].at = "select"
  /\ Goes(p, IF Stored(p) = {} THEN Cleared(builders[p])
             ELSE [builders[p] EXCEPT !.at = "delete", !.rows = Stored(p)])
  /\ UNCHANGED <<demand, passed, tables, coverage, spent>>

Delete(b) ==
  tables' = IF PublicSince(b.month) THEN tables
            ELSE [tables EXCEPT ![b.table][b.month] = @ \ b.rows]

(* "Publication changed during retry cleanup" *)
DeleteRows(p) ==
  LET b == builders[p]
  IN /\ b.at = "delete"
     /\ Delete(b)
     /\ Goes(p, IF PublicSince(b.month) \/ ~(b.rows \subseteq Stored(p)) THEN Idle
                ELSE [b EXCEPT !.at = "select", !.rows = {}])
     /\ UNCHANGED <<demand, passed, coverage, spent>>

(* insert_rows: nothing is inserted once the month, or a later one, is public;
   a key that exists raises. *)
Exists(b, k) == \E row \in tables[b.table][b.month] : row.keyword = k

(* Mutant: a row is inserted without a look at the public months. *)
InsertAnyway(b, k) ==
  tables' = IF Exists(b, k) THEN tables
            ELSE [tables EXCEPT ![b.table][b.month] =
                    @ \cup {[keyword |-> k, value |-> b.plan[k], build |-> b.build]}]

Insert(b, k) ==
  tables' = IF PublicSince(b.month) \/ Exists(b, k) THEN tables
            ELSE [tables EXCEPT ![b.table][b.month] =
                    @ \cup {[keyword |-> k, value |-> b.plan[k], build |-> b.build]}]

Inserted(b) ==
  CASE b.table = "observations" -> [b EXCEPT !.table = "metrics", !.todo = Planned(b.plan)]
    [] b.table = "metrics" -> [b EXCEPT !.table = "terms", !.todo = Planned(b.plan)]
    [] b.table = "terms" -> [b EXCEPT !.at = "validate", !.table = "observations", !.todo = {}]

InsertRows(p, k) ==
  LET b == builders[p]
  IN /\ b.at = "insert" /\ k \in b.todo
     /\ Insert(b, k)
     /\ Goes(p, IF ~PublicSince(b.month) /\ Exists(b, k) THEN Idle
                ELSE IF b.todo = {k} THEN Inserted(b)
                ELSE [b EXCEPT !.todo = @ \ {k}])
     /\ UNCHANGED <<demand, passed, coverage, spent>>

(* validate: every row of every table *)
Matches(b) ==
  {<<row.keyword, row.value>> : row \in tables[b.table][b.month]}
    = {<<k, b.plan[k]>> : k \in Planned(b.plan)}

Validated(b) ==
  CASE b.table = "observations" -> [b EXCEPT !.table = "metrics"]
    [] b.table = "metrics" -> [b EXCEPT !.table = "terms"]
    [] b.table = "terms" -> [b EXCEPT !.at = "recheck"]

Validate(p) ==
  /\ builders[p].at = "validate"
  /\ Goes(p, IF Matches(builders[p]) THEN Validated(builders[p]) ELSE Idle)
  /\ UNCHANGED <<demand, passed, tables, coverage, spent>>

(* "Source changed during build" *)
Recheck(p) ==
  LET b == builders[p]
  IN /\ b.at = "recheck"
     /\ Goes(p, IF demand[b.month] = b.plan THEN [b EXCEPT !.at = "commit"] ELSE Idle)
     /\ UNCHANGED <<demand, passed, tables, coverage, spent>>

(* The last insert counts metrics and observations once more. *)
Preconditions(b) ==
  /\ ~PublicSince(b.month)
  /\ \A t \in {"metrics", "observations"} :
       {row.keyword : row \in tables[t][b.month]} = Planned(b.plan)

Publish(b) == coverage' = IF Preconditions(b) THEN [coverage EXCEPT ![b.month] = b.plan] ELSE coverage

Commit(p) ==
  /\ builders[p].at = "commit"
  /\ Publish(builders[p])
  /\ Goes(p, Idle)
  /\ UNCHANGED <<demand, passed, tables, spent>>

---------------------------------------------------------------------------
(* The process stops, or a statement raises: the one under way is applied
   or not, and the next attempt finds what is there. *)
Stops(p) ==
  LET b == builders[p]
  IN /\ b.at # "idle" /\ spent.stops < MaxStops
     /\ spent' = [spent EXCEPT !.stops = @ + 1]
     /\ Goes(p, Idle)
     /\ \/ UNCHANGED <<tables, coverage>>
        \/ b.at = "delete" /\ Delete(b) /\ UNCHANGED coverage
        \/ b.at = "insert" /\ (\E k \in b.todo : Insert(b, k)) /\ UNCHANGED coverage
        \/ b.at = "commit" /\ Publish(b) /\ UNCHANGED tables
     /\ UNCHANGED <<demand, passed>>

(* Traffic rows, tools and taxonomy change. *)
SourcesChange(m, k, v) ==
  /\ spent.changes < MaxChanges /\ demand[m][k] # v
  /\ demand' = [demand EXCEPT ![m][k] = v]
  /\ spent' = [spent EXCEPT !.changes = @ + 1]
  /\ UNCHANGED <<passed, tables, coverage, builders>>

(* The market publication passes months in their order (MarketServing). *)
MonthPasses(m) ==
  /\ \A n \in passed : n < m
  /\ passed' = passed \cup {m}
  /\ UNCHANGED <<demand, tables, coverage, builders, spent>>

Build(p) ==
  \/ SelectRows(p) \/ DeleteRows(p) \/ (\E k \in Keywords : InsertRows(p, k))
  \/ Validate(p) \/ Recheck(p) \/ Commit(p)

DemandNext ==
  \/ \E p \in Builders : Returns(p) \/ StartBuild(p) \/ Build(p) \/ Stops(p)
  \/ \E m \in DemandMonths, k \in Keywords, v \in Values \cup {0} : SourcesChange(m, k, v)
  \/ \E m \in DemandMonths : MonthPasses(m)

(* The collector calls the publication after every batch. *)
Moves == \E p \in Builders : StartBuild(p) \/ Build(p)

DemandFairness == WF_demandVars(Moves)

DemandSpec == Init /\ [][DemandNext]_demandVars

---------------------------------------------------------------------------
(* What a public month shows is one plan of its sources, in every
   projection, whatever earlier builds left behind (README, "Every persisted
   observation, monthly metric and taxonomy aggregate is checked against the
   source plan"); it is the lock that makes it so. *)
PublishedIsWhole ==
  Locked => \A m \in DemandMonths, t \in Tables :
    Public(m) => {<<row.keyword, row.value>> : row \in tables[t][m]}
                   = {<<k, coverage[m][k]>> : k \in Planned(coverage[m])}

(* "Already published months are immutable for this job": with a lock or
   without it, by the guards of the statements alone. *)
PublishedIsImmutable ==
  [][\A m \in DemandMonths :
       Public(m) => /\ coverage'[m] = coverage[m]
                    /\ \A t \in Tables : tables'[t][m] = tables[t][m]]_<<tables, coverage>>

(* Both, of every step: what becomes public is whole, and stays as it is. *)
PublishedStaysWhole == [][PublishedIsWhole']_demandVars /\ PublishedIsImmutable

(* "restart retries only unpublished data": builds that stopped half way do
   not keep a passed month from its readers, where the lock is shared, builds
   do not go on stopping and no month is without keywords (the oldest such
   month would block the later ones).  MaxBuilds allows for one build of each
   month and one more for each stop and each change. *)
MonthsAreDemanded ==
  (Locked /\ MaxBuilds >= MaxStops + MaxChanges + Cardinality(DemandMonths))
    => \A m \in DemandMonths :
         m \in passed ~> (PublicSince(m) \/ \E n \in DemandMonths : Planned(demand[n]) = {})
=============================================================================
