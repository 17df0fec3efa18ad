------------------------ MODULE SearchDemand_proofs ------------------------
(***************************************************************************)
(* Theorems of the publication of the keyword projections, for every       *)
(* number of months, keywords and processes, and wherever a build stops.   *)
(***************************************************************************)
EXTENDS SearchDemand, TLAPS

(* Months are ordered, the bounds are numbers. *)
Bounded ==
  /\ DemandMonths \subseteq Nat /\ Locked \in BOOLEAN
  /\ MaxBuilds \in Nat /\ MaxStops \in Nat /\ MaxChanges \in Nat

(* What a table shows of a month is a plan. *)
Shows(t, m, plan) ==
  {<<row.keyword, row.value>> : row \in tables[t][m]} = {<<k, plan[k]>> : k \in Planned(plan)}

(* A build has a month and a number, and inserts what it planned.           *)
Assigned(p) ==
  builders[p].at # "idle" =>
    /\ builders[p].month \in DemandMonths /\ builders[p].build \in 1..MaxBuilds
    /\ builders[p].todo \subseteq Planned(builders[p].plan)

(* What a build has validated is still there: no other one writes.          *)
Solo == \A p, q \in Builders : builders[p].at # "idle" /\ builders[q].at # "idle" => p = q

Seen(b) ==
  CASE b.at \in {"recheck", "commit"} -> Tables
    [] b.at = "validate" /\ b.table = "metrics" -> {"observations"}
    [] b.at = "validate" /\ b.table = "terms" -> {"observations", "metrics"}
    [] OTHER -> {}

Validates(p) == \A t \in Seen(builders[p]) : Shows(t, builders[p].month, builders[p].plan)

IInv ==
  /\ TypeOK
  /\ \A p \in Builders : Assigned(p)
  /\ Locked => Solo /\ (\A p \in Builders : Validates(p)) /\ PublishedIsWhole

-----------------------------------------------------------------------------
LEMMA PublicIsPublic ==
  ASSUME Bounded, NEW m \in DemandMonths, Public(m)
  PROVE  PublicSince(m)
BY DEF Bounded, PublicSince

LEMMA Initially ==
  ASSUME Bounded, Init
  PROVE  IInv
<1>1. Nothing \in Plans
  BY DEF Nothing, Plans
<1>2. Idle \in Builder
  BY <1>1 DEF Bounded, Idle, Builder, Tables
<1>3. TypeOK
  BY <1>1, <1>2 DEF Bounded, Init, TypeOK, Plans
<1>4. \A p \in Builders : builders[p] = Idle
  BY DEF Init
<1> QED
  BY <1>3, <1>4 DEF Init, IInv, Assigned, Solo, Validates, Seen, PublishedIsWhole, Public, Idle

(* A step of one build that leaves the public months alone.                 *)
LEMMA BuildKeeps ==
  ASSUME Bounded, IInv, NEW p \in Builders, NEW next \in Builder, Goes(p, next),
         UNCHANGED <<demand, passed>>,
         spent' \in [builds : 0..MaxBuilds, stops : 0..MaxStops, changes : 0..MaxChanges],
         tables' \in [Tables -> [DemandMonths -> SUBSET Row]], coverage' \in [DemandMonths -> Plans],
         next.at # "idle" => /\ next.month \in DemandMonths /\ next.build \in 1..MaxBuilds
                             /\ next.todo \subseteq Planned(next.plan),
         Locked /\ next.at # "idle" => \A q \in Builders \ {p} : builders[q].at = "idle",
         Locked /\ tables' # tables => builders[p].at # "idle",
         Locked => (\A t \in Seen(next) : Shows(t, next.month, next.plan)'),
         Locked => PublishedIsWhole'
  PROVE  IInv'
<1>1. /\ TypeOK /\ (\A q \in Builders : Assigned(q))
      /\ Locked => Solo /\ (\A q \in Builders : Validates(q))
  BY DEF IInv
<1>2. /\ builders' \in [Builders -> Builder] /\ builders'[p] = next
      /\ \A q \in Builders \ {p} : builders'[q] = builders[q]
  BY <1>1 DEF TypeOK, Goes
<1>3. TypeOK'
  BY <1>1, <1>2 DEF TypeOK
<1>4. \A q \in Builders : Assigned(q)'
  BY <1>1, <1>2 DEF Assigned
<1>5. ASSUME Locked
      PROVE  Solo' /\ (\A q \in Builders : Validates(q)')
  <2>1. Solo'
    BY <1>1, <1>2, <1>5 DEF Solo
  <2>2. Validates(p)'
    BY <1>2, <1>5 DEF Validates
  <2>3. ASSUME NEW q \in Builders \ {p}
        PROVE  Validates(q)'
    <3>1. CASE tables' = tables
      BY <1>1, <1>2, <1>5, <3>1 DEF Validates, Shows
    <3>2. CASE tables' # tables
      <4>1. builders[q].at = "idle"
        BY <1>1, <1>5, <3>2 DEF Solo
      <4> QED
        BY <1>2, <4>1 DEF Validates, Seen
    <3> QED
      BY <3>1, <3>2
  <2> QED
    BY <2>1, <2>2, <2>3
<1> QED
  BY <1>3, <1>4, <1>5 DEF IInv

(* While a build works, no other one does.                                  *)
LEMMA OthersIdle ==
  ASSUME IInv, Locked, NEW p \in Builders, builders[p].at # "idle"
  PROVE  \A q \in Builders \ {p} : builders[q].at = "idle"
BY DEF IInv, Solo

LEMMA WholeStays ==
  ASSUME Bounded, IInv, UNCHANGED coverage,
         \A m \in DemandMonths, t \in Tables : Public(m) => tables'[t][m] = tables[t][m]
  PROVE  Locked => PublishedIsWhole'
BY DEF IInv, PublishedIsWhole, Public

-----------------------------------------------------------------------------
(* The statements that write.                                               *)

LEMMA Deletes ==
  ASSUME Bounded, IInv, NEW p \in Builders, builders[p].at # "idle", Delete(builders[p])
  PROVE  /\ tables' \in [Tables -> [DemandMonths -> SUBSET Row]]
         /\ \A m \in DemandMonths, t \in Tables : Public(m) => tables'[t][m] = tables[t][m]
<1> DEFINE b == builders[p]
<1>1. /\ tables \in [Tables -> [DemandMonths -> SUBSET Row]] /\ b.table \in Tables /\ b.month \in DemandMonths
  BY DEF IInv, TypeOK, Builder, Assigned
<1>2. CASE PublicSince(b.month)
  BY <1>1, <1>2 DEF Delete
<1>3. CASE ~PublicSince(b.month)
  <2>1. tables' = [tables EXCEPT ![b.table][b.month] = @ \ b.rows]
    BY <1>3 DEF Delete
  <2>2. ~Public(b.month)
    BY <1>1, <1>3, PublicIsPublic
  <2> QED
    BY <1>1, <2>1, <2>2
<1> QED
  BY <1>2, <1>3

LEMMA Inserts ==
  ASSUME Bounded, IInv, NEW p \in Builders, builders[p].at # "idle",
         NEW k \in builders[p].todo, Insert(builders[p], k)
  PROVE  /\ tables' \in [Tables -> [DemandMonths -> SUBSET Row]]
         /\ \A m \in DemandMonths, t \in Tables : Public(m) => tables'[t][m] = tables[t][m]
<1> DEFINE b == builders[p]
<1>1. /\ tables \in [Tables -> [DemandMonths -> SUBSET Row]] /\ b.table \in Tables /\ b.month \in DemandMonths
      /\ b.build \in 1..MaxBuilds /\ b.plan \in Plans /\ k \in Keywords /\ b.plan[k] # 0
  BY DEF IInv, TypeOK, Builder, Assigned, Planned
<1>2. CASE UNCHANGED tables
  BY <1>1, <1>2
<1>3. CASE tables' # tables
  <2>1. PICK row : row = [keyword |-> k, value |-> b.plan[k], build |-> b.build]
    OBVIOUS
  <2>2. ~PublicSince(b.month) /\ tables' = [tables EXCEPT ![b.table][b.month] = @ \cup {row}]
    BY <1>3, <2>1 DEF Insert
  <2>3. row \in Row
    BY <1>1, <2>1 DEF Row, Plans
  <2>4. ~Public(b.month)
    BY <1>1, <2>2, PublicIsPublic
  <2> QED
    BY <1>1, <2>2, <2>3, <2>4
<1> QED
  BY <1>2, <1>3

LEMMA Publishes ==
  ASSUME Bounded, IInv, NEW p \in Builders, builders[p].at = "commit", Publish(builders[p]), UNCHANGED tables
  PROVE  /\ coverage' \in [DemandMonths -> Plans]
         /\ \A m \in DemandMonths : Public(m) => coverage'[m] = coverage[m]
         /\ Locked => PublishedIsWhole'
<1> DEFINE b == builders[p]
<1>1. /\ coverage \in [DemandMonths -> Plans] /\ b.month \in DemandMonths /\ b.plan \in Plans
      /\ Locked => Validates(p) /\ PublishedIsWhole
  BY DEF IInv, TypeOK, Builder, Assigned
<1>2. CASE ~Preconditions(b)
  BY <1>1, <1>2 DEF Publish, PublishedIsWhole, Public
<1>3. CASE Preconditions(b)
  <2>1. /\ coverage' \in [DemandMonths -> Plans] /\ coverage'[b.month] = b.plan
        /\ \A m \in DemandMonths \ {b.month} : coverage'[m] = coverage[m]
    BY <1>1, <1>3 DEF Publish
  <2>2. ~Public(b.month)
    BY <1>1, <1>3, PublicIsPublic DEF Preconditions
  <2>3. ASSUME Locked, NEW m \in DemandMonths, NEW t \in Tables, coverage'[m] # Nothing
        PROVE  {<<row.keyword, row.value>> : row \in tables[t][m]}
                 = {<<k, coverage'[m][k]>> : k \in Planned(coverage'[m])}
    <3>1. CASE m = b.month
      BY <1>1, <2>1, <2>3, <3>1 DEF Validates, Seen, Shows
    <3>2. CASE m # b.month
      BY <1>1, <2>1, <2>3, <3>2 DEF PublishedIsWhole, Public
    <3> QED
      BY <3>1, <3>2
  <2> QED
    BY <2>1, <2>2, <2>3 DEF PublishedIsWhole, Public
<1> QED
  BY <1>2, <1>3

-----------------------------------------------------------------------------
(* The actions.                                                             *)

LEMMA BuilderTyped ==
  ASSUME IInv, NEW p \in Builders
  PROVE  /\ builders[p] \in Builder /\ Assigned(p)
         /\ tables \in [Tables -> [DemandMonths -> SUBSET Row]]
         /\ coverage \in [DemandMonths -> Plans]
         /\ spent \in [builds : 0..MaxBuilds, stops : 0..MaxStops, changes : 0..MaxChanges]
         /\ Locked => Validates(p)
BY DEF IInv, TypeOK

LEMMA IdleBuilds ==
  ASSUME Bounded
  PROVE  Idle \in Builder /\ Idle.at = "idle" /\ Seen(Idle) = {}
<1>1. Nothing \in Plans
  BY DEF Nothing, Plans
<1> QED
  BY <1>1 DEF Bounded, Idle, Builder, Tables, Seen

LEMMA StartBuildKeeps ==
  ASSUME Bounded, IInv, NEW p \in Builders, StartBuild(p)
  PROVE  IInv'
<1>1. PICK m \in Candidates :
        Goes(p, [Idle EXCEPT !.at = "select", !.month = m, !.build = spent.builds + 1, !.plan = demand[m]])
  BY DEF StartBuild
<1>2. PICK next : next = [Idle EXCEPT !.at = "select", !.month = m, !.build = spent.builds + 1,
                                      !.plan = demand[m]]
  OBVIOUS
<1>3. /\ m \in DemandMonths /\ demand[m] \in Plans /\ spent.builds + 1 \in 1..MaxBuilds
      /\ spent' \in [builds : 0..MaxBuilds, stops : 0..MaxStops, changes : 0..MaxChanges]
  BY <1>1 DEF Bounded, IInv, TypeOK, Candidates, StartBuild
<1>4. /\ next \in Builder /\ next.at = "select" /\ next.month = m
      /\ next.build = spent.builds + 1 /\ next.todo = {}
  <2>1. PICK n : n = spent.builds + 1 /\ n \in 0..MaxBuilds
    BY <1>3 DEF Bounded
  <2>2. /\ [Idle EXCEPT !.at = "select", !.month = m, !.build = n, !.plan = demand[m]] \in Builder
        /\ Idle.todo = {}
    BY <1>3, <2>1, IdleBuilds DEF Idle, Builder
  <2> QED
    BY <1>2, <2>1, <2>2, IdleBuilds DEF Builder
<1>5. Locked => \A q \in Builders : builders[q].at = "idle"
  BY DEF StartBuild, MayStart
<1>6. Seen(next) = {}
  BY <1>4 DEF Seen
<1>7. Locked => PublishedIsWhole'
  BY WholeStays DEF StartBuild
<1> QED
  BY <1>1, <1>2, <1>3, <1>4, <1>5, <1>6, <1>7, BuilderTyped, BuildKeeps DEF StartBuild

LEMMA SelectRowsKeeps ==
  ASSUME Bounded, IInv, NEW p \in Builders, SelectRows(p)
  PROVE  IInv'
<1> DEFINE b == builders[p]
<1>1. b \in Builder /\ b.at = "select" /\ Assigned(p) /\ Stored(p) \subseteq Row
  BY BuilderTyped DEF SelectRows, Stored, Builder, Assigned
<1>2. PICK next : /\ next = (IF Stored(p) = {} THEN Cleared(b) ELSE [b EXCEPT !.at = "delete", !.rows = Stored(p)])
                  /\ Goes(p, next)
  BY DEF SelectRows
<1>3. /\ next \in Builder /\ next.at \in {"select", "delete", "insert"}
      /\ next.month = b.month /\ next.build = b.build /\ next.plan = b.plan
      /\ next.todo \subseteq Planned(b.plan)
  <2>1. CASE Stored(p) # {}
    BY <1>1, <1>2, <2>1 DEF Builder, Assigned
  <2>2. CASE Stored(p) = {} /\ b.table = "terms"
    BY <1>1, <1>2, <2>2 DEF Cleared, Builder, Assigned, Tables
  <2>3. CASE Stored(p) = {} /\ b.table = "metrics"
    BY <1>1, <1>2, <2>3 DEF Cleared, Builder, Assigned, Tables
  <2>4. CASE Stored(p) = {} /\ b.table = "observations"
    <3>1. next = [b EXCEPT !.at = "insert", !.table = "observations", !.rows = {}, !.todo = Planned(b.plan)]
      BY <1>2, <2>4 DEF Cleared, Inserting
    <3>2. Planned(b.plan) \subseteq Keywords
      BY DEF Planned
    <3> QED
      BY <1>1, <3>1, <3>2 DEF Builder, Tables
  <2> QED
    BY <1>1, <2>1, <2>2, <2>3, <2>4 DEF Builder, Tables
<1>4. Seen(next) = {}
  BY <1>3 DEF Seen
<1>5. Locked => PublishedIsWhole'
  BY WholeStays DEF SelectRows
<1> QED
  BY <1>1, <1>2, <1>3, <1>4, <1>5, BuilderTyped, OthersIdle, BuildKeeps DEF SelectRows, Assigned

LEMMA DeleteRowsKeeps ==
  ASSUME Bounded, IInv, NEW p \in Builders, DeleteRows(p)
  PROVE  IInv'
<1> DEFINE b == builders[p]
<1>1. b \in Builder /\ b.at = "delete" /\ Assigned(p)
  BY BuilderTyped DEF DeleteRows
<1>2. PICK next : /\ next = Idle \/ next = [b EXCEPT !.at = "select", !.rows = {}]
                  /\ Goes(p, next)
  BY DEF DeleteRows
<1>3. /\ next \in Builder /\ Seen(next) = {}
      /\ next.at # "idle" => next.month = b.month /\ next.build = b.build /\ next.plan = b.plan
                             /\ next.todo = b.todo
  BY <1>1, <1>2, IdleBuilds DEF Builder, Seen
<1>4. Delete(b) /\ UNCHANGED <<demand, passed, coverage, spent>>
  BY DEF DeleteRows
<1>5. Locked => PublishedIsWhole'
  BY <1>1, <1>4, Deletes, WholeStays
<1> QED
  BY <1>1, <1>2, <1>3, <1>4, <1>5, BuilderTyped, OthersIdle, Deletes, BuildKeeps DEF Assigned

LEMMA InsertRowsKeeps ==
  ASSUME Bounded, IInv, NEW p \in Builders, NEW k \in Keywords, InsertRows(p, k)
  PROVE  IInv'
<1> DEFINE b == builders[p]
<1>1. b \in Builder /\ b.at = "insert" /\ Assigned(p) /\ k \in b.todo
  BY BuilderTyped DEF InsertRows
<1>2. PICK next : /\ next = Idle \/ next = Inserted(b) \/ next = [b EXCEPT !.todo = @ \ {k}]
                  /\ Goes(p, next)
  BY DEF InsertRows
<1>3. /\ next \in Builder /\ Seen(next) = {}
      /\ next.at # "idle" => next.month = b.month /\ next.build = b.build /\ next.plan = b.plan
                             /\ next.todo \subseteq Planned(b.plan)
  <2>1. Planned(b.plan) \subseteq Keywords
    BY DEF Planned
  <2>2. CASE next = Idle
    BY <2>2, IdleBuilds
  <2>3. CASE next = [b EXCEPT !.todo = @ \ {k}]
    BY <1>1, <2>3 DEF Builder, Seen, Assigned
  <2>4. CASE next = Inserted(b) /\ b.table = "observations"
    <3>1. next = [b EXCEPT !.table = "metrics", !.todo = Planned(b.plan)]
      BY <2>4 DEF Inserted
    <3> QED
      BY <1>1, <2>1, <3>1 DEF Builder, Seen, Tables
  <2>5. CASE next = Inserted(b) /\ b.table = "metrics"
    <3>1. next = [b EXCEPT !.table = "terms", !.todo = Planned(b.plan)]
      BY <2>5 DEF Inserted
    <3> QED
      BY <1>1, <2>1, <3>1 DEF Builder, Seen, Tables
  <2>6. CASE next = Inserted(b) /\ b.table = "terms"
    <3>1. next = [b EXCEPT !.at = "validate", !.table = "observations", !.todo = {}]
      BY <2>6 DEF Inserted
    <3> QED
      BY <1>1, <3>1 DEF Builder, Seen, Tables
  <2> QED
    BY <1>1, <1>2, <2>2, <2>3, <2>4, <2>5, <2>6 DEF Builder, Tables
<1>4. Insert(b, k) /\ UNCHANGED <<demand, passed, coverage, spent>>
  BY DEF InsertRows
<1>5. Locked => PublishedIsWhole'
  BY <1>1, <1>4, Inserts, WholeStays
<1> QED
  BY <1>1, <1>2, <1>3, <1>4, <1>5, BuilderTyped, OthersIdle, Inserts, BuildKeeps DEF Assigned

LEMMA ValidateKeeps ==
  ASSUME Bounded, IInv, NEW p \in Builders, Validate(p)
  PROVE  IInv'
<1> DEFINE b == builders[p]
<1>1. b \in Builder /\ b.at = "validate" /\ Assigned(p) /\ (Locked => Validates(p))
  BY BuilderTyped DEF Validate
<1>2. PICK next : next = (IF Matches(b) THEN Validated(b) ELSE Idle) /\ Goes(p, next)
  BY DEF Validate
<1>3. /\ next \in Builder
      /\ next.at # "idle" => next.month = b.month /\ next.build = b.build /\ next.plan = b.plan
                             /\ next.todo = b.todo
      /\ Seen(next) \subseteq Seen(b) \cup {b.table}
      /\ Seen(next) # {} => Matches(b) /\ next.month = b.month /\ next.plan = b.plan
  <2>1. CASE ~Matches(b)
    BY <1>2, <2>1, IdleBuilds
  <2>2. CASE Matches(b) /\ b.table = "observations"
    BY <1>1, <1>2, <2>2 DEF Validated, Builder, Seen, Tables
  <2>3. CASE Matches(b) /\ b.table = "metrics"
    BY <1>1, <1>2, <2>3 DEF Validated, Builder, Seen, Tables
  <2>4. CASE Matches(b) /\ b.table = "terms"
    BY <1>1, <1>2, <2>4 DEF Validated, Builder, Seen, Tables
  <2> QED
    BY <1>1, <2>1, <2>2, <2>3, <2>4 DEF Builder, Tables
<1>4. Locked => \A t \in Seen(next) : Shows(t, next.month, next.plan)'
  BY <1>1, <1>3 DEF Validate, Validates, Matches, Shows
<1>5. Locked => PublishedIsWhole'
  BY WholeStays DEF Validate
<1> QED
  BY <1>1, <1>2, <1>3, <1>4, <1>5, BuilderTyped, OthersIdle, BuildKeeps DEF Validate, Assigned

LEMMA RecheckKeeps ==
  ASSUME Bounded, IInv, NEW p \in Builders, Recheck(p)
  PROVE  IInv'
<1> DEFINE b == builders[p]
<1>1. b \in Builder /\ b.at = "recheck" /\ Assigned(p) /\ (Locked => Validates(p))
  BY BuilderTyped DEF Recheck
<1>2. PICK next : (next = Idle \/ next = [b EXCEPT !.at = "commit"]) /\ Goes(p, next)
  BY DEF Recheck
<1>3. /\ next \in Builder
      /\ next.at # "idle" => next.month = b.month /\ next.build = b.build /\ next.plan = b.plan
                             /\ next.todo = b.todo
      /\ Seen(next) # {} => Seen(next) = Seen(b) /\ next.month = b.month /\ next.plan = b.plan
  BY <1>1, <1>2, IdleBuilds DEF Builder, Seen
<1>4. Locked => \A t \in Seen(next) : Shows(t, next.month, next.plan)'
  BY <1>1, <1>3 DEF Recheck, Validates, Shows
<1>5. Locked => PublishedIsWhole'
  BY WholeStays DEF Recheck
<1> QED
  BY <1>1, <1>2, <1>3, <1>4, <1>5, BuilderTyped, OthersIdle, BuildKeeps DEF Recheck, Assigned

(* Going idle, whatever of its statement was applied.                       *)
LEMMA IdleKeeps ==
  ASSUME Bounded, IInv, NEW p \in Builders, builders[p].at # "idle", Goes(p, Idle),
         UNCHANGED <<demand, passed>>,
         spent' \in [builds : 0..MaxBuilds, stops : 0..MaxStops, changes : 0..MaxChanges],
         tables' \in [Tables -> [DemandMonths -> SUBSET Row]], coverage' \in [DemandMonths -> Plans],
         Locked => PublishedIsWhole'
  PROVE  IInv'
BY IdleBuilds, BuildKeeps

LEMMA CommitKeeps ==
  ASSUME Bounded, IInv, NEW p \in Builders, Commit(p)
  PROVE  IInv'
BY BuilderTyped, Publishes, IdleKeeps DEF Commit

LEMMA StopsKeeps ==
  ASSUME Bounded, IInv, NEW p \in Builders, Stops(p)
  PROVE  IInv'
<1> DEFINE b == builders[p]
<1>1. /\ b.at # "idle" /\ Goes(p, Idle) /\ UNCHANGED <<demand, passed>>
      /\ spent' \in [builds : 0..MaxBuilds, stops : 0..MaxStops, changes : 0..MaxChanges]
  BY BuilderTyped DEF Bounded, Stops
<1>2. CASE UNCHANGED <<tables, coverage>>
  BY <1>1, <1>2, BuilderTyped, WholeStays, IdleKeeps
<1>3. CASE b.at = "delete" /\ Delete(b) /\ UNCHANGED coverage
  BY <1>1, <1>3, BuilderTyped, Deletes, WholeStays, IdleKeeps
<1>4. CASE b.at = "insert" /\ (\E k \in b.todo : Insert(b, k)) /\ UNCHANGED coverage
  BY <1>1, <1>4, BuilderTyped, Inserts, WholeStays, IdleKeeps
<1>5. CASE b.at = "commit" /\ Publish(b) /\ UNCHANGED tables
  BY <1>1, <1>5, BuilderTyped, Publishes, IdleKeeps
<1> QED
  BY <1>2, <1>3, <1>4, <1>5 DEF Stops

LEMMA OutsideKeeps ==
  ASSUME Bounded, IInv, UNCHANGED <<tables, coverage, builders>>, passed' \subseteq DemandMonths,
         demand' \in [DemandMonths -> Plans],
         spent' \in [builds : 0..MaxBuilds, stops : 0..MaxStops, changes : 0..MaxChanges]
  PROVE  IInv'
BY DEF IInv, TypeOK, Assigned, Solo, Validates, Shows, PublishedIsWhole, Public

LEMMA SourcesChangeKeeps ==
  ASSUME Bounded, IInv, NEW m \in DemandMonths, NEW k \in Keywords, NEW v \in Values \cup {0},
         SourcesChange(m, k, v)
  PROVE  IInv'
<1>1. demand' \in [DemandMonths -> Plans]
  BY DEF IInv, TypeOK, Plans, SourcesChange
<1>2. spent' \in [builds : 0..MaxBuilds, stops : 0..MaxStops, changes : 0..MaxChanges]
  BY DEF Bounded, IInv, TypeOK, SourcesChange
<1> QED
  BY <1>1, <1>2, OutsideKeeps DEF IInv, TypeOK, SourcesChange

LEMMA Inductive ==
  ASSUME Bounded, IInv, [DemandNext]_demandVars
  PROVE  IInv'
<1>1. ASSUME UNCHANGED demandVars
      PROVE  IInv'
  BY <1>1 DEF demandVars, IInv, TypeOK, Assigned, Solo, Validates, Shows, PublishedIsWhole, Public
<1>2. ASSUME NEW p \in Builders, Returns(p) \/ StartBuild(p) \/ Build(p) \/ Stops(p)
      PROVE  IInv'
  BY <1>1, <1>2, StartBuildKeeps, SelectRowsKeeps, DeleteRowsKeeps, InsertRowsKeeps, ValidateKeeps,
     RecheckKeeps, CommitKeeps, StopsKeeps DEF Build, Returns
<1>3. ASSUME NEW m \in DemandMonths, MonthPasses(m)
      PROVE  IInv'
  BY <1>3, OutsideKeeps DEF IInv, TypeOK, MonthPasses
<1> QED
  BY <1>1, <1>2, <1>3, SourcesChangeKeeps DEF DemandNext

LEMMA Always ==
  ASSUME Bounded
  PROVE  DemandSpec => []IInv
<1>1. Init => IInv
  BY Initially
<1>2. IInv /\ [DemandNext]_demandVars => IInv'
  BY Inductive
<1> QED
  BY <1>1, <1>2, PTL DEF DemandSpec

-----------------------------------------------------------------------------
(* The shapes of the tables and of the builds                               *)
(* (src/search_demand_refresh.py).                                          *)
THEOREM DemandTyped ==
  ASSUME Bounded
  PROVE  DemandSpec => []TypeOK
<1>1. IInv => TypeOK
  BY DEF IInv
<1> QED
  BY <1>1, Always, PTL

(* Where publishers share the lock, every projection of a public month      *)
(* shows the one plan the month was published with: whatever builds that    *)
(* stopped half way left, and however the sources change meanwhile          *)
(* (clear_unpublished, insert_rows, validate, publish_month).               *)
THEOREM PublicMonthsAreWhole ==
  ASSUME Bounded
  PROVE  DemandSpec => []PublishedIsWhole
<1>1. IInv => PublishedIsWhole
  BY DEF IInv, PublishedIsWhole
<1> QED
  BY <1>1, Always, PTL

(* With the lock or without it, no statement changes what a public month    *)
(* shows: two publishers at once, and one that goes on after the other has  *)
(* published, are stopped by the guards of the statements.                  *)
THEOREM PublicMonthsStay ==
  ASSUME Bounded
  PROVE  DemandSpec => PublishedIsImmutable
<1> DEFINE Stay == \A m \in DemandMonths :
                     Public(m) => /\ coverage'[m] = coverage[m]
                                  /\ \A t \in Tables : tables'[t][m] = tables[t][m]
<1>1. ASSUME IInv, [DemandNext]_demandVars
      PROVE  [Stay]_<<tables, coverage>>
  <2>1. ASSUME NEW p \in Builders, builders[p].at # "idle", Delete(builders[p]), UNCHANGED coverage
        PROVE  Stay
    BY <1>1, <2>1, Deletes
  <2>2. ASSUME NEW p \in Builders, builders[p].at # "idle", NEW k \in builders[p].todo,
               Insert(builders[p], k), UNCHANGED coverage
        PROVE  Stay
    BY <1>1, <2>2, Inserts
  <2>3. ASSUME NEW p \in Builders, builders[p].at = "commit", Publish(builders[p]), UNCHANGED tables
        PROVE  Stay
    BY <1>1, <2>3, Publishes
  <2>4. ASSUME NEW p \in Builders, Build(p)
        PROVE  [Stay]_<<tables, coverage>>
    BY <2>1, <2>2, <2>3, <2>4 DEF Build, SelectRows, DeleteRows, InsertRows, Validate, Recheck, Commit
  <2>5. ASSUME NEW p \in Builders, Stops(p)
        PROVE  [Stay]_<<tables, coverage>>
    BY <2>1, <2>2, <2>3, <2>5 DEF Stops
  <2>6. ASSUME \/ UNCHANGED demandVars
               \/ \E p \in Builders : Returns(p) \/ StartBuild(p)
               \/ \E m \in DemandMonths, k \in Keywords, v \in Values \cup {0} : SourcesChange(m, k, v)
               \/ \E m \in DemandMonths : MonthPasses(m)
        PROVE  UNCHANGED <<tables, coverage>>
    BY <2>6 DEF demandVars, Returns, StartBuild, SourcesChange, MonthPasses
  <2> QED
    BY <1>1, <2>4, <2>5, <2>6 DEF DemandNext
<1>2. IInv /\ [DemandNext]_demandVars => [Stay]_<<tables, coverage>>
  BY <1>1
<1> QED
  BY <1>2, Always, PTL DEF DemandSpec, PublishedIsImmutable

(* A month becomes public as a whole, where the lock is shared, and what is  *)
(* public stays as it is (publish_month).                                   *)
THEOREM PublicationIsFinal ==
  ASSUME Bounded
  PROVE  DemandSpec => PublishedStaysWhole
<1>1. IInv /\ [DemandNext]_demandVars => [PublishedIsWhole']_demandVars
  BY Inductive DEF IInv, PublishedIsWhole
<1> QED
  BY <1>1, Always, PublicMonthsStay, PTL DEF DemandSpec, PublishedStaysWhole
=============================================================================
