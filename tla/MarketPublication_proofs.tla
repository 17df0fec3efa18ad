----------------------- MODULE MarketPublication_proofs -----------------------
(***************************************************************************)
(* Theorems of the publication of market snapshots, for every catalog, set *)
(* of months, publisher and operator.  Those about what is served need a   *)
(* batch that is atomic: Isolation = "serial".                             *)
(***************************************************************************)
EXTENDS MarketPublication, FiniteSetTheorems, TLAPS

BuildPlaces == {"selecting", "paging", "validating"}
VersionPlaces == BuildPlaces \cup {"rechecking", "gating", "switching", "committing"}

(* A job knows what its place needs.                                        *)
Equipped(job) ==
  /\ job.at \in VersionPlaces => job.id \in Ids
  /\ job.at \in {"starting"} \cup BuildPlaces => job.month \in Months
  /\ job.at = "committing" => Isolation = "read_committed"

AllEquipped == \A p \in Processes : Equipped(jobs[p])

(* A version that is built is built by one job.                             *)
BuiltByOne ==
  /\ \A p \in Processes :
       jobs[p].at \in BuildPlaces => versions[jobs[p].id].status = "building"
  /\ \A p, q \in Processes :
       jobs[p].at \in BuildPlaces /\ jobs[q].at \in BuildPlaces
         /\ jobs[p].id = jobs[q].id => p = q

(* A version that was started is for a month.                               *)
MonthsKnown == \A v \in Ids : versions[v].status # "unused" => versions[v].month \in Months

IInv == TypeOK /\ AllEquipped /\ BuiltByOne /\ MonthsKnown

-----------------------------------------------------------------------------
(* Lemmas about the helpers.                                                *)

LEMMA IdleTyped == Idle \in Job /\ Equipped(Idle) /\ Idle.at \notin VersionPlaces
  BY DEF Idle, Job, Places, Reading, NothingRead, Equipped, VersionPlaces, BuildPlaces

LEMMA UnusedTyped == Unused \in Version
  BY DEF Unused, Version, Statuses

LEMMA CountIsNat ==
  ASSUME NEW S \in SUBSET Domains
  PROVE  Cardinality(S) \in Nat
<1>1. IsFiniteSet(S)
  BY CatalogIsFinite, FS_Subset
<1> QED
  BY <1>1, FS_CardinalityType

LEMMA IdsAreNat == Ids \subseteq Nat /\ 0 \notin Ids
  BY SnapshotBound DEF Ids

LEMMA MeasureTyped ==
  ASSUME writes \in [Keys -> Nat], NEW d \in Domains, NEW m \in Months
  PROVE  Measure(d, m) \in Nat
<1>1. <<d, m>> \in Keys
  BY DEF Keys
<1> QED
  BY <1>1 DEF Measure

LEMMA InputsTyped ==
  ASSUME TypeOK, NEW m \in Months
  PROVE  Inputs(m) \in Reading
<1> DEFINE E == [domain: Domains, visits: Nat, status: Collection!Progress, opens: Nat,
                 stamps: SUBSET (Months \X Nat)]
<1>1. ASSUME NEW d \in visible
      PROVE  Entry(d, m) \in E
  <2>1. d \in Domains
    BY <1>1 DEF TypeOK
  <2>2. \A n \in Months : <<d, n>> \in Keys
    BY <2>1 DEF Keys
  <2>3. Measure(d, m) \in Nat
    BY <2>1, MeasureTyped DEF TypeOK
  <2>4. progress[d, m] \in Collection!Progress /\ opens[d, m] \in Nat
    BY <2>2 DEF TypeOK
  <2>5. \A n \in Months : writes[d, n] \in Nat
    BY <2>2 DEF TypeOK
  <2> DEFINE stamp(n) == <<n, writes[d, n]>>
  <2>6. \A n \in Months \cap {m - 1, m} : stamp(n) \in Months \X Nat
    BY <2>5
  <2>7. {stamp(n) : n \in Months \cap {m - 1, m}} \in SUBSET (Months \X Nat)
    BY <2>6
  <2> QED
    BY <2>1, <2>3, <2>4, <2>7 DEF Entry
<1>2. {Entry(d, m) : d \in visible} \in SUBSET E
  BY <1>1
<1> QED
  BY <1>2 DEF Inputs, Reading, TypeOK

LEMMA GreatestOfOne ==
  ASSUME NEW m \in Nat
  PROVE  Greatest({m}) = m
<1>1. \E n \in {m} : \A k \in {m} : k <= n
  OBVIOUS
<1> QED
  BY <1>1 DEF Greatest

-----------------------------------------------------------------------------
(* What the steps have in common.  Most of them change one job and, of the  *)
(* versions, at most the one that job builds.                               *)

JobParts == jobs \in [Processes -> Job] /\ AllEquipped /\ BuiltByOne

Ledger == versions \in [Ids -> Version] /\ JobParts /\ MonthsKnown

LEMMA JobMoves ==
  ASSUME Ledger, NEW p \in Processes, NEW job \in Job, Equipped(job),
         jobs' = [jobs EXCEPT ![p] = job], versions' = versions,
         job.at \in BuildPlaces => jobs[p].at \in BuildPlaces /\ job.id = jobs[p].id
  PROVE  Ledger'
<1>1. jobs' \in [Processes -> Job] /\ jobs'[p] = job
  BY DEF Ledger, JobParts
<1>2. \A q \in Processes \ {p} : jobs'[q] = jobs[q]
  BY DEF Ledger, JobParts
<1>3. AllEquipped'
  BY <1>1, <1>2 DEF Ledger, JobParts, AllEquipped, Equipped
<1>4. BuiltByOne'
  BY <1>1, <1>2 DEF Ledger, JobParts, BuiltByOne
<1>5. MonthsKnown'
  BY DEF Ledger, MonthsKnown
<1> QED
  BY <1>1, <1>3, <1>4, <1>5 DEF Ledger, JobParts

LEMMA BuildMoves ==
  ASSUME Ledger, NEW p \in Processes, NEW job \in Job, Equipped(job),
         NEW version \in Version,
         jobs[p].at \in BuildPlaces,
         jobs' = [jobs EXCEPT ![p] = job],
         versions' = [versions EXCEPT ![jobs[p].id] = version],
         version.month = versions[jobs[p].id].month,
         version.status # "unused",
         job.at \in BuildPlaces => job.id = jobs[p].id /\ version.status = "building"
  PROVE  Ledger'
<1>1. jobs' \in [Processes -> Job] /\ jobs'[p] = job
  BY DEF Ledger, JobParts
<1>2. \A q \in Processes \ {p} : jobs'[q] = jobs[q]
  BY DEF Ledger, JobParts
<1>3. jobs[p].id \in Ids /\ versions[jobs[p].id].status = "building"
  BY DEF Ledger, JobParts, AllEquipped, Equipped, BuiltByOne, VersionPlaces
<1>4. versions' \in [Ids -> Version] /\ versions'[jobs[p].id] = version
  BY <1>3 DEF Ledger
<1>5. \A v \in Ids \ {jobs[p].id} : versions'[v] = versions[v]
  BY <1>3 DEF Ledger
<1>6. AllEquipped'
  BY <1>1, <1>2 DEF Ledger, JobParts, AllEquipped, Equipped
<1>7. \A q \in Processes \ {p} :
        jobs[q].at \in BuildPlaces => jobs[q].id \in Ids /\ jobs[q].id # jobs[p].id
  BY DEF Ledger, JobParts, AllEquipped, Equipped, BuiltByOne, VersionPlaces
<1>8. BuiltByOne'
  BY <1>1, <1>2, <1>4, <1>5, <1>7 DEF Ledger, JobParts, BuiltByOne
<1>9. MonthsKnown'
  BY <1>3, <1>4, <1>5 DEF Ledger, MonthsKnown
<1> QED
  BY <1>1, <1>4, <1>6, <1>8, <1>9 DEF Ledger, JobParts

(* A switch only retires active versions and activates a candidate.         *)
LEMMA SwitchedVersions ==
  ASSUME Ledger, NEW id \in Ids, NEW gone \in SUBSET Ids
  PROVE  /\ Switched(id, gone) \in [Ids -> Version]
         /\ \A v \in Ids :
              LET after == Switched(id, gone)[v]
              IN  /\ after.month = versions[v].month
                  /\ after.tools = versions[v].tools
                  /\ \/ after = versions[v]
                     \/ v \in gone \cap Active /\ after.status = "retired"
                     \/ v = id /\ Activates(id, gone) /\ after.status = "active"
<1>1. \A v \in Ids : versions[v] \in Version
  BY DEF Ledger
<1>2. \A v \in Ids : [versions[v] EXCEPT !.status = "retired"] \in Version
  BY <1>1 DEF Version, Statuses
<1>3. \A v \in Ids : [versions[v] EXCEPT !.status = "active"] \in Version
  BY <1>1 DEF Version, Statuses
<1>4. Switched(id, gone) \in [Ids -> Version]
  BY <1>1, <1>2, <1>3 DEF Switched
<1>5. ASSUME NEW v \in Ids
      PROVE  LET after == Switched(id, gone)[v]
             IN  /\ after.month = versions[v].month
                 /\ after.tools = versions[v].tools
                 /\ \/ after = versions[v]
                    \/ v \in gone \cap Active /\ after.status = "retired"
                    \/ v = id /\ Activates(id, gone) /\ after.status = "active"
  BY <1>1, <1>5 DEF Switched, Version
<1> QED
  BY <1>4, <1>5

LEMMA SwitchMoves ==
  ASSUME Ledger, NEW p \in Processes, NEW id \in Ids, NEW gone \in SUBSET Ids,
         jobs' = [jobs EXCEPT ![p] = Idle], versions' = Switched(id, gone)
  PROVE  Ledger'
<1>1. jobs' \in [Processes -> Job] /\ jobs'[p] = Idle
  BY IdleTyped DEF Ledger, JobParts
<1>2. \A q \in Processes \ {p} : jobs'[q] = jobs[q]
  BY DEF Ledger, JobParts
<1>3. AllEquipped'
  BY <1>1, <1>2, IdleTyped DEF Ledger, JobParts, AllEquipped, Equipped
<1>4. \A v \in Ids : /\ versions'[v].month = versions[v].month
                     /\ versions[v].status \notin {"active", "candidate"}
                          => versions'[v].status = versions[v].status
                     /\ versions[v].status # "unused" \/ versions'[v].status = "unused"
  BY SwitchedVersions DEF Activates, Current, Active
<1>5. \A q \in Processes : jobs[q].at \in BuildPlaces => jobs[q].id \in Ids
  BY DEF Ledger, JobParts, AllEquipped, Equipped, VersionPlaces
<1>6. BuiltByOne'
  BY <1>1, <1>2, <1>4, <1>5, IdleTyped DEF Ledger, JobParts, BuiltByOne, VersionPlaces
<1>7. MonthsKnown'
  BY <1>4 DEF Ledger, MonthsKnown
<1> QED
  BY <1>1, <1>3, <1>6, <1>7, SwitchedVersions DEF Ledger, JobParts

-----------------------------------------------------------------------------
(* One lemma per group of actions.                                          *)

LEMMA JobOf ==
  ASSUME Ledger, NEW p \in Processes
  PROVE  jobs[p] \in Job /\ Equipped(jobs[p])
  BY DEF Ledger, JobParts, AllEquipped

LEMMA StopMoves ==
  ASSUME Ledger, NEW p \in Processes, Stops(p), versions' = versions
  PROVE  Ledger'
<1>1. jobs' = [jobs EXCEPT ![p] = Idle]
  BY DEF Stops, Goes
<1>2. Idle.at \notin BuildPlaces
  BY IdleTyped DEF VersionPlaces
<1> QED
  BY <1>1, <1>2, IdleTyped, JobMoves

LEMMA ChoosingMoves ==
  ASSUME IInv, NEW p \in Processes, ListMonths(p) \/ CheckMonth(p)
  PROVE  Ledger'
<1>1. Ledger
  BY DEF IInv, TypeOK, Ledger, JobParts
<1>2. CASE ListMonths(p)
  <2>1. CASE Stops(p)
    BY <1>1, <1>2, <2>1, StopMoves DEF ListMonths
  <2>2. CASE Goes(p, [Idle EXCEPT !.at = "checking", !.months = Newer])
    <3> DEFINE job == [Idle EXCEPT !.at = "checking", !.months = Newer]
    <3>1. Newer \in SUBSET Months
      BY DEF Newer, IInv, TypeOK
    <3>2. job \in Job /\ job.at = "checking"
      BY <3>1, IdleTyped DEF Idle, Job, Places
    <3>3. Equipped(job) /\ job.at \notin BuildPlaces
      BY <3>2 DEF Equipped, VersionPlaces, BuildPlaces
    <3>4. jobs' = [jobs EXCEPT ![p] = job] /\ versions' = versions
      BY <1>2, <2>2 DEF ListMonths, Goes
    <3> HIDE DEF job
    <3> QED
      BY <1>1, <3>2, <3>3, <3>4, JobMoves
  <2> QED
    BY <1>2, <2>1, <2>2 DEF ListMonths
<1>3. CASE CheckMonth(p)
  <2>1. PICK month \in jobs[p].months :
          \/ Goes(p, [Idle EXCEPT !.at = "starting", !.month = month, !.inputs = Inputs(month)])
          \/ Stops(p)
          \/ Goes(p, [jobs[p] EXCEPT !.months = jobs[p].months \ {month}])
    BY <1>3 DEF CheckMonth
  <2>2. month \in Months /\ jobs[p].months \in SUBSET Months /\ jobs[p].at = "checking"
    BY <1>1, <1>3, JobOf DEF Job, CheckMonth
  <2>3. versions' = versions
    BY <1>3 DEF CheckMonth
  <2>4. CASE Stops(p)
    BY <1>1, <2>3, <2>4, StopMoves
  <2>5. CASE Goes(p, [Idle EXCEPT !.at = "starting", !.month = month, !.inputs = Inputs(month)])
    <3> DEFINE job == [Idle EXCEPT !.at = "starting", !.month = month, !.inputs = Inputs(month)]
    <3>1. Inputs(month) \in Reading
      BY <2>2, InputsTyped DEF IInv
    <3>2. job \in Job /\ job.at = "starting" /\ job.month = month
      BY <2>2, <3>1, IdleTyped DEF Idle, Job, Places
    <3>3. Equipped(job) /\ job.at \notin BuildPlaces
      BY <2>2, <3>2 DEF Equipped, VersionPlaces, BuildPlaces
    <3>4. jobs' = [jobs EXCEPT ![p] = job]
      BY <2>5 DEF Goes
    <3> HIDE DEF job
    <3> QED
      BY <1>1, <2>3, <3>2, <3>3, <3>4, JobMoves
  <2>6. CASE Goes(p, [jobs[p] EXCEPT !.months = jobs[p].months \ {month}])
    <3> DEFINE job == [jobs[p] EXCEPT !.months = jobs[p].months \ {month}]
    <3>1. job \in Job /\ job.at = "checking"
      BY <1>1, <2>2, JobOf DEF Job
    <3>2. Equipped(job) /\ job.at \notin BuildPlaces
      BY <3>1 DEF Equipped, VersionPlaces, BuildPlaces
    <3>3. jobs' = [jobs EXCEPT ![p] = job]
      BY <2>6 DEF Goes
    <3> HIDE DEF job
    <3> QED
      BY <1>1, <2>3, <3>1, <3>2, <3>3, JobMoves
  <2> QED
    BY <2>1, <2>4, <2>5, <2>6
<1> QED
  BY <1>2, <1>3

LEMMA ByHandMoves ==
  ASSUME Ledger, NEW o \in Processes,
         \/ \E m \in Months : BuildByHand(o, m)
         \/ \E id \in Ids : ActivateByHand(o, id)
  PROVE  Ledger'
<1>1. CASE \E m \in Months : BuildByHand(o, m)
  <2>1. PICK m \in Months : BuildByHand(o, m)
    BY <1>1
  <2> DEFINE job == [Idle EXCEPT !.at = "starting", !.month = m]
  <2>2. job \in Job /\ job.at = "starting" /\ job.month = m
    BY IdleTyped DEF Idle, Job, Places
  <2>3. Equipped(job) /\ job.at \notin BuildPlaces
    BY <2>2 DEF Equipped, VersionPlaces, BuildPlaces
  <2>4. jobs' = [jobs EXCEPT ![o] = job] /\ versions' = versions
    BY <2>1 DEF BuildByHand, Goes
  <2> HIDE DEF job
  <2> QED
    BY <2>2, <2>3, <2>4, JobMoves
<1>2. CASE \E id \in Ids : ActivateByHand(o, id)
  <2>1. PICK id \in Ids : ActivateByHand(o, id)
    BY <1>2
  <2> DEFINE job == [Idle EXCEPT !.at = "gating", !.id = id]
  <2>2. job \in Job /\ job.at = "gating" /\ job.id = id
    BY IdleTyped DEF Idle, Job, Places
  <2>3. Equipped(job) /\ job.at \notin BuildPlaces
    BY <2>2 DEF Equipped, VersionPlaces, BuildPlaces
  <2>4. jobs' = [jobs EXCEPT ![o] = job] /\ versions' = versions
    BY <2>1 DEF ActivateByHand, Goes
  <2> HIDE DEF job
  <2> QED
    BY <2>2, <2>3, <2>4, JobMoves
<1> QED
  BY <1>1, <1>2

(* A step that only moves a job on keeps its version.                       *)
LEMMA GoesOn ==
  ASSUME Ledger, NEW p \in Processes, NEW place \in VersionPlaces,
         jobs[p].at \in VersionPlaces,
         place \in BuildPlaces => jobs[p].at \in BuildPlaces,
         place # "committing"
  PROVE  LET job == [jobs[p] EXCEPT !.at = place]
         IN  /\ job \in Job /\ Equipped(job) /\ job.at = place
             /\ job.id = jobs[p].id
<1> DEFINE job == [jobs[p] EXCEPT !.at = place]
<1>1. jobs[p] \in Job /\ Equipped(jobs[p])
  BY JobOf
<1>2. job \in Job /\ job.at = place /\ job.id = jobs[p].id /\ job.month = jobs[p].month
  BY <1>1 DEF Job, Places, VersionPlaces, BuildPlaces
<1>3. Equipped(job)
  BY <1>1, <1>2 DEF Equipped, BuildPlaces, VersionPlaces
<1> QED
  BY <1>2, <1>3

LEMMA CheckingMoves ==
  ASSUME IInv, NEW p \in Processes,
         SelectTools(p) \/ Recheck(p) \/ Gate(p) \/ SwitchFirst(p) \/ Crash(p)
  PROVE  Ledger'
<1>1. Ledger
  BY DEF IInv, TypeOK, Ledger, JobParts
<1>2. jobs[p] \in Job /\ Equipped(jobs[p])
  BY <1>1, JobOf
<1>3. versions' = versions
  BY DEF SelectTools, Recheck, Gate, SwitchFirst, Crash
<1>4. CASE Stops(p)
  BY <1>1, <1>3, <1>4, StopMoves
<1>5. CASE SelectTools(p)
  <2> DEFINE job == [jobs[p] EXCEPT !.at = "paging", !.ids = visible]
  <2>1. jobs[p].at = "selecting" /\ jobs' = [jobs EXCEPT ![p] = job]
    BY <1>5 DEF SelectTools, Goes
  <2>2. visible \in SUBSET Domains
    BY DEF IInv, TypeOK
  <2>3. job \in Job /\ job.at = "paging" /\ job.id = jobs[p].id
    BY <1>2, <2>2 DEF Job, Places
  <2>4. Equipped(job) /\ jobs[p].at \in BuildPlaces
    BY <1>2, <2>1, <2>3 DEF Equipped, VersionPlaces, BuildPlaces
  <2> HIDE DEF job
  <2> QED
    BY <1>1, <1>3, <2>1, <2>3, <2>4, JobMoves
<1>6. CASE Recheck(p) /\ Goes(p, [jobs[p] EXCEPT !.at = "gating"])
  <2> DEFINE job == [jobs[p] EXCEPT !.at = "gating"]
  <2>1. jobs[p].at = "rechecking" /\ jobs' = [jobs EXCEPT ![p] = job]
    BY <1>6 DEF Recheck, Goes
  <2>2. job \in Job /\ Equipped(job) /\ job.at = "gating"
    BY <1>1, <2>1, GoesOn DEF VersionPlaces, BuildPlaces
  <2> HIDE DEF job
  <2> QED
    BY <1>1, <1>3, <2>1, <2>2, JobMoves DEF BuildPlaces
<1>7. CASE Gate(p) /\ Goes(p, [jobs[p] EXCEPT !.at = "switching"])
  <2> DEFINE job == [jobs[p] EXCEPT !.at = "switching"]
  <2>1. jobs[p].at = "gating" /\ jobs' = [jobs EXCEPT ![p] = job]
    BY <1>7 DEF Gate, Goes
  <2>2. job \in Job /\ Equipped(job) /\ job.at = "switching"
    BY <1>1, <2>1, GoesOn DEF VersionPlaces, BuildPlaces
  <2> HIDE DEF job
  <2> QED
    BY <1>1, <1>3, <2>1, <2>2, JobMoves DEF BuildPlaces
<1>8. CASE SwitchFirst(p)
  <2> DEFINE job == [jobs[p] EXCEPT !.at = "committing", !.retiring = Retires(jobs[p].id)]
  <2>1. /\ jobs[p].at = "switching" /\ Isolation = "read_committed"
        /\ jobs' = [jobs EXCEPT ![p] = job]
    BY <1>8 DEF SwitchFirst, Goes
  <2>2. Retires(jobs[p].id) \in SUBSET Ids
    BY DEF Retires, Active
  <2>3. job \in Job /\ job.at = "committing" /\ job.id = jobs[p].id
    BY <1>2, <2>2 DEF Job, Places
  <2>4. Equipped(job) /\ job.at \notin BuildPlaces
    BY <1>2, <2>1, <2>3 DEF Equipped, VersionPlaces, BuildPlaces
  <2> HIDE DEF job
  <2> QED
    BY <1>1, <1>3, <2>1, <2>3, <2>4, JobMoves
<1> QED
  BY <1>4, <1>5, <1>6, <1>7, <1>8 DEF Recheck, Gate, Crash

-----------------------------------------------------------------------------
(* The steps of a build, and what they leave of what is served.             *)

LEMMA SameServed ==
  ASSUME Active' = Active, \A v \in Active : versions'[v].month = versions[v].month
  PROVE  ServedMonth' = ServedMonth
<1>1. {versions'[v].month : v \in Active'} = {versions[v].month : v \in Active}
  OBVIOUS
<1> QED
  BY <1>1 DEF ServedMonth

LEMMA BuildServes ==
  ASSUME Ledger, NEW p \in Processes, jobs[p].at \in BuildPlaces,
         NEW version \in Version, version.status # "active",
         versions' = [versions EXCEPT ![jobs[p].id] = version]
  PROVE  Active' = Active /\ ServedMonth' = ServedMonth
<1>1. jobs[p].id \in Ids /\ versions[jobs[p].id].status = "building"
  BY DEF Ledger, JobParts, AllEquipped, Equipped, BuiltByOne, VersionPlaces
<1>2. \A v \in Ids : IF v = jobs[p].id THEN versions'[v] = version
                     ELSE versions'[v] = versions[v]
  BY <1>1 DEF Ledger
<1>3. Active' = Active
  BY <1>1, <1>2 DEF Active
<1>4. \A v \in Active : versions'[v].month = versions[v].month
  BY <1>1, <1>2 DEF Active
<1> QED
  BY <1>3, <1>4, SameServed

LEMMA StartMoves ==
  ASSUME IInv, NEW p \in Processes, StartBuild(p)
  PROVE  Ledger' /\ Active' = Active /\ ServedMonth' = ServedMonth
<1>1. Ledger
  BY DEF IInv, TypeOK, Ledger, JobParts
<1>2. PICK id \in Ids :
        /\ versions[id].status = "unused"
        /\ versions' = [versions EXCEPT ![id] =
             [Unused EXCEPT !.status = "building", !.month = jobs[p].month, !.revision = revision]]
        /\ jobs' = [jobs EXCEPT ![p] = [jobs[p] EXCEPT !.at = "selecting", !.id = id]]
  BY DEF StartBuild, Goes
<1> DEFINE version == [Unused EXCEPT !.status = "building", !.month = jobs[p].month,
                                     !.revision = revision]
           job == [jobs[p] EXCEPT !.at = "selecting", !.id = id]
<1>3. jobs[p] \in Job /\ jobs[p].at = "starting" /\ jobs[p].month \in Months
  BY <1>1, JobOf DEF StartBuild, Equipped
<1>4. revision \in Nat
  BY DEF IInv, TypeOK
<1>5. version \in Version /\ version.status = "building" /\ version.month \in Months
  BY <1>3, <1>4, UnusedTyped DEF Unused, Version, Statuses
<1>6. job \in Job /\ job.at = "selecting" /\ job.id = id
  BY <1>3 DEF Job, Places
<1>7. Equipped(job)
  <2>1. job.month = jobs[p].month
    BY <1>3 DEF Job
  <2> QED
    BY <1>3, <1>6, <2>1 DEF Equipped
<1>8. versions' = [versions EXCEPT ![id] = version] /\ jobs' = [jobs EXCEPT ![p] = job]
  BY <1>2
<1> HIDE DEF version, job
<1>9. versions' \in [Ids -> Version] /\ versions'[id] = version
  BY <1>1, <1>5, <1>8 DEF Ledger
<1>10. \A v \in Ids \ {id} : versions'[v] = versions[v]
  BY <1>1, <1>8 DEF Ledger
<1>11. jobs' \in [Processes -> Job] /\ jobs'[p] = job
  BY <1>1, <1>6, <1>8 DEF Ledger, JobParts
<1>12. \A q \in Processes \ {p} : jobs'[q] = jobs[q]
  BY <1>1, <1>8 DEF Ledger, JobParts
<1>13. AllEquipped'
  BY <1>1, <1>7, <1>11, <1>12 DEF Ledger, JobParts, AllEquipped, Equipped
<1>14. \A q \in Processes \ {p} :
         jobs[q].at \in BuildPlaces => jobs[q].id \in Ids /\ jobs[q].id # id
  BY <1>1, <1>2 DEF Ledger, JobParts, AllEquipped, Equipped, BuiltByOne, VersionPlaces
<1>15. BuiltByOne'
  BY <1>1, <1>5, <1>6, <1>9, <1>10, <1>11, <1>12, <1>14
     DEF Ledger, JobParts, BuiltByOne
<1>16. MonthsKnown'
  BY <1>1, <1>5, <1>9, <1>10 DEF Ledger, MonthsKnown
<1>17. Active' = Active
  BY <1>2, <1>5, <1>9, <1>10 DEF Active
<1>18. ServedMonth' = ServedMonth
  BY <1>2, <1>10, <1>17, SameServed DEF Active
<1> QED
  BY <1>9, <1>11, <1>13, <1>15, <1>16, <1>17, <1>18 DEF Ledger, JobParts

LEMMA CopyMoves ==
  ASSUME IInv, NEW p \in Processes, CopyPage(p)
  PROVE  Ledger' /\ Active' = Active /\ ServedMonth' = ServedMonth
<1>1. Ledger
  BY DEF IInv, TypeOK, Ledger, JobParts
<1>2. jobs[p] \in Job /\ Equipped(jobs[p]) /\ jobs[p].at = "paging"
  BY <1>1, JobOf DEF CopyPage
<1>3. jobs[p].id \in Ids /\ versions[jobs[p].id].status = "building"
  BY <1>1, <1>2 DEF Ledger, JobParts, BuiltByOne, Equipped, VersionPlaces, BuildPlaces
<1>4. versions[jobs[p].id] \in Version /\ versions[jobs[p].id].month \in Months
  BY <1>1, <1>3 DEF Ledger, MonthsKnown
<1> DEFINE old == versions[jobs[p].id]
           page(last) == {d \in visible : jobs[p].upto < d /\ d <= last}
           visits(last) == [d \in Domains |->
             IF d \in page(last) THEN Measure(d, jobs[p].month) ELSE old.visits[d]]
           version(last) == [old EXCEPT !.tools = old.tools \cup page(last),
                                        !.visits = visits(last)]
           job(last) == [jobs[p] EXCEPT !.upto = last]
<1>5. PICK last \in ToCopy(jobs[p]) :
        /\ versions' = [versions EXCEPT ![jobs[p].id] = version(last)]
        /\ jobs' = [jobs EXCEPT ![p] = job(last)]
  BY DEF CopyPage, Goes
<1>6. page(last) \in SUBSET Domains
  BY DEF IInv, TypeOK
<1>7. \A d \in Domains : Measure(d, jobs[p].month) \in Nat
  <2>1. TypeOK
    BY DEF IInv
  <2>2. jobs[p].month \in Months
    BY <1>2 DEF Equipped, BuildPlaces
  <2> QED
    BY <2>1, <2>2, MeasureTyped DEF TypeOK
<1>8. visits(last) \in [Domains -> Nat]
  BY <1>4, <1>7 DEF Version
<1>9. /\ version(last) \in Version
      /\ version(last).month = old.month /\ version(last).status = "building"
  BY <1>3, <1>4, <1>6, <1>8 DEF Version
<1>10. job(last) \in Job /\ job(last).at = "paging" /\ job(last).id = jobs[p].id
  <2>1. last \in Domains
    BY <1>2 DEF ToCopy, Job
  <2> QED
    BY <1>2, <2>1 DEF Job
<1>11. Equipped(job(last))
  BY <1>2, <1>10 DEF Equipped
<1> HIDE DEF version, job
<1>12. jobs[p].at \in BuildPlaces
  BY <1>2 DEF BuildPlaces
<1>13. Ledger'
  BY <1>1, <1>5, <1>9, <1>10, <1>11, <1>12, BuildMoves
<1> QED
  BY <1>1, <1>5, <1>9, <1>12, <1>13, BuildServes

LEMMA EndMoves ==
  ASSUME IInv, NEW p \in Processes, RollUp(p) \/ FinishBuild(p) \/ FailBuild(p)
  PROVE  Ledger' /\ Active' = Active /\ ServedMonth' = ServedMonth
<1>1. Ledger
  BY DEF IInv, TypeOK, Ledger, JobParts
<1>2. jobs[p] \in Job /\ Equipped(jobs[p]) /\ jobs[p].at \in BuildPlaces
  BY <1>1, JobOf DEF RollUp, FinishBuild, FailBuild, BuildPlaces
<1>3. jobs[p].id \in Ids /\ versions[jobs[p].id].status = "building"
  BY <1>1, <1>2 DEF Ledger, JobParts, BuiltByOne, Equipped, VersionPlaces
<1> DEFINE old == versions[jobs[p].id]
<1>4. old \in Version
  BY <1>1, <1>3 DEF Ledger
<1>5. CASE RollUp(p)
  <2> DEFINE count == IF old.revision = revision
                      THEN Cardinality(old.tools \cap visible) ELSE 0
             version == [old EXCEPT !.rollup = count]
             job == [jobs[p] EXCEPT !.at = "validating"]
  <2>1. /\ versions' = [versions EXCEPT ![jobs[p].id] = version]
        /\ jobs' = [jobs EXCEPT ![p] = job]
    BY <1>5 DEF RollUp, Goes
  <2>2. count \in Nat
    <3>1. old.tools \cap visible \in SUBSET Domains
      BY <1>4 DEF Version
    <3> QED
      BY <3>1, CountIsNat
  <2> HIDE DEF count
  <2>3. version \in Version /\ version.month = old.month /\ version.status = "building"
    BY <1>3, <1>4, <2>2 DEF Version
  <2>4. job \in Job /\ Equipped(job) /\ job.at = "validating" /\ job.id = jobs[p].id
    BY <1>1, <1>2, GoesOn DEF VersionPlaces, BuildPlaces
  <2> HIDE DEF version, job
  <2>5. Ledger'
    BY <1>1, <1>2, <2>1, <2>3, <2>4, BuildMoves
  <2> QED
    BY <1>1, <1>2, <2>1, <2>3, <2>5, BuildServes
<1>6. ASSUME NEW job \in Job, Equipped(job), job.at \notin BuildPlaces,
             NEW status \in {"candidate", "failed"},
             versions' = Marked(jobs[p].id, status), jobs' = [jobs EXCEPT ![p] = job]
      PROVE  Ledger' /\ Active' = Active /\ ServedMonth' = ServedMonth
  <2> DEFINE version == [old EXCEPT !.status = status]
  <2>1. versions' = [versions EXCEPT ![jobs[p].id] = version]
    BY <1>6 DEF Marked
  <2>2. version \in Version /\ version.month = old.month /\ version.status = status
    BY <1>4, <1>6 DEF Version, Statuses
  <2> HIDE DEF version
  <2>3. version.status # "active" /\ version.status # "unused"
    BY <1>6, <2>2
  <2>4. Ledger'
    BY <1>1, <1>2, <1>6, <2>1, <2>2, <2>3, BuildMoves
  <2> QED
    BY <1>1, <1>2, <2>1, <2>2, <2>3, <2>4, BuildServes
<1>7. Idle \in Job /\ Equipped(Idle) /\ Idle.at \notin BuildPlaces
  BY IdleTyped DEF VersionPlaces
<1>8. CASE FinishBuild(p)
  <2>1. versions' = Marked(jobs[p].id, "candidate")
    BY <1>8 DEF FinishBuild
  <2>2. PICK place \in {"rechecking", "gating"} :
          Goes(p, [jobs[p] EXCEPT !.at = place]) \/ Stops(p)
    BY <1>8 DEF FinishBuild
  <2>3. CASE Goes(p, [jobs[p] EXCEPT !.at = place])
    <3> DEFINE job == [jobs[p] EXCEPT !.at = place]
    <3>1. job \in Job /\ Equipped(job) /\ job.at = place
      BY <1>1, <1>2, GoesOn DEF VersionPlaces, BuildPlaces
    <3>2. job.at \notin BuildPlaces
      BY <3>1 DEF BuildPlaces
    <3>3. jobs' = [jobs EXCEPT ![p] = job]
      BY <2>3 DEF Goes
    <3> HIDE DEF job
    <3> QED
      BY <1>6, <2>1, <3>1, <3>2, <3>3
  <2>4. CASE Stops(p)
    BY <1>6, <1>7, <2>1, <2>4 DEF Stops, Goes
  <2> QED
    BY <2>2, <2>3, <2>4
<1>9. CASE FailBuild(p)
  BY <1>6, <1>7, <1>9 DEF FailBuild, Stops, Goes
<1> QED
  BY <1>5, <1>8, <1>9

-----------------------------------------------------------------------------
(* The switch.                                                              *)

LEMMA SwitchingMoves ==
  ASSUME IInv, NEW p \in Processes, Switch(p) \/ SwitchSecond(p)
  PROVE  Ledger'
<1>1. Ledger
  BY DEF IInv, TypeOK, Ledger, JobParts
<1>2. jobs[p] \in Job /\ jobs[p].id \in Ids
  BY <1>1, JobOf DEF Switch, SwitchSecond, Equipped, VersionPlaces
<1>3. jobs' = [jobs EXCEPT ![p] = Idle]
  BY DEF Switch, SwitchSecond, Stops, Goes
<1>4. Retires(jobs[p].id) \in SUBSET Ids /\ jobs[p].retiring \in SUBSET Ids
  BY <1>2 DEF Retires, Active, Job
<1>5. CASE Switch(p)
  BY <1>1, <1>2, <1>3, <1>4, <1>5, SwitchMoves DEF Switch
<1>6. CASE SwitchSecond(p)
  BY <1>1, <1>2, <1>3, <1>4, <1>6, SwitchMoves DEF SwitchSecond
<1> QED
  BY <1>5, <1>6

LEMMA EnvironmentTyped ==
  ASSUME TypeOK, Environment
  PROVE  TypeOK' /\ versions' = versions /\ jobs' = jobs
<1>1. versions' = versions /\ jobs' = jobs
  BY DEF Environment, ReceiveRows, EditCatalog, OpenTask, SettleTask, Release
<1>2. ASSUME NEW d \in Domains, ReceiveRows(d)
      PROVE  TypeOK'
  <2>1. writes' \in [Keys -> Nat]
    BY <1>2 DEF ReceiveRows, TypeOK
  <2>2. progress' = progress
    BY <1>2 DEF ReceiveRows, Collection!Receive
  <2> QED
    BY <1>1, <1>2, <2>1, <2>2 DEF ReceiveRows, TypeOK, catalog
<1>3. ASSUME NEW d \in Domains, EditCatalog(d)
      PROVE  TypeOK'
  BY <1>1, <1>3 DEF EditCatalog, TypeOK, sources
<1>4. ASSUME NEW k \in Keys, OpenTask(k)
      PROVE  TypeOK'
  <2>1. progress' \in [Keys -> Collection!Progress]
    BY <1>4 DEF OpenTask, TypeOK, Collection!Open, Collection!Progress
  <2>2. opens' \in [Keys -> Nat]
    BY <1>4 DEF OpenTask, TypeOK
  <2> QED
    BY <1>1, <1>4, <2>1, <2>2 DEF OpenTask, TypeOK, catalog
<1>5. ASSUME NEW k \in Keys, NEW outcome \in Collection!Outcomes, SettleTask(k, outcome)
      PROVE  TypeOK'
  <2>1. progress' \in [Keys -> Collection!Progress]
    BY <1>5 DEF SettleTask, TypeOK, Collection!Settle, Collection!Progress
  <2> QED
    BY <1>1, <1>5, <2>1 DEF SettleTask, TypeOK, catalog
<1>6. ASSUME NEW m \in Months, Release(m)
      PROVE  TypeOK'
  BY <1>1, <1>6 DEF Release, TypeOK, catalog
<1> QED
  BY <1>1, <1>2, <1>3, <1>4, <1>5, <1>6 DEF Environment

(* Every other step leaves what the environment owns alone.                 *)
ProcessStep ==
  \/ \E p \in Publishers : PublisherStep(p)
  \/ \E o \in Operators : OperatorStep(o)
  \/ \E p \in Processes : Crash(p)

LEMMA ProcessesLeave ==
  ASSUME ProcessStep
  PROVE  UNCHANGED <<sources, catalog>>
  BY DEF ProcessStep, PublisherStep, OperatorStep, Build, Activate, ListMonths, CheckMonth,
         StartBuild, SelectTools, CopyPage, RollUp, FinishBuild, FailBuild, Recheck, Gate,
         Switch, SwitchFirst, SwitchSecond, BuildByHand, ActivateByHand, Crash

(* The steps of one process, grouped as the lemmas above.                   *)
LEMMA ProcessCases ==
  ASSUME ProcessStep
  PROVE  \E p \in Processes :
           \/ ListMonths(p) \/ CheckMonth(p)
           \/ (\E m \in Months : BuildByHand(p, m)) \/ (\E id \in Ids : ActivateByHand(p, id))
           \/ StartBuild(p)
           \/ CopyPage(p)
           \/ RollUp(p) \/ FinishBuild(p) \/ FailBuild(p)
           \/ SelectTools(p) \/ Recheck(p) \/ Gate(p) \/ SwitchFirst(p) \/ Crash(p)
           \/ Switch(p) \/ SwitchSecond(p)
  BY DEF ProcessStep, PublisherStep, OperatorStep, Build, Activate, Processes

THEOREM Invariance == Spec => []IInv
<1>1. Init => IInv
  <2> SUFFICES ASSUME Init PROVE IInv
    OBVIOUS
  <2>1. versions \in [Ids -> Version] /\ \A v \in Ids : versions[v].status = "unused"
    BY UnusedTyped DEF Init, Unused
  <2>2. jobs \in [Processes -> Job] /\ \A p \in Processes : jobs[p] = Idle
    BY IdleTyped DEF Init
  <2>3. progress \in [Keys -> Collection!Progress]
    BY DEF Init, Collection!Init, Collection!Progress, Collection!Keys, Keys
  <2>4. TypeOK
    BY <2>1, <2>2, <2>3 DEF TypeOK, Init
  <2>5. AllEquipped
    BY <2>2, IdleTyped DEF AllEquipped
  <2>6. BuiltByOne
    BY <2>2, IdleTyped DEF BuiltByOne, VersionPlaces
  <2>7. MonthsKnown
    BY <2>1 DEF MonthsKnown
  <2> QED
    BY <2>4, <2>5, <2>6, <2>7 DEF IInv
<1>2. IInv /\ [Next]_vars => IInv'
  <2> SUFFICES ASSUME IInv, [Next]_vars PROVE IInv'
    OBVIOUS
  <2>1. Ledger
    BY DEF IInv, TypeOK, Ledger, JobParts
  <2>2. CASE Environment
    <3>1. TypeOK' /\ versions' = versions /\ jobs' = jobs
      BY <2>2, EnvironmentTyped DEF IInv
    <3> QED
      BY <3>1 DEF IInv, AllEquipped, BuiltByOne, MonthsKnown
  <2>3. CASE ProcessStep
    <3>1. Ledger'
      BY <2>1, <2>3, ProcessCases, ChoosingMoves, ByHandMoves, StartMoves, CopyMoves,
         EndMoves, CheckingMoves, SwitchingMoves
    <3>2. UNCHANGED <<sources, catalog>>
      BY <2>3, ProcessesLeave
    <3> QED
      BY <3>1, <3>2 DEF IInv, TypeOK, Ledger, JobParts, sources, catalog
  <2>4. CASE UNCHANGED vars
    BY <2>4 DEF vars, sources, catalog, IInv, TypeOK, AllEquipped, BuiltByOne, MonthsKnown
  <2> QED
    BY <2>2, <2>3, <2>4 DEF Next, ProcessStep
<1> QED
  BY <1>1, <1>2, PTL DEF Spec

(* Every variable has its type (market_snapshot_refresh.py,                 *)
(* workloads/market/snapshot.py).                                           *)
THEOREM TypeCorrect == Spec => []TypeOK
<1>1. IInv => TypeOK
  BY DEF IInv
<1> QED
  BY <1>1, Invariance, PTL

-----------------------------------------------------------------------------
(* What is served, when a batch is atomic.                                  *)

LEMMA ServedIsActive ==
  ASSUME NEW v \in Ids, Active = {v}, versions[v].month \in Nat
  PROVE  ServedMonth = versions[v].month
<1>1. {versions[w].month : w \in Active} = {versions[v].month}
  OBVIOUS
<1> QED
  BY <1>1, GreatestOfOne DEF ServedMonth

(* An atomic switch changes nothing, or replaces whatever was active by a   *)
(* version of the same month or a later one.                                *)
LEMMA SwitchServes ==
  ASSUME IInv, AtMostOneActive, NEW p \in Processes, Switch(p)
  PROVE  \/ Active' = Active /\ ServedMonth' = ServedMonth
         \/ \E v \in Ids, m \in Months :
              Active' = {v} /\ ServedMonth' = m /\ ServedMonth <= m
<1> DEFINE id == jobs[p].id
           gone == Retires(id)
<1>1. Ledger
  BY DEF IInv, TypeOK, Ledger, JobParts
<1>2. id \in Ids
  BY <1>1, JobOf DEF Switch, Equipped, VersionPlaces
<1>3. gone \in SUBSET Ids /\ gone \subseteq Active
  BY DEF Retires, Active
<1>4. versions' = Switched(id, gone)
  BY DEF Switch
<1>5. \A v \in Ids : versions[v].month \in Nat
  <2>1. \A v \in Ids : versions[v].month \in Months \cup {0}
    BY <1>1 DEF Ledger, Version
  <2>2. Months \cup {0} \subseteq Nat
    BY MonthsAreNumbered
  <2> QED
    BY <2>1, <2>2
<1>6. \A v \in Ids : versions[v].status = "active" => versions[v].month \in Months
  BY <1>1 DEF Ledger, MonthsKnown
<1>7. CASE ~Activates(id, gone)
  <2>1. gone = {}
    <3>1. CASE ~Current(id)
      BY <3>1 DEF Retires
    <3>2. CASE Current(id)
      <4>1. PICK w \in Active \ gone : ~(versions[w].month <= versions[id].month)
        BY <1>7, <3>2 DEF Activates
      <4>2. \A v \in Active : v = w
        BY <4>1 DEF AtMostOneActive
      <4> QED
        BY <1>3, <4>1, <4>2
    <3> QED
      BY <3>1, <3>2
  <2>2. \A v \in Ids : versions'[v] = versions[v]
    BY <1>4, <1>7, <2>1 DEF Switched
  <2>3. Active' = Active
    BY <2>2 DEF Active
  <2>4. \A v \in Active : versions'[v].month = versions[v].month
    BY <2>2 DEF Active
  <2> QED
    BY <2>3, <2>4, SameServed
<1>8. CASE Activates(id, gone)
  <2>1. Current(id) /\ versions[id].status = "candidate" /\ id \notin Active
    BY <1>8 DEF Activates, Current, Active
  <2>2. gone = Active
    <3>1. \A v \in Active : v \in gone
      BY <1>8, <2>1 DEF Activates, Retires
    <3> QED
      BY <1>3, <3>1
  <2>3. \A v \in Active : versions[v].month <= versions[id].month
    BY <2>2 DEF Retires
  <2>4. versions'[id].status = "active" /\ versions'[id].month = versions[id].month
    BY <1>1, <1>2, <1>4, <1>8, <2>1, <2>2 DEF Switched, Ledger, Version
  <2>5. \A v \in Ids \ {id} : versions'[v].status # "active"
    BY <1>1, <1>4, <2>2 DEF Switched, Ledger, Version, Active
  <2>6. Active' = {id}
    BY <1>2, <2>4, <2>5 DEF Active
  <2>7. versions[id].month \in Months
    BY <1>1, <1>2, <2>1 DEF Ledger, MonthsKnown
  <2>8. ServedMonth' = versions[id].month
    <3>1. {versions'[w].month : w \in Active'} = {versions[id].month}
      BY <2>4, <2>6
    <3> QED
      BY <1>2, <1>5, <2>6, <3>1, GreatestOfOne DEF ServedMonth
  <2>9. ServedMonth <= versions[id].month
    <3>1. CASE Active = {}
      BY <1>2, <1>5, <3>1 DEF ServedMonth
    <3>2. CASE Active # {}
      <4>1. PICK w \in Active : TRUE
        BY <3>2
      <4>2. w \in Ids /\ Active = {w}
        BY <4>1 DEF AtMostOneActive, Active
      <4> QED
        BY <1>5, <2>3, <4>1, <4>2, ServedIsActive
    <3> QED
      BY <3>1, <3>2
  <2> QED
    BY <1>2, <2>6, <2>7, <2>8, <2>9
<1> QED
  BY <1>7, <1>8

LEMMA StepServes ==
  ASSUME Isolation = "serial", IInv, AtMostOneActive, [Next]_vars
  PROVE  \/ Active' = Active /\ ServedMonth' = ServedMonth
         \/ \E v \in Ids, m \in Months :
              Active' = {v} /\ ServedMonth' = m /\ ServedMonth <= m
<1>1. Ledger
  BY DEF IInv, TypeOK, Ledger, JobParts
<1>2. CASE versions' = versions
  <2>1. Active' = Active /\ \A v \in Active : versions'[v].month = versions[v].month
    BY <1>2 DEF Active
  <2> QED
    BY <2>1, SameServed
<1>3. CASE Environment
  BY <1>2, <1>3, EnvironmentTyped DEF IInv
<1>4. CASE UNCHANGED vars
  BY <1>2, <1>4 DEF vars
<1>5. CASE ProcessStep
  <2>1. PICK p \in Processes :
          \/ versions' = versions
          \/ StartBuild(p) \/ CopyPage(p) \/ RollUp(p) \/ FinishBuild(p) \/ FailBuild(p)
          \/ Switch(p) \/ SwitchSecond(p)
    BY <1>5, ProcessCases
       DEF ListMonths, CheckMonth, BuildByHand, ActivateByHand, SelectTools, Recheck, Gate,
           SwitchFirst, Crash
  <2>2. CASE StartBuild(p) \/ CopyPage(p) \/ RollUp(p) \/ FinishBuild(p) \/ FailBuild(p)
    BY <2>2, StartMoves, CopyMoves, EndMoves
  <2>3. CASE Switch(p)
    BY <2>3, SwitchServes
  <2>4. ~SwitchSecond(p)
    BY <1>1, JobOf DEF SwitchSecond, Equipped
  <2> QED
    BY <1>2, <2>1, <2>2, <2>3, <2>4
<1> QED
  BY <1>3, <1>4, <1>5 DEF Next, ProcessStep

(* When a batch is atomic, no two versions are ever active, whoever builds  *)
(* and activates them (snapshot.py 664-709).                                *)
THEOREM SingleActive ==
  ASSUME Isolation = "serial"
  PROVE  Spec => []AtMostOneActive
<1>1. Init => AtMostOneActive
  BY DEF Init, AtMostOneActive, Active, Unused
<1>2. IInv /\ AtMostOneActive /\ [Next]_vars => AtMostOneActive'
  BY StepServes DEF AtMostOneActive
<1> QED
  BY <1>1, <1>2, Invariance, PTL DEF Spec

(* The month served never goes back and is never lost (README 403-405).     *)
THEOREM PublicationImplementsServing ==
  ASSUME Isolation = "serial"
  PROVE  Spec => ImplementsServing
<1>1. Init => Serving!Init
  <2>1. Init => Active = {}
    BY DEF Init, Active, Unused
  <2> QED
    BY <2>1 DEF Serving!Init, ServedMonth
<1>2. IInv /\ AtMostOneActive /\ [Next]_vars => [Serving!Next]_ServedMonth
  <2> SUFFICES ASSUME IInv, AtMostOneActive, [Next]_vars
               PROVE  [Serving!Next]_ServedMonth
    OBVIOUS
  <2>1. CASE ServedMonth' = ServedMonth
    BY <2>1
  <2>2. CASE \E m \in Months : ServedMonth' = m /\ ServedMonth <= m
    <3>1. PICK m \in Months : ServedMonth' = m /\ ServedMonth <= m
      BY <2>2
    <3>2. m >= ServedMonth
      BY <3>1
    <3> QED
      BY <3>1, <3>2 DEF Serving!Next, Serving!Publish
  <2> QED
    BY <2>1, <2>2, StepServes
<1> QED
  BY <1>1, <1>2, Invariance, SingleActive, PTL DEF Spec, ImplementsServing, Serving!Spec
-----------------------------------------------------------------------------
(* What a publisher remembers of the sources, when only publishers publish. *)
(* They share a lock, so that one job at a time is under way, whatever the  *)
(* isolation of a batch is.                                                 *)
PublishersAlone == Operators = {}

Solo == \A p, q \in Processes : jobs[p].at # "idle" /\ jobs[q].at # "idle" => p = q

(* What was read of a domain before the build is what is stored, and what   *)
(* was copied, as long as its row was not written again.                    *)
Known(p, entry) ==
  LET job == jobs[p]
      d == entry.domain
  IN  \A stamp \in entry.stamps : stamp[1] = job.month =>
        /\ stamp[2] <= writes[d, job.month]
        /\ stamp[2] = writes[d, job.month] =>
             /\ entry.visits = Measure(d, job.month)
             /\ job.at \in VersionPlaces /\ d \in versions[job.id].tools =>
                  versions[job.id].visits[d] = entry.visits

(* A tool that is served did not leave the catalog as long as the revision  *)
(* is the same; so it is selected, and copied when its page is.             *)
Stays(p, entry) ==
  LET job == jobs[p]
      d == entry.domain
  IN  job.inputs.revision = revision /\ (\E v \in Active : d \in versions[v].tools) =>
        /\ d \in visible
        /\ job.at = "paging" =>
             d \in job.ids /\ (d <= job.upto => d \in versions[job.id].tools)
        /\ job.at \in {"validating", "rechecking"} => d \in versions[job.id].tools

(* What is switched on is what was read.                                    *)
Confirmed(p, entry) ==
  LET version == versions[jobs[p].id]
      d == entry.domain
  IN  IF d \in version.tools
      THEN version.visits[d] = entry.visits
      ELSE \A v \in Active : d \notin versions[v].tools

ReadPlaces == {"starting", "rechecking"} \cup BuildPlaces
SwitchPlaces == {"gating", "switching", "committing"}

Reads(p) ==
  /\ jobs[p].at \in {"starting", "selecting"} => jobs[p].upto = 0
  /\ jobs[p].at \in ReadPlaces =>
       /\ jobs[p].month \in Months
       /\ jobs[p].inputs.revision <= revision
       /\ \A entry \in jobs[p].inputs.entries : Known(p, entry) /\ Stays(p, entry)
  /\ jobs[p].at \in SwitchPlaces =>
       \A entry \in jobs[p].inputs.entries : Confirmed(p, entry)

(* What a version shares with what is served is visible, as long as its     *)
(* revision is the current one.                                             *)
Sees(p) ==
  LET version == versions[jobs[p].id]
  IN  jobs[p].at \in VersionPlaces =>
        /\ version.revision <= revision
        /\ version.revision = revision =>
             \A v \in Active : versions[v].tools \cap version.tools \subseteq visible

(* What passed the gates covers what it would replace.                      *)
Beats(p) ==
  jobs[p].at \in {"switching", "committing"} =>
    \A v \in Active : Covers(versions[jobs[p].id], versions[v])

(* Between its two statements a switch leaves nothing that it outdates.     *)
Replacing(p) ==
  LET id == jobs[p].id
  IN  jobs[p].at = "committing" /\ Current(id) =>
        \A v \in Active \ {id} :
          v \in jobs[p].retiring \/ ~(versions[v].month <= versions[id].month)

Mine(p) == Reads(p) /\ Sees(p) /\ Beats(p) /\ Replacing(p)

PInv == AtMostOneActive /\ Solo /\ \A p \in Processes : Mine(p)

LEMMA IdleMine ==
  ASSUME NEW p, jobs[p].at \in {"idle", "checking"}
  PROVE  Mine(p)
BY DEF Mine, Reads, Sees, Beats, Replacing, ReadPlaces, SwitchPlaces, VersionPlaces, BuildPlaces

LEMMA IdleMineNext ==
  ASSUME NEW p, jobs'[p].at \in {"idle", "checking"}
  PROVE  Mine(p)'
BY DEF Mine, Reads, Sees, Beats, Replacing, ReadPlaces, SwitchPlaces, VersionPlaces, BuildPlaces

(* Of a step of one publisher only its own job matters.                     *)
LEMMA Alone ==
  ASSUME jobs \in [Processes -> Job], NEW p \in Processes, NEW job, Goes(p, job),
         \A q \in Processes \ {p} : jobs[q].at = "idle",
         AtMostOneActive', Mine(p)'
  PROVE  PInv'
<1>1. \A q \in Processes \ {p} : jobs'[q].at = "idle"
  BY DEF Goes
<1>2. Solo'
  BY <1>1 DEF Solo
<1>3. \A q \in Processes : Mine(q)'
  BY <1>1, IdleMineNext
<1> QED
  BY <1>2, <1>3 DEF PInv

LEMMA OthersIdle ==
  ASSUME Solo, NEW p \in Processes, jobs[p].at # "idle"
  PROVE  \A q \in Processes \ {p} : jobs[q].at = "idle"
BY DEF Solo

LEMMA SameActive ==
  ASSUME Active' = Active, AtMostOneActive
  PROVE  AtMostOneActive'
BY DEF AtMostOneActive

LEMMA StopsAlone ==
  ASSUME IInv, PInv, NEW p \in Processes, Stops(p),
         \A q \in Processes \ {p} : jobs[q].at = "idle", AtMostOneActive'
  PROVE  PInv'
<1>1. jobs \in [Processes -> Job] /\ Goes(p, Idle)
  BY DEF IInv, TypeOK, Stops
<1>2. jobs'[p].at = "idle"
  BY <1>1 DEF Goes, Idle
<1> QED
  BY <1>1, <1>2, IdleMineNext, Alone

-----------------------------------------------------------------------------
(* What the environment does meanwhile.                                     *)

(* A row that is not written again keeps what it holds.                     *)
LEMMA RowsWritten ==
  ASSUME IInv, NEW d \in Domains, ReceiveRows(d)
  PROVE  \A k \in Keys : /\ writes'[k] \in Nat /\ writes[k] <= writes'[k]
                         /\ writes'[k] = writes[k] => rows'[k] = rows[k]
<1>1. PICK touched \in SUBSET {k \in Keys : k[1] = d} :
        /\ \A k \in Keys \ touched : rows'[k] = rows[k]
        /\ writes' = [k \in Keys |-> IF k \in touched THEN writes[k] + 1 ELSE writes[k]]
  BY DEF ReceiveRows
<1>2. \A k \in Keys : writes[k] \in Nat
  BY DEF IInv, TypeOK
<1> QED
  BY <1>1, <1>2

LEMMA EntryOf ==
  ASSUME IInv, NEW p \in Processes, NEW entry \in jobs[p].inputs.entries
  PROVE  /\ entry.domain \in Domains /\ entry.visits \in Nat
         /\ \A stamp \in entry.stamps : stamp[1] \in Months /\ stamp[2] \in Nat
<1>1. jobs[p].inputs \in Reading
  BY DEF IInv, TypeOK, Job
<1>2. entry \in [domain: Domains, visits: Nat, status: Collection!Progress, opens: Nat,
                 stamps: SUBSET (Months \X Nat)]
  BY <1>1 DEF Reading
<1> QED
  BY <1>2

(* What was known of a row stays so, whether or not it is written again.    *)
LEMMA KnownStays ==
  ASSUME IInv, NEW p \in Processes, NEW entry \in jobs[p].inputs.entries, Known(p, entry),
         versions' = versions, jobs' = jobs, jobs[p].month \in Months,
         \A k \in Keys : /\ writes'[k] \in Nat /\ writes[k] <= writes'[k]
                         /\ writes'[k] = writes[k] => rows'[k] = rows[k]
  PROVE  Known(p, entry)'
<1> DEFINE job == jobs[p]
           d == entry.domain
           k == <<d, job.month>>
<1>1. k \in Keys /\ writes[k] \in Nat /\ \A stamp \in entry.stamps : stamp[2] \in Nat
  BY EntryOf DEF Keys, IInv, TypeOK
<1>2. ASSUME NEW stamp \in entry.stamps, stamp[1] = job.month
      PROVE  /\ stamp[2] <= writes'[k]
             /\ stamp[2] = writes'[k] => writes'[k] = writes[k] /\ stamp[2] = writes[k]
  <2>1. stamp[2] <= writes[k] /\ stamp[2] \in Nat
    BY <1>1, <1>2 DEF Known
  <2>2. writes[k] <= writes'[k] /\ writes'[k] \in Nat
    BY <1>1
  <2> HIDE DEF k
  <2> QED
    BY <1>1, <2>1, <2>2
<1>3. writes'[k] = writes[k] => Measure(d, job.month)' = Measure(d, job.month)
  BY <1>1 DEF Measure
<1>4. ASSUME NEW stamp \in entry.stamps, stamp[1] = job.month, stamp[2] = writes'[k]
      PROVE  /\ entry.visits = Measure(d, job.month)'
             /\ job.at \in VersionPlaces /\ d \in versions[job.id].tools =>
                  versions[job.id].visits[d] = entry.visits
  BY <1>2, <1>3, <1>4 DEF Known
<1> QED
  BY <1>2, <1>4 DEF Known

LEMMA SameVersions ==
  ASSUME versions' = versions
  PROVE  Active' = Active
BY DEF Active

LEMMA WritesKeep ==
  ASSUME IInv, PInv, versions' = versions, jobs' = jobs, UNCHANGED catalog,
         \A k \in Keys : /\ writes'[k] \in Nat /\ writes[k] <= writes'[k]
                         /\ writes'[k] = writes[k] => rows'[k] = rows[k]
  PROVE  PInv'
<1>1. Active' = Active /\ visible' = visible /\ revision' = revision
  BY SameVersions DEF catalog
<1>2. ASSUME NEW p \in Processes
      PROVE  Mine(p)'
  <2>1. Reads(p) /\ Sees(p) /\ Beats(p) /\ Replacing(p)
    BY DEF PInv, Mine
  <2>2. Sees(p)' /\ Beats(p)' /\ Replacing(p)'
    BY <1>1, <2>1 DEF Sees, Beats, Replacing, Covers, Measured, Current
  <2>3. \A entry : Stays(p, entry) => Stays(p, entry)'
    BY <1>1 DEF Stays
  <2>4. \A entry : Confirmed(p, entry) => Confirmed(p, entry)'
    BY <1>1 DEF Confirmed
  <2>5. jobs[p].at \in ReadPlaces => \A entry \in jobs[p].inputs.entries : Known(p, entry)'
    BY <2>1, KnownStays DEF Reads
  <2>6. Reads(p)'
    BY <1>1, <2>1, <2>3, <2>4, <2>5 DEF Reads
  <2> QED
    BY <2>2, <2>6 DEF Mine
<1> QED
  BY <1>1, <1>2, SameActive DEF PInv, Solo

(* A change of the catalog is counted when it is of a tool that is served.  *)
LEMMA EditKeeps ==
  ASSUME IInv, PInv, NEW d \in Domains, EditCatalog(d)
  PROVE  PInv'
<1>1. /\ versions' = versions /\ jobs' = jobs /\ Active' = Active
      /\ writes' = writes /\ rows' = rows
  BY SameVersions DEF EditCatalog, sources
<1>2. /\ revision \in Nat /\ revision' \in Nat /\ revision <= revision'
      /\ \A v \in Active : d \in versions[v].tools => revision < revision'
  BY DEF EditCatalog, IInv, TypeOK
<1>3. \A e : e # d /\ e \in visible => e \in visible'
  BY DEF EditCatalog
<1>4. ASSUME NEW p \in Processes
      PROVE  Mine(p)'
  <2>1. Reads(p) /\ Sees(p) /\ Beats(p) /\ Replacing(p)
    BY DEF PInv, Mine
  <2>2. /\ jobs[p].inputs.revision \in Nat
        /\ jobs[p].at \in VersionPlaces => jobs[p].id \in Ids /\ versions[jobs[p].id].revision \in Nat
    BY DEF IInv, TypeOK, AllEquipped, Equipped, Job, Reading, Version
  <2>3. Beats(p)'
    BY <1>1, <2>1 DEF Beats, Covers, Measured
  <2>4. Replacing(p)'
    <3>1. jobs[p].at = "committing" /\ Current(jobs[p].id)' => Current(jobs[p].id)
      BY <1>1, <1>2, <2>1, <2>2 DEF Current, Sees, VersionPlaces
    <3> QED
      BY <1>1, <2>1, <3>1 DEF Replacing
  <2>5. Sees(p)'
    <3> DEFINE version == versions[jobs[p].id]
    <3> SUFFICES ASSUME jobs[p].at \in VersionPlaces
                 PROVE  /\ version.revision <= revision'
                        /\ version.revision = revision' =>
                             \A v \in Active : versions[v].tools \cap version.tools \subseteq visible'
      BY <1>1 DEF Sees
    <3>1. version.revision <= revision /\ version.revision \in Nat
      BY <2>1, <2>2 DEF Sees
    <3>2. ASSUME version.revision = revision', NEW v \in Active
          PROVE  versions[v].tools \cap version.tools \subseteq visible'
      <4>1. version.revision = revision /\ d \notin versions[v].tools
        BY <1>2, <3>1, <3>2
      <4> QED
        BY <1>3, <2>1, <4>1 DEF Sees
    <3> QED
      BY <1>2, <3>1, <3>2
  <2>6. \A entry : Known(p, entry) => Known(p, entry)'
    BY <1>1 DEF Known, Measure
  <2>7. \A entry : Confirmed(p, entry) => Confirmed(p, entry)'
    BY <1>1 DEF Confirmed
  <2>8. ASSUME jobs[p].inputs.revision <= revision, NEW entry, Stays(p, entry)
        PROVE  Stays(p, entry)'
    <3>1. ASSUME jobs[p].inputs.revision = revision', NEW v \in Active,
                 entry.domain \in versions[v].tools
          PROVE  jobs[p].inputs.revision = revision /\ entry.domain # d
      BY <1>2, <2>2, <2>8, <3>1
    <3> QED
      BY <1>1, <1>3, <2>8, <3>1 DEF Stays
  <2>9. jobs[p].inputs.revision <= revision => jobs[p].inputs.revision <= revision'
    BY <1>2, <2>2
  <2>10. Reads(p)'
    BY <1>1, <2>1, <2>6, <2>7, <2>8, <2>9 DEF Reads
  <2> QED
    BY <2>3, <2>4, <2>5, <2>10 DEF Mine
<1> QED
  BY <1>1, <1>4, SameActive DEF PInv, Solo

LEMMA EnvironmentKeeps ==
  ASSUME IInv, PInv, Environment
  PROVE  PInv'
<1>1. \A k \in Keys : writes[k] \in Nat
  BY DEF IInv, TypeOK
<1>2. ASSUME NEW d \in Domains, ReceiveRows(d)
      PROVE  PInv'
  BY <1>2, RowsWritten, WritesKeep DEF ReceiveRows, catalog
<1>3. ASSUME NEW d \in Domains, EditCatalog(d)
      PROVE  PInv'
  BY <1>3, EditKeeps
<1>4. ASSUME writes' = writes, rows' = rows, UNCHANGED <<catalog, versions, jobs>>
      PROVE  PInv'
  BY <1>1, <1>4, WritesKeep
<1>5. ASSUME NEW k \in Keys, OpenTask(k)
      PROVE  PInv'
  BY <1>4, <1>5 DEF OpenTask, Collection!Open
<1>6. ASSUME NEW k \in Keys, NEW outcome \in Collection!Outcomes, SettleTask(k, outcome)
      PROVE  PInv'
  BY <1>4, <1>6 DEF SettleTask, Collection!Settle
<1>7. ASSUME NEW m \in Months, Release(m)
      PROVE  PInv'
  BY <1>4, <1>7 DEF Release
<1> QED
  BY <1>2, <1>3, <1>5, <1>6, <1>7 DEF Environment

-----------------------------------------------------------------------------
(* The steps of a publisher.                                                *)

LEMMA PublisherCases ==
  ASSUME PublishersAlone, ProcessStep
  PROVE  \E p \in Processes :
           /\ p \in Publishers
           /\ \/ ListMonths(p) \/ CheckMonth(p) \/ StartBuild(p) \/ SelectTools(p) \/ CopyPage(p)
              \/ RollUp(p) \/ FinishBuild(p) \/ FailBuild(p) \/ Recheck(p) \/ Gate(p)
              \/ Switch(p) \/ SwitchFirst(p) \/ SwitchSecond(p) \/ Crash(p)
BY DEF PublishersAlone, ProcessStep, PublisherStep, Build, Activate, Processes

LEMMA MoveAlone ==
  ASSUME IInv, PInv, NEW p \in Processes, jobs[p].at # "idle", NEW job, Goes(p, job),
         Active' = Active, Mine(p)'
  PROVE  PInv'
<1>1. jobs \in [Processes -> Job] /\ Solo /\ AtMostOneActive
  BY DEF IInv, TypeOK, PInv
<1> QED
  BY <1>1, OthersIdle, SameActive, Alone

LEMMA StopAlone ==
  ASSUME IInv, PInv, NEW p \in Processes, jobs[p].at # "idle", Stops(p), AtMostOneActive'
  PROVE  PInv'
BY OthersIdle, StopsAlone DEF PInv

LEMMA InputsKnown ==
  ASSUME IInv, NEW m \in Months, NEW entry \in Inputs(m).entries
  PROVE  /\ entry.domain \in visible
         /\ entry.visits = Measure(entry.domain, m)
         /\ writes[entry.domain, m] \in Nat
         /\ <<m, writes[entry.domain, m]>> \in entry.stamps
         /\ \A stamp \in entry.stamps : stamp[1] = m => stamp[2] = writes[entry.domain, m]
<1>1. PICK d \in visible : entry = Entry(d, m)
  BY DEF Inputs
<1>2. <<d, m>> \in Keys
  BY DEF IInv, TypeOK, Keys
<1>3. entry.domain = d /\ entry.visits = Measure(d, m)
      /\ entry.stamps = {<<n, writes[d, n]>> : n \in Months \cap {m - 1, m}}
  BY <1>1 DEF Entry
<1> DEFINE stamp(n) == <<n, writes[d, n]>>
<1>4. \A x \in entry.stamps : \E n \in Months : x = stamp(n)
  BY <1>3
<1>5. m \in Months \cap {m - 1, m}
  OBVIOUS
<1>6. stamp(m) \in entry.stamps
  BY <1>3, <1>5
<1>7. ASSUME NEW x \in entry.stamps, x[1] = m
      PROVE  x[2] = writes[d, m]
  <2>1. PICK n \in Months : x = stamp(n)
    BY <1>4
  <2> DEFINE w == writes[d, n]
  <2>2. x = <<n, w>>
    BY <2>1
  <2> HIDE DEF w
  <2>3. x[1] = n /\ x[2] = w
    BY <2>2
  <2>4. n = m
    BY <1>7, <2>3
  <2> QED
    BY <2>3, <2>4 DEF w
<1>8. writes[d, m] \in Nat
  BY <1>2 DEF IInv, TypeOK
<1> QED
  BY <1>1, <1>3, <1>6, <1>7, <1>8

LEMMA ChoosingKeeps ==
  ASSUME PublishersAlone, IInv, PInv, NEW p \in Processes, ListMonths(p) \/ CheckMonth(p)
  PROVE  PInv'
<1>1. /\ jobs \in [Processes -> Job] /\ AtMostOneActive' /\ Processes = Publishers
      /\ versions' = versions /\ UNCHANGED <<sources, catalog>>
  BY SameVersions, SameActive
     DEF IInv, TypeOK, PInv, ListMonths, CheckMonth, Processes, PublishersAlone
<1>2. CASE ListMonths(p)
  <2>1. \A q \in Processes \ {p} : jobs[q].at = "idle"
    BY <1>1, <1>2 DEF ListMonths, Unlocked
  <2>2. CASE Stops(p)
    BY <1>1, <2>1, <2>2, StopsAlone
  <2>3. CASE Goes(p, [Idle EXCEPT !.at = "checking", !.months = Newer])
    <3>1. jobs'[p].at = "checking"
      BY <1>1, <2>3 DEF Goes, Idle
    <3> QED
      BY <1>1, <2>1, <2>3, <3>1, IdleMineNext, Alone
  <2> QED
    BY <1>2, <2>2, <2>3 DEF ListMonths
<1>3. CASE CheckMonth(p)
  <2>1. PICK month \in jobs[p].months :
          \/ Goes(p, [Idle EXCEPT !.at = "starting", !.month = month, !.inputs = Inputs(month)])
          \/ Stops(p)
          \/ Goes(p, [jobs[p] EXCEPT !.months = jobs[p].months \ {month}])
    BY <1>3 DEF CheckMonth
  <2>2. month \in Months /\ jobs[p].at = "checking" /\ jobs[p] \in Job
    BY <1>1, <1>3 DEF Job, CheckMonth
  <2>3. \A q \in Processes \ {p} : jobs[q].at = "idle"
    BY <2>2, OthersIdle DEF PInv
  <2>4. CASE Stops(p)
    BY <1>1, <2>3, <2>4, StopsAlone
  <2>5. CASE Goes(p, [jobs[p] EXCEPT !.months = jobs[p].months \ {month}])
    <3>1. jobs'[p].at = "checking"
      BY <1>1, <2>2, <2>5 DEF Goes, Job
    <3> QED
      BY <1>1, <2>3, <2>5, <3>1, IdleMineNext, Alone
  <2>6. CASE Goes(p, [Idle EXCEPT !.at = "starting", !.month = month, !.inputs = Inputs(month)])
    <3>1. /\ jobs'[p].at = "starting" /\ jobs'[p].month = month
          /\ jobs'[p].inputs = Inputs(month) /\ jobs'[p].upto = 0
      BY <1>1, <2>6 DEF Goes, Idle
    <3>2. revision' = revision /\ visible' = visible /\ writes' = writes /\ rows' = rows
      BY <1>1 DEF sources, catalog
    <3>3. Inputs(month).revision <= revision
      BY DEF Inputs, IInv, TypeOK
    <3>4. ASSUME NEW entry \in Inputs(month).entries
          PROVE  Known(p, entry)' /\ Stays(p, entry)'
      <4>1. Measure(entry.domain, month)' = Measure(entry.domain, month)
        BY <3>2 DEF Measure
      <4>2. /\ entry.domain \in visible /\ entry.visits = Measure(entry.domain, month)
            /\ writes[entry.domain, month] \in Nat
            /\ \A stamp \in entry.stamps : stamp[1] = month => stamp[2] = writes[entry.domain, month]
        BY <2>2, InputsKnown
      <4> DEFINE w == writes[entry.domain, month]
      <4>3. Known(p, entry)'
        <5>1. w' = w /\ w \in Nat
          BY <3>2, <4>2
        <5>2. \A stamp \in entry.stamps : stamp[1] = month => stamp[2] = w
          BY <4>2
        <5>3. jobs'[p].at \notin VersionPlaces
          BY <3>1 DEF VersionPlaces, BuildPlaces
        <5>4. Measure(entry.domain, month)' = entry.visits
          BY <4>1, <4>2
        <5>5. ASSUME NEW stamp \in entry.stamps, stamp[1] = month
              PROVE  stamp[2] <= w'
          <6> HIDE DEF w
          <6> QED
            BY <5>1, <5>2, <5>5
        <5> QED
          BY <3>1, <5>3, <5>4, <5>5 DEF Known
      <4>4. Stays(p, entry)'
        BY <3>1, <3>2, <4>2 DEF Stays
      <4> QED
        BY <4>3, <4>4
    <3>5. Reads(p)'
      BY <2>2, <3>1, <3>2, <3>3, <3>4 DEF Reads, SwitchPlaces
    <3>6. Sees(p)' /\ Beats(p)' /\ Replacing(p)'
      BY <3>1 DEF Sees, Beats, Replacing, VersionPlaces, BuildPlaces
    <3> QED
      BY <1>1, <2>3, <2>6, <3>5, <3>6, Alone DEF Mine
  <2> QED
    BY <2>1, <2>4, <2>5, <2>6
<1> QED
  BY <1>2, <1>3

LEMMA BuildOf ==
  ASSUME IInv, NEW p \in Processes, jobs[p].at \in BuildPlaces
  PROVE  /\ jobs[p].id \in Ids /\ jobs[p].id \notin Active
         /\ versions \in [Ids -> Version] /\ versions[jobs[p].id] \in Version
         /\ jobs[p] \in Job /\ jobs \in [Processes -> Job]
         /\ jobs[p].at # "idle" /\ jobs[p].month \in Months
<1>1. jobs[p].id \in Ids /\ jobs[p].month \in Months
  BY DEF IInv, AllEquipped, Equipped, VersionPlaces
<1>2. versions[jobs[p].id].status = "building"
  BY DEF IInv, BuiltByOne
<1> QED
  BY <1>1, <1>2 DEF IInv, TypeOK, Active, BuildPlaces

(* What a job goes on with.                                                 *)
Continues(p, id) ==
  /\ UNCHANGED <<sources, catalog>>
  /\ jobs'[p].month = jobs[p].month /\ jobs'[p].inputs = jobs[p].inputs
  /\ jobs'[p].id = id
  /\ Active' = Active /\ \A v \in Active : versions'[v] = versions[v]

(* A step that copies nothing keeps what is known of the rows.              *)
LEMMA ReadsOn ==
  ASSUME IInv, PInv, NEW p \in Processes, NEW id \in Ids, Continues(p, id),
         jobs[p].at \in ReadPlaces, jobs'[p].at \in ReadPlaces \ {"starting"},
         jobs'[p].at = "selecting" => jobs'[p].upto = 0,
         \/ versions'[id].tools = {}
         \/ /\ jobs[p].at \in VersionPlaces /\ jobs[p].id = id
            /\ versions'[id].tools = versions[id].tools
            /\ versions'[id].visits = versions[id].visits,
         \A entry \in jobs[p].inputs.entries : Stays(p, entry) => Stays(p, entry)'
  PROVE  Reads(p)'
<1>1. Reads(p)
  BY DEF PInv, Mine
<1>2. revision' = revision /\ writes' = writes /\ rows' = rows
  BY DEF Continues, sources, catalog
<1>3. ASSUME NEW entry \in jobs[p].inputs.entries
      PROVE  Known(p, entry)'
  <2>1. Known(p, entry)
    BY <1>1, <1>3 DEF Reads
  <2> QED
    BY <1>2, <2>1 DEF Known, Continues, Measure
<1>4. jobs'[p].at \notin SwitchPlaces
  BY DEF ReadPlaces, SwitchPlaces, BuildPlaces
<1> QED
  BY <1>1, <1>2, <1>3, <1>4 DEF Reads, Continues, ReadPlaces

LEMMA NotSwitching ==
  ASSUME NEW p, jobs'[p].at \in ReadPlaces
  PROVE  Beats(p)' /\ Replacing(p)'
BY DEF Beats, Replacing, ReadPlaces, BuildPlaces

LEMMA SeesOn ==
  ASSUME PInv, NEW p \in Processes, NEW id \in Ids, Continues(p, id),
         jobs[p].at \in VersionPlaces, jobs[p].id = id,
         versions'[id].tools = versions[id].tools, versions'[id].revision = versions[id].revision
  PROVE  Sees(p)'
<1>1. Sees(p)
  BY DEF PInv, Mine
<1> QED
  BY <1>1 DEF Sees, Continues, catalog

LEMMA StartKeeps ==
  ASSUME IInv, PInv, NEW p \in Processes, StartBuild(p)
  PROVE  PInv'
<1>1. PICK id \in Ids :
        /\ versions[id].status = "unused"
        /\ versions' = [versions EXCEPT ![id] =
             [Unused EXCEPT !.status = "building", !.month = jobs[p].month, !.revision = revision]]
        /\ Goes(p, [jobs[p] EXCEPT !.at = "selecting", !.id = id])
  BY DEF StartBuild
<1>2. /\ jobs \in [Processes -> Job] /\ jobs[p] \in Job /\ versions \in [Ids -> Version]
      /\ jobs[p].at = "starting" /\ Reads(p) /\ revision \in Nat
  BY DEF IInv, TypeOK, StartBuild, PInv, Mine
<1>3. /\ jobs'[p].at = "selecting" /\ jobs'[p].id = id /\ jobs'[p].upto = jobs[p].upto
      /\ jobs'[p].month = jobs[p].month /\ jobs'[p].inputs = jobs[p].inputs
  BY <1>1, <1>2 DEF Goes, Job
<1>4. versions'[id].tools = {} /\ versions'[id].revision = revision
  BY <1>1, <1>2 DEF Unused
<1>5. id \notin Active /\ \A v \in Ids \ {id} : versions'[v] = versions[v]
  BY <1>1, <1>2 DEF Active
<1>6. Continues(p, id)
  BY <1>3, <1>5, StartMoves DEF Continues, StartBuild, Active
<1>7. Reads(p)'
  <2>1. jobs'[p].upto = 0
    BY <1>2, <1>3 DEF Reads
  <2>2. ASSUME NEW entry, Stays(p, entry)
        PROVE  Stays(p, entry)'
    BY <1>3, <1>6, <2>2 DEF Stays, Continues, catalog
  <2> QED
    BY <1>2, <1>3, <1>4, <1>6, <2>1, <2>2, ReadsOn DEF ReadPlaces, BuildPlaces
<1>8. Sees(p)'
  BY <1>2, <1>3, <1>4, <1>6 DEF Sees, Continues, catalog
<1>9. Mine(p)'
  BY <1>3, <1>7, <1>8, NotSwitching DEF Mine, ReadPlaces, BuildPlaces
<1> QED
  BY <1>1, <1>2, <1>6, <1>9, MoveAlone DEF Continues

LEMMA SelectKeeps ==
  ASSUME IInv, PInv, NEW p \in Processes, SelectTools(p)
  PROVE  PInv'
<1>1. jobs[p].at = "selecting" /\ Reads(p)
  BY DEF SelectTools, PInv, Mine
<1>2. /\ jobs[p].id \in Ids /\ jobs \in [Processes -> Job] /\ jobs[p] \in Job
  BY <1>1, BuildOf DEF BuildPlaces
<1>3. Goes(p, [jobs[p] EXCEPT !.at = "paging", !.ids = visible]) /\ versions' = versions
  BY DEF SelectTools
<1>4. /\ jobs'[p].at = "paging" /\ jobs'[p].ids = visible /\ jobs'[p].upto = 0
      /\ jobs'[p].id = jobs[p].id
      /\ jobs'[p].month = jobs[p].month /\ jobs'[p].inputs = jobs[p].inputs
  BY <1>1, <1>2, <1>3 DEF Goes, Job, Reads
<1>5. Continues(p, jobs[p].id)
  BY <1>3, <1>4, SameVersions DEF Continues, SelectTools
<1>6. ASSUME NEW entry \in jobs[p].inputs.entries, Stays(p, entry)
      PROVE  Stays(p, entry)'
  <2>1. entry.domain \in Nat \ {0}
    <3>1. entry.domain \in Domains
      BY EntryOf
    <3> QED
      BY <3>1, DomainsAreNumbered
  <2>2. ~(entry.domain <= 0)
    <3> DEFINE d == entry.domain
    <3> HIDE DEF d
    <3>1. d \in Nat \ {0}
      BY <2>1 DEF d
    <3>2. ~(d <= 0)
      BY <3>1
    <3> QED
      BY <3>2 DEF d
  <2> QED
    BY <1>3, <1>4, <1>5, <1>6, <2>2 DEF Stays, Continues, catalog
<1>7. Reads(p)'
  BY <1>1, <1>2, <1>3, <1>4, <1>5, <1>6, ReadsOn DEF ReadPlaces, BuildPlaces, VersionPlaces
<1>8. Sees(p)'
  BY <1>1, <1>2, <1>3, <1>5, SeesOn DEF VersionPlaces, BuildPlaces
<1>9. Mine(p)'
  BY <1>4, <1>7, <1>8, NotSwitching DEF Mine, ReadPlaces, BuildPlaces
<1> QED
  BY <1>1, <1>3, <1>5, <1>9, MoveAlone DEF Continues

LEMMA UptoIsNat ==
  ASSUME NEW job \in Job
  PROVE  job.upto \in Nat /\ Domains \subseteq Nat
<1>1. job.upto \in Domains \cup {0}
  BY DEF Job
<1>2. \A d \in Domains : d \in Nat
  BY DomainsAreNumbered
<1>3. job.upto \in Nat
  BY <1>1, <1>2
<1> QED
  BY <1>2, <1>3

LEMMA CopyKeeps ==
  ASSUME IInv, PInv, NEW p \in Processes, CopyPage(p)
  PROVE  PInv'
<1> DEFINE id == jobs[p].id
           old == versions[id]
           month == jobs[p].month
           page(last) == {e \in visible : jobs[p].upto < e /\ e <= last}
           visits(last) == [e \in Domains |->
                              IF e \in page(last) THEN Measure(e, month) ELSE old.visits[e]]
<1>1. jobs[p].at = "paging" /\ Reads(p) /\ Sees(p)
  BY DEF CopyPage, PInv, Mine
<1>2. /\ id \in Ids /\ id \notin Active /\ versions \in [Ids -> Version] /\ old \in Version
      /\ jobs[p] \in Job /\ jobs \in [Processes -> Job] /\ month \in Months
  BY <1>1, BuildOf DEF BuildPlaces
<1>3. PICK last \in ToCopy(jobs[p]) :
        /\ versions' = [versions EXCEPT ![id] =
             [old EXCEPT !.tools = old.tools \cup page(last), !.visits = visits(last)]]
        /\ Goes(p, [jobs[p] EXCEPT !.upto = last])
  BY DEF CopyPage
<1>4. /\ jobs'[p].at = "paging" /\ jobs'[p].ids = jobs[p].ids /\ jobs'[p].upto = last
      /\ jobs'[p].id = id /\ jobs'[p].month = month /\ jobs'[p].inputs = jobs[p].inputs
  BY <1>1, <1>2, <1>3 DEF Goes, Job
<1>5. /\ versions'[id].tools = old.tools \cup page(last) /\ versions'[id].visits = visits(last)
      /\ versions'[id].revision = old.revision
  BY <1>2, <1>3 DEF Version
<1>6. Continues(p, id)
  BY <1>2, <1>3, <1>4, CopyMoves DEF Continues, CopyPage, Active
<1>7. revision' = revision /\ visible' = visible /\ writes' = writes /\ rows' = rows
  BY <1>6 DEF Continues, sources, catalog
<1>8. page(last) \subseteq visible
  OBVIOUS
<1>9. Sees(p)'
  BY <1>1, <1>4, <1>5, <1>6, <1>7, <1>8 DEF Sees, Continues, VersionPlaces, BuildPlaces
<1>10. ASSUME NEW entry \in jobs[p].inputs.entries
       PROVE  Known(p, entry)' /\ Stays(p, entry)'
  <2> DEFINE d == entry.domain
  <2>1. Known(p, entry) /\ Stays(p, entry)
    BY <1>1 DEF Reads, ReadPlaces, BuildPlaces
  <2>2. d \in Domains
    BY EntryOf
  <2>3. /\ Measure(d, month)' = Measure(d, month)
        /\ visits(last)[d] = IF d \in page(last) THEN Measure(d, month) ELSE old.visits[d]
    <3>1. Measure(d, month)' = Measure(d, month)
      BY <1>4, <1>7 DEF Measure
    <3> QED
      BY <2>2, <3>1
  <2>4. Known(p, entry)'
    <3>1. ASSUME NEW stamp \in entry.stamps, stamp[1] = month
          PROVE  /\ stamp[2] <= writes[d, month]
                 /\ stamp[2] = writes[d, month] =>
                      entry.visits = Measure(d, month)
                        /\ (d \in old.tools => old.visits[d] = entry.visits)
      BY <1>1, <2>1, <3>1 DEF Known, VersionPlaces, BuildPlaces
    <3>2. ASSUME NEW stamp \in entry.stamps, stamp[1] = month, stamp[2] = writes[d, month],
                 d \in versions'[id].tools
          PROVE  versions'[id].visits[d] = entry.visits
      <4>1. CASE d \in page(last)
        BY <1>5, <2>3, <3>1, <3>2, <4>1
      <4>2. CASE d \notin page(last)
        <5>1. d \in old.tools
          BY <1>5, <3>2, <4>2
        <5> QED
          BY <1>5, <2>3, <3>1, <3>2, <4>2, <5>1
      <4> QED
        BY <4>1, <4>2
    <3> QED
      BY <1>4, <1>7, <2>3, <3>1, <3>2 DEF Known
  <2>5. Stays(p, entry)'
    <3> SUFFICES ASSUME jobs[p].inputs.revision = revision,
                        \E v \in Active : d \in versions[v].tools
                 PROVE  /\ d \in visible /\ d \in jobs[p].ids
                        /\ d <= last => d \in old.tools \cup page(last)
      BY <1>4, <1>5, <1>6, <1>7 DEF Stays, Continues
    <3>1. /\ d \in visible /\ d \in jobs[p].ids
          /\ d <= jobs[p].upto => d \in old.tools
      BY <1>1, <2>1 DEF Stays
    <3>2. jobs[p].upto \in Nat /\ d \in Nat
      BY <1>2, <2>2, UptoIsNat
    <3>3. d <= jobs[p].upto \/ jobs[p].upto < d
      BY <3>2
    <3> QED
      BY <3>1, <3>3
  <2> QED
    BY <2>4, <2>5
<1>11. Reads(p)'
  BY <1>1, <1>2, <1>4, <1>7, <1>10 DEF Reads, ReadPlaces, SwitchPlaces, BuildPlaces
<1>12. Mine(p)'
  BY <1>4, <1>9, <1>11, NotSwitching DEF Mine, ReadPlaces, BuildPlaces
<1> QED
  BY <1>1, <1>3, <1>6, <1>12, MoveAlone DEF Continues

LEMMA RollUpKeeps ==
  ASSUME IInv, PInv, NEW p \in Processes, RollUp(p)
  PROVE  PInv'
<1> DEFINE id == jobs[p].id
           count == IF versions[id].revision = revision
                    THEN Cardinality(versions[id].tools \cap visible) ELSE 0
<1>1. jobs[p].at = "paging" /\ Reads(p) /\ Sees(p) /\ ToCopy(jobs[p]) = {}
  BY DEF RollUp, PInv, Mine
<1>2. /\ id \in Ids /\ id \notin Active /\ versions \in [Ids -> Version] /\ versions[id] \in Version
      /\ jobs[p] \in Job /\ jobs \in [Processes -> Job]
  BY <1>1, BuildOf DEF BuildPlaces
<1>3. /\ versions' = [versions EXCEPT ![id] = [versions[id] EXCEPT !.rollup = count]]
      /\ Goes(p, [jobs[p] EXCEPT !.at = "validating"])
  BY DEF RollUp
<1> HIDE DEF count
<1>4. /\ jobs'[p].at = "validating" /\ jobs'[p].id = id
      /\ jobs'[p].month = jobs[p].month /\ jobs'[p].inputs = jobs[p].inputs
  BY <1>2, <1>3 DEF Goes, Job
<1>5. /\ versions'[id].tools = versions[id].tools /\ versions'[id].visits = versions[id].visits
      /\ versions'[id].revision = versions[id].revision
  BY <1>2, <1>3 DEF Version
<1>6. Continues(p, id)
  BY <1>2, <1>3, <1>4, EndMoves DEF Continues, RollUp, Active
<1>7. ASSUME NEW entry \in jobs[p].inputs.entries, Stays(p, entry)
      PROVE  Stays(p, entry)'
  <2>1. entry.domain \in Nat /\ jobs[p].upto \in Nat
    BY <1>2, EntryOf, UptoIsNat
  <2>2. entry.domain \in jobs[p].ids => entry.domain <= jobs[p].upto
    BY <1>1, <2>1 DEF ToCopy
  <2> QED
    BY <1>1, <1>4, <1>5, <1>6, <1>7, <2>2 DEF Stays, Continues, catalog
<1>8. Reads(p)'
  BY <1>1, <1>2, <1>4, <1>5, <1>6, <1>7, ReadsOn DEF ReadPlaces, BuildPlaces, VersionPlaces
<1>9. Sees(p)'
  BY <1>1, <1>2, <1>5, <1>6, SeesOn DEF VersionPlaces, BuildPlaces
<1>10. Mine(p)'
  BY <1>4, <1>8, <1>9, NotSwitching DEF Mine, ReadPlaces, BuildPlaces
<1> QED
  BY <1>1, <1>3, <1>6, <1>10, MoveAlone DEF Continues

LEMMA FinishKeeps ==
  ASSUME PublishersAlone, IInv, PInv, NEW p \in Processes, FinishBuild(p)
  PROVE  PInv'
<1> DEFINE id == jobs[p].id
<1>1. jobs[p].at = "validating" /\ Reads(p) /\ Sees(p)
  BY DEF FinishBuild, PInv, Mine
<1>2. /\ id \in Ids /\ id \notin Active /\ versions \in [Ids -> Version] /\ versions[id] \in Version
      /\ jobs[p] \in Job /\ jobs \in [Processes -> Job]
  BY <1>1, BuildOf DEF BuildPlaces
<1>3. /\ versions' = [versions EXCEPT ![id] = [versions[id] EXCEPT !.status = "candidate"]]
      /\ Goes(p, [jobs[p] EXCEPT !.at = "rechecking"])
  BY DEF FinishBuild, Marked, PublishersAlone
<1>4. /\ jobs'[p].at = "rechecking" /\ jobs'[p].id = id
      /\ jobs'[p].month = jobs[p].month /\ jobs'[p].inputs = jobs[p].inputs
  BY <1>2, <1>3 DEF Goes, Job
<1>5. /\ versions'[id].tools = versions[id].tools /\ versions'[id].visits = versions[id].visits
      /\ versions'[id].revision = versions[id].revision
  BY <1>2, <1>3 DEF Version
<1>6. Continues(p, id)
  BY <1>2, <1>3, <1>4, EndMoves DEF Continues, FinishBuild, Active
<1>7. ASSUME NEW entry \in jobs[p].inputs.entries, Stays(p, entry)
      PROVE  Stays(p, entry)'
  BY <1>1, <1>4, <1>5, <1>6, <1>7 DEF Stays, Continues, catalog
<1>8. Reads(p)'
  BY <1>1, <1>2, <1>4, <1>5, <1>6, <1>7, ReadsOn DEF ReadPlaces, BuildPlaces, VersionPlaces
<1>9. Sees(p)'
  BY <1>1, <1>2, <1>5, <1>6, SeesOn DEF VersionPlaces, BuildPlaces
<1>10. Mine(p)'
  BY <1>4, <1>8, <1>9, NotSwitching DEF Mine, ReadPlaces, BuildPlaces
<1> QED
  BY <1>1, <1>3, <1>6, <1>10, MoveAlone DEF Continues

LEMMA FailKeeps ==
  ASSUME IInv, PInv, NEW p \in Processes, FailBuild(p)
  PROVE  PInv'
<1>1. jobs[p].at # "idle" /\ Stops(p) /\ Active' = Active
  BY EndMoves DEF FailBuild
<1> QED
  BY <1>1, SameActive, StopAlone DEF PInv

LEMMA CrashKeeps ==
  ASSUME IInv, PInv, NEW p \in Processes, Crash(p)
  PROVE  PInv'
<1>1. jobs[p].at # "idle" /\ Stops(p) /\ Active' = Active
  BY SameVersions DEF Crash
<1> QED
  BY <1>1, SameActive, StopAlone DEF PInv

(* The month that is still ready is the one that was read: its rows were    *)
(* not written in between, and what is served did not leave the catalog.    *)
LEMMA RecheckKeeps ==
  ASSUME IInv, PInv, NEW p \in Processes, Recheck(p)
  PROVE  PInv'
<1> DEFINE id == jobs[p].id
           month == jobs[p].month
<1>1. /\ jobs[p].at = "rechecking" /\ Reads(p) /\ Sees(p) /\ Active' = Active
      /\ versions' = versions
  BY SameVersions DEF Recheck, PInv, Mine
<1>2. id \in Ids /\ jobs[p] \in Job /\ jobs \in [Processes -> Job] /\ month \in Months
  BY <1>1 DEF IInv, TypeOK, AllEquipped, Equipped, VersionPlaces, Reads, ReadPlaces
<1>3. CASE Stops(p)
  BY <1>1, <1>3, SameActive, StopAlone DEF PInv
<1>4. CASE Inputs(month) = jobs[p].inputs /\ Goes(p, [jobs[p] EXCEPT !.at = "gating"])
  <2>1. /\ jobs'[p].at = "gating" /\ jobs'[p].id = id
        /\ jobs'[p].month = jobs[p].month /\ jobs'[p].inputs = jobs[p].inputs
    BY <1>2, <1>4 DEF Goes, Job
  <2>2. Continues(p, id)
    BY <1>1, <2>1 DEF Continues, Recheck
  <2>3. ASSUME NEW entry \in jobs[p].inputs.entries
        PROVE  Confirmed(p, entry)
    <3>1. Known(p, entry) /\ Stays(p, entry)
      BY <1>1 DEF Reads, ReadPlaces
    <3>2. <<month, writes[entry.domain, month]>> \in entry.stamps
      BY <1>2, <1>4, InputsKnown
    <3>3. entry.domain \in versions[id].tools => versions[id].visits[entry.domain] = entry.visits
      <4> DEFINE stamp == <<month, writes[entry.domain, month]>>
      <4>1. stamp[1] = month /\ stamp[2] = writes[entry.domain, month]
        OBVIOUS
      <4> QED
        BY <1>1, <3>1, <3>2, <4>1 DEF Known, VersionPlaces
    <3>4. jobs[p].inputs.revision = revision
      BY <1>4 DEF Inputs
    <3>5. \A v \in Active : entry.domain \in versions[v].tools => entry.domain \in versions[id].tools
      BY <1>1, <3>1, <3>4 DEF Stays
    <3> QED
      BY <3>3, <3>5 DEF Confirmed
  <2>4. \A entry \in jobs[p].inputs.entries : Confirmed(p, entry)'
    BY <1>1, <2>1, <2>3 DEF Confirmed
  <2>5. Reads(p)'
    BY <2>1, <2>4 DEF Reads, ReadPlaces, BuildPlaces
  <2>6. Sees(p)'
    BY <1>1, <1>2, <2>2, SeesOn DEF VersionPlaces
  <2>7. Mine(p)'
    BY <2>1, <2>5, <2>6 DEF Mine, Beats, Replacing
  <2> QED
    BY <1>1, <1>4, <2>7, MoveAlone
<1> QED
  BY <1>3, <1>4 DEF Recheck

LEMMA GateKeeps ==
  ASSUME IInv, PInv, NEW p \in Processes, Gate(p)
  PROVE  PInv'
<1> DEFINE id == jobs[p].id
<1>1. /\ jobs[p].at = "gating" /\ Reads(p) /\ Sees(p) /\ Active' = Active
      /\ versions' = versions /\ AtMostOneActive
  BY SameVersions DEF Gate, PInv, Mine
<1>2. id \in Ids /\ jobs[p] \in Job /\ jobs \in [Processes -> Job]
  BY <1>1 DEF IInv, TypeOK, AllEquipped, Equipped, VersionPlaces
<1>3. CASE Stops(p)
  BY <1>1, <1>3, SameActive, StopAlone
<1>4. CASE PassesGates(id) /\ Goes(p, [jobs[p] EXCEPT !.at = "switching"])
  <2>1. /\ jobs'[p].at = "switching" /\ jobs'[p].id = id
        /\ jobs'[p].month = jobs[p].month /\ jobs'[p].inputs = jobs[p].inputs
    BY <1>2, <1>4 DEF Goes, Job
  <2>2. Continues(p, id)
    BY <1>1, <2>1 DEF Continues, Gate
  <2>3. \A entry \in jobs[p].inputs.entries : Confirmed(p, entry)'
    BY <1>1, <2>1 DEF Reads, SwitchPlaces, Confirmed
  <2>4. Reads(p)'
    BY <2>1, <2>3 DEF Reads, ReadPlaces, BuildPlaces
  <2>5. Sees(p)'
    BY <1>1, <1>2, <2>2, SeesOn DEF VersionPlaces
  <2>6. ASSUME NEW v \in Active
        PROVE  Covers(versions[id], versions[v])
    <3>1. Active = {v} /\ v \in Nat
      BY <1>1, <2>6, IdsAreNat DEF AtMostOneActive, Active
    <3>2. Greatest(Active) = v
      BY <3>1, GreatestOfOne
    <3> QED
      BY <1>4, <2>6, <3>2 DEF PassesGates
  <2>7. Beats(p)' /\ Replacing(p)'
    BY <1>1, <2>1, <2>6 DEF Beats, Replacing, Covers, Measured
  <2> QED
    BY <1>1, <1>4, <2>4, <2>5, <2>7, MoveAlone DEF Mine
<1> QED
  BY <1>3, <1>4 DEF Gate

LEMMA SwitchFirstKeeps ==
  ASSUME IInv, PInv, NEW p \in Processes, SwitchFirst(p)
  PROVE  PInv'
<1> DEFINE id == jobs[p].id
<1>1. /\ jobs[p].at = "switching" /\ Reads(p) /\ Sees(p) /\ Beats(p) /\ Active' = Active
      /\ versions' = versions
      /\ Goes(p, [jobs[p] EXCEPT !.at = "committing", !.retiring = Retires(id)])
  BY SameVersions DEF SwitchFirst, PInv, Mine
<1>2. id \in Ids /\ jobs[p] \in Job /\ jobs \in [Processes -> Job]
  BY <1>1 DEF IInv, TypeOK, AllEquipped, Equipped, VersionPlaces
<1>3. /\ jobs'[p].at = "committing" /\ jobs'[p].id = id /\ jobs'[p].retiring = Retires(id)
      /\ jobs'[p].month = jobs[p].month /\ jobs'[p].inputs = jobs[p].inputs
  BY <1>1, <1>2 DEF Goes, Job
<1>4. Continues(p, id)
  BY <1>1, <1>3 DEF Continues, SwitchFirst
<1>5. \A entry \in jobs[p].inputs.entries : Confirmed(p, entry)'
  BY <1>1, <1>3 DEF Reads, SwitchPlaces, Confirmed
<1>6. Reads(p)'
  BY <1>3, <1>5 DEF Reads, ReadPlaces, BuildPlaces
<1>7. Sees(p)'
  BY <1>1, <1>2, <1>4, SeesOn DEF VersionPlaces
<1>8. Beats(p)'
  BY <1>1, <1>3 DEF Beats, Covers, Measured
<1>9. Replacing(p)'
  <2>1. Current(id)' <=> Current(id)
    BY <1>1, <1>4 DEF Current, Continues, catalog
  <2>2. Current(id) => \A v \in Active \ {id} :
          v \in Retires(id) \/ ~(versions[v].month <= versions[id].month)
    BY DEF Retires
  <2> QED
    BY <1>1, <1>3, <2>1, <2>2 DEF Replacing
<1> QED
  BY <1>1, <1>6, <1>7, <1>8, <1>9, MoveAlone DEF Mine

(* What a switch turns on replaces whatever was active.                     *)
LEMMA SwitchAlone ==
  ASSUME IInv, AtMostOneActive, NEW id \in Ids, NEW gone \in SUBSET Ids,
         versions' = Switched(id, gone),
         Current(id) => \A v \in Active \ {id} :
           v \in gone \/ ~(versions[v].month <= versions[id].month)
  PROVE  AtMostOneActive'
<1>1. Ledger
  BY DEF IInv, TypeOK, Ledger, JobParts
<1>2. \A v \in Ids :
        \/ versions'[v] = versions[v]
        \/ v \in gone \cap Active /\ versions'[v].status = "retired"
        \/ v = id /\ Activates(id, gone) /\ versions'[v].status = "active"
  BY <1>1, SwitchedVersions
<1>3. CASE ~Activates(id, gone)
  <2>1. Active' \subseteq Active
    BY <1>2, <1>3 DEF Active
  <2> QED
    BY <2>1 DEF AtMostOneActive
<1>4. CASE Activates(id, gone)
  <2>1. Current(id) /\ id \notin Active
    BY <1>4 DEF Activates, Current, Active
  <2>2. \A v \in Active : v \in gone
    BY <1>4, <2>1 DEF Activates
  <2>3. \A v \in Active : versions'[v].status # "active"
    <3> SUFFICES ASSUME NEW v \in Active PROVE versions'[v].status = "retired"
      OBVIOUS
    <3>1. versions[v] \in Version /\ v \in Ids /\ v # id
      BY <1>1, <2>1 DEF Ledger, Active
    <3> QED
      BY <2>2, <3>1 DEF Switched, Version
  <2>4. \A v \in Active' : v = id
    BY <1>2, <2>3 DEF Active
  <2> QED
    BY <2>4 DEF AtMostOneActive
<1> QED
  BY <1>3, <1>4

LEMMA SwitchKeeps ==
  ASSUME IInv, PInv, NEW p \in Processes, Switch(p) \/ SwitchSecond(p)
  PROVE  PInv'
<1> DEFINE id == jobs[p].id
<1>1. /\ jobs[p].at \in {"switching", "committing"} /\ Stops(p) /\ Replacing(p)
      /\ AtMostOneActive
  BY DEF Switch, SwitchSecond, PInv, Mine
<1>2. id \in Ids /\ jobs[p].retiring \in SUBSET Ids /\ Retires(id) \in SUBSET Ids
  BY <1>1 DEF IInv, TypeOK, AllEquipped, Equipped, VersionPlaces, Job, Retires, Active
<1>3. CASE Switch(p)
  <2>1. Current(id) => \A v \in Active \ {id} :
          v \in Retires(id) \/ ~(versions[v].month <= versions[id].month)
    BY DEF Retires
  <2> QED
    BY <1>1, <1>2, <1>3, <2>1, SwitchAlone, StopAlone DEF Switch
<1>4. CASE SwitchSecond(p)
  BY <1>1, <1>2, <1>4, SwitchAlone, StopAlone DEF SwitchSecond, Replacing
<1> QED
  BY <1>3, <1>4

-----------------------------------------------------------------------------
LEMMA PublisherInvariant ==
  ASSUME PublishersAlone
  PROVE  Spec => []PInv
<1>1. Init => PInv
  <2> SUFFICES ASSUME Init PROVE PInv
    OBVIOUS
  <2>1. \A p \in Processes : jobs[p].at = "idle"
    BY DEF Init, Idle
  <2>2. AtMostOneActive
    BY DEF Init, AtMostOneActive, Active, Unused
  <2> QED
    BY <2>1, <2>2, IdleMine DEF PInv, Solo
<1>2. IInv /\ PInv /\ [Next]_vars => PInv'
  <2> SUFFICES ASSUME IInv, PInv, [Next]_vars PROVE PInv'
    OBVIOUS
  <2>1. CASE Environment
    BY <2>1, EnvironmentKeeps
  <2>2. CASE ProcessStep
    BY <2>2, PublisherCases, ChoosingKeeps, StartKeeps, SelectKeeps, CopyKeeps, RollUpKeeps,
       FinishKeeps, FailKeeps, RecheckKeeps, GateKeeps, SwitchKeeps, SwitchFirstKeeps, CrashKeeps
  <2>3. CASE UNCHANGED vars
    <3>1. \A k \in Keys : writes[k] \in Nat
      BY DEF IInv, TypeOK
    <3>2. UNCHANGED <<versions, jobs, catalog, writes, rows>>
      BY <2>3 DEF vars, sources
    <3> QED
      BY <3>1, <3>2, WritesKeep
  <2> QED
    BY <2>1, <2>2, <2>3 DEF Next, ProcessStep
<1> QED
  BY <1>1, <1>2, Invariance, PTL DEF Spec

(* Only a switch turns a version on, and only one of the current revision.  *)
LEMMA ActivationIsSwitch ==
  ASSUME PublishersAlone, IInv, PInv, [Next]_vars, NEW id \in Ids, Activated(id)
  PROVE  \E p \in Processes :
           /\ jobs[p].at \in {"switching", "committing"} /\ jobs[p].id = id
           /\ versions[id].revision = revision
<1>1. Ledger
  BY DEF IInv, TypeOK, Ledger, JobParts
<1>2. id \in Active' /\ id \notin Active
  BY DEF Activated, Active
<1>3. ProcessStep
  <2>1. versions' # versions
    BY DEF Activated
  <2> QED
    BY <2>1, EnvironmentTyped DEF IInv, vars, Next, ProcessStep
<1>4. PICK p \in Processes : Switch(p) \/ SwitchSecond(p)
  <2>1. PICK p \in Processes :
          \/ versions' = versions
          \/ StartBuild(p) \/ CopyPage(p) \/ RollUp(p) \/ FinishBuild(p) \/ FailBuild(p)
          \/ Switch(p) \/ SwitchSecond(p)
    BY <1>3, PublisherCases
       DEF ListMonths, CheckMonth, SelectTools, Recheck, Gate, SwitchFirst, Crash
  <2>2. versions' = versions => FALSE
    BY DEF Activated
  <2>3. StartBuild(p) \/ CopyPage(p) \/ RollUp(p) \/ FinishBuild(p) \/ FailBuild(p) => FALSE
    BY <1>2, StartMoves, CopyMoves, EndMoves
  <2> QED
    BY <2>1, <2>2, <2>3
<1>5. PICK gone \in SUBSET Ids : versions' = Switched(jobs[p].id, gone)
  <2>1. Retires(jobs[p].id) \in SUBSET Ids /\ jobs[p].retiring \in SUBSET Ids
    BY <1>1, JobOf DEF Retires, Active, Job
  <2> QED
    BY <1>4, <2>1 DEF Switch, SwitchSecond
<1>6. jobs[p].at \in {"switching", "committing"} /\ jobs[p].id \in Ids
  BY <1>1, <1>4, JobOf DEF Switch, SwitchSecond, Equipped, VersionPlaces
<1>7. id = jobs[p].id /\ Activates(id, gone)
  BY <1>1, <1>5, <1>6, SwitchedVersions DEF Activated
<1> QED
  BY <1>6, <1>7 DEF Activates, Current

(* What a publisher activates is the ready month that it read before the    *)
(* build, though pages are copied one after the other while rows arrive and *)
(* tools come and go (market_snapshot_refresh.py 78-96).                    *)
THEOREM ActivatedAsRead ==
  ASSUME PublishersAlone
  PROVE  Spec => PublishedAsRead
<1>1. PInv => \A p \in Publishers : \A id \in Ids :
        Activated(id) /\ jobs[p].at \in {"switching", "committing"} /\ jobs[p].id = id =>
          \A entry \in jobs[p].inputs.entries :
            \/ /\ entry.domain \in versions[id].tools
               /\ versions[id].visits[entry.domain] = entry.visits
            \/ /\ entry.domain \notin versions[id].tools
               /\ \A v \in Active : entry.domain \notin versions[v].tools
  BY DEF PInv, Mine, Reads, SwitchPlaces, Confirmed, Processes
<1> QED
  BY <1>1, PublisherInvariant, PTL DEF PublishedAsRead

(* A snapshot replaces only what it covers enough of: what is served does   *)
(* not change between the gates and the switch (snapshot.py 639-661).       *)
THEOREM ReplacementsCover ==
  ASSUME PublishersAlone
  PROVE  Spec => CoverageKept
<1>1. IInv /\ PInv /\ [Next]_vars =>
        \A v, w \in Ids : Replaces(w, v) => Covers(versions[w], versions[v])
  <2> SUFFICES ASSUME IInv, PInv, [Next]_vars, NEW v \in Ids, NEW w \in Ids, Replaces(w, v)
               PROVE  Covers(versions[w], versions[v])
    OBVIOUS
  <2>1. PICK p \in Processes : jobs[p].at \in {"switching", "committing"} /\ jobs[p].id = w
    BY ActivationIsSwitch DEF Replaces
  <2> QED
    BY <2>1 DEF PInv, Mine, Beats, Replaces, Active
<1> QED
  BY <1>1, Invariance, PublisherInvariant, PTL DEF Spec, CoverageKept

(* A tool that left the catalog while it was served is not in the snapshot  *)
(* that replaces the one it was served by (snapshot.py 664-709).            *)
THEOREM ArchivedToolsStayOut ==
  ASSUME PublishersAlone
  PROVE  Spec => NothingArchivedReturns
<1>1. IInv /\ PInv /\ [Next]_vars =>
        \A v, w \in Ids :
          Replaces(w, v) => versions[v].tools \cap versions[w].tools \subseteq visible
  <2> SUFFICES ASSUME IInv, PInv, [Next]_vars, NEW v \in Ids, NEW w \in Ids, Replaces(w, v)
               PROVE  versions[v].tools \cap versions[w].tools \subseteq visible
    OBVIOUS
  <2>1. PICK p \in Processes :
          /\ jobs[p].at \in {"switching", "committing"} /\ jobs[p].id = w
          /\ versions[w].revision = revision
    BY ActivationIsSwitch DEF Replaces
  <2> QED
    BY <2>1 DEF PInv, Mine, Sees, VersionPlaces, Replaces, Active
<1> QED
  BY <1>1, Invariance, PublisherInvariant, PTL DEF Spec, NothingArchivedReturns

(* Under the lock no two versions are ever active, even where the two       *)
(* statements of a switch see different states (snapshot.py 664-709).       *)
THEOREM SingleActiveUnderLock ==
  ASSUME PublishersAlone
  PROVE  Spec => []AtMostOneActive
<1>1. PInv => AtMostOneActive
  BY DEF PInv
<1> QED
  BY <1>1, PublisherInvariant, PTL
=============================================================================
