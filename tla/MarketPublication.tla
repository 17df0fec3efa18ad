------------------------- MODULE MarketPublication -------------------------
(***************************************************************************)
(* The publication of a completed traffic month as a serving snapshot      *)
(* (market_snapshot_refresh.py, workloads/market/snapshot.py) on top of    *)
(* the collection of months as its readers see it (TrafficCollection).     *)
(*                                                                         *)
(* Publishers are the traffic runners: they share the lock of a directory. *)
(* Operators are invocations of the command line, which take no lock.      *)
(* A tool is identified with its domain, as visible_tools keeps one tool   *)
(* per domain; domains are numbered in the order of the tool ids.          *)
(***************************************************************************)
EXTENDS Naturals, FiniteSets

CONSTANTS
  Domains,          \* domains of the catalog, in the order of the tool ids
  Months,           \* months that may be collected and published
  Publishers,       \* runners that publish by themselves
  Operators,        \* builds and activations started by hand
  Isolation,        \* of a batch: "serial" (D1) or "read_committed" (PostgreSQL)
  PageSize,         \* tools copied by one statement
  MinimumCoverage,  \* percentage of the coverage of the previous snapshot
  MaxSnapshots,     \* bound: versions ever built
  MaxWrites,        \* bound: writes of one traffic row
  MaxOpens,         \* bound: times one month of a domain is queued
  MaxEdits,         \* bound: changes of the visible catalog
  MaxFaults         \* bound: failed statements and crashes

ASSUME DomainsAreNumbered == Domains \subseteq Nat \ {0}
ASSUME MonthsAreNumbered == Months \subseteq Nat \ {0}
ASSUME CatalogIsFinite == IsFiniteSet(Domains)
ASSUME SnapshotBound == MaxSnapshots \in Nat
ASSUME IsolationKnown == Isolation \in {"serial", "read_committed"}

VARIABLES
  progress,  \* of TrafficCollection
  rows,      \* of TrafficCollection
  writes,    \* per key: writes of its traffic row, what updated_at tells apart
  opens,     \* per key: times its task was queued
  released,  \* months whose release check says available
  visible,   \* domains of the tools that visible_tools selects
  revision,  \* market_catalog_eligibility_revision
  versions,  \* market_snapshot_versions with the rows of each snapshot
  jobs,      \* what each publisher and operator is doing
  edits,     \* changes of the catalog so far
  faults     \* faults so far

Collection == INSTANCE TrafficCollection

Keys == Domains \X Months

sources == <<progress, rows, writes, opens, released>>
catalog == <<visible, revision, edits>>
vars == <<sources, catalog, versions, jobs, faults>>

Processes == Publishers \cup Operators
Ids == 1..MaxSnapshots
Statuses == {"unused", "building", "candidate", "active", "retired", "failed"}

Unused == [status |-> "unused", month |-> 0, revision |-> 0, tools |-> {},
           visits |-> [d \in Domains |-> 0], rollup |-> 0]

NothingRead == [revision |-> 0, entries |-> {}]

Idle == [at |-> "idle", months |-> {}, month |-> 0, inputs |-> NothingRead, id |-> 0,
         ids |-> {}, upto |-> 0, retiring |-> {}]

Active == {v \in Ids : versions[v].status = "active"}

Greatest(S) == CHOOSE m \in S : \A n \in S : n <= m

----------------------------------------------------------------------------
(* What one read of month_readiness says of a domain, and of the month.     *)

Waits(d, m) ==
  \/ progress[d, m] = "open"
  \/ progress[d, m] = "absent" /\ rows[d, m] # "measured"

Blocks(d, m) ==
  \/ progress[d, m] \in Collection!Absences /\ rows[d, m] = "measured"
  \/ progress[d, m] = "done" /\ rows[d, m] # "measured"
  \/ progress[d, m] = "failed"

Ready(m) ==
  /\ \A d \in visible : ~Waits(d, m) /\ ~Blocks(d, m)
  /\ \E d \in visible : rows[d, m] = "measured"

(* What the hash of those rows tells apart.                                 *)
Measure(d, m) == IF rows[d, m] = "measured" THEN writes[d, m] ELSE 0

Entry(d, m) ==
  [domain |-> d, visits |-> Measure(d, m), status |-> progress[d, m], opens |-> opens[d, m],
   stamps |-> {<<n, writes[d, n]>> : n \in Months \cap {m - 1, m}}]

Inputs(m) == [revision |-> revision, entries |-> {Entry(d, m) : d \in visible}]

----------------------------------------------------------------------------
(* Coverage of a snapshot, and the gates an activation puts on it.          *)

Measured(version) == {d \in version.tools : version.visits[d] > 0}

Usable(version) == Measured(version) # {}

RolledUp(version) ==
  /\ version.revision = revision
  /\ version.rollup = Cardinality(version.tools)

Covers(version, previous) ==
  /\ Cardinality(version.tools) * 100
       >= Cardinality(previous.tools) * MinimumCoverage
  /\ Cardinality(Measured(version)) * 100
       >= Cardinality(Measured(previous)) * MinimumCoverage

(* Mutant: the coverage of the previous snapshot is not compared.           *)
PassesOwnGates(id) ==
  /\ versions[id].status = "candidate"
  /\ Usable(versions[id])
  /\ RolledUp(versions[id])

PassesGates(id) ==
  /\ versions[id].status = "candidate"
  /\ Usable(versions[id])
  /\ RolledUp(versions[id])
  /\ Active # {} => Covers(versions[id], versions[Greatest(Active)])

----------------------------------------------------------------------------
(* The collector, the release probe and the catalog.                        *)

ReceiveRows(d) ==
  /\ Collection!Receive(d)
  /\ \E touched \in SUBSET {k \in Keys : k[1] = d} :
       /\ touched # {}
       /\ \A k \in touched : writes[k] < MaxWrites /\ rows'[k] # "absent"
       /\ \A k \in Keys \ touched : rows'[k] = rows[k]
       /\ writes' = [k \in Keys |-> IF k \in touched THEN writes[k] + 1 ELSE writes[k]]
  /\ UNCHANGED <<opens, released, catalog, versions, jobs, faults>>

OpenTask(k) ==
  /\ opens[k] < MaxOpens
  /\ Collection!Open(k)
  /\ opens' = [opens EXCEPT ![k] = @ + 1]
  /\ UNCHANGED <<writes, released, catalog, versions, jobs, faults>>

SettleTask(k, outcome) ==
  /\ Collection!Settle(k, outcome)
  /\ UNCHANGED <<writes, opens, released, catalog, versions, jobs, faults>>

Release(m) ==
  /\ m \notin released
  /\ released' = released \cup {m}
  /\ UNCHANGED <<progress, rows, writes, opens, catalog, versions, jobs, faults>>

(* A tool is published, hidden or archived.  A trigger of the database      *)
(* counts the changes of tools in the snapshot that is served.              *)
EditCatalog(d) ==
  /\ edits < MaxEdits
  /\ edits' = edits + 1
  /\ visible' = IF d \in visible THEN visible \ {d} ELSE visible \cup {d}
  /\ revision' = IF \E v \in Active : d \in versions[v].tools
                 THEN revision + 1 ELSE revision
  /\ UNCHANGED <<sources, versions, jobs, faults>>

----------------------------------------------------------------------------
(* Choosing a month.                                                        *)

Goes(p, job) == jobs' = [jobs EXCEPT ![p] = job]
Stops(p) == Goes(p, Idle)

(* One publisher at a time holds the lock of the state directory.           *)
Unlocked == \A q \in Publishers : jobs[q].at = "idle"

(* Bound: a version is left for everybody who may start a build.            *)
Room == Cardinality({v \in Ids : versions[v].status = "unused"})
          > Cardinality({p \in Processes : jobs[p].at \in {"checking", "starting"}})

Newer == {m \in released : \A v \in Active : versions[v].month < m}

ListMonths(p) ==
  /\ Unlocked
  /\ IF Newer # {} /\ Room
     THEN Goes(p, [Idle EXCEPT !.at = "checking", !.months = Newer])
     ELSE Stops(p)
  /\ UNCHANGED <<sources, catalog, versions, faults>>

Newest(month, months) == month \in months /\ \A n \in months : n <= month

(* Mutant: only the newest month is tried.                                  *)
CheckNewest(p) ==
  /\ jobs[p].at = "checking"
  /\ \E month \in jobs[p].months :
       /\ Newest(month, jobs[p].months)
       /\ IF Ready(month)
          THEN Goes(p, [Idle EXCEPT !.at = "starting", !.month = month, !.inputs = Inputs(month)])
          ELSE Stops(p)
  /\ UNCHANGED <<sources, catalog, versions, faults>>

CheckMonth(p) ==
  LET job == jobs[p]
  IN  /\ job.at = "checking"
      /\ \E month \in job.months :
           /\ Newest(month, job.months)
           /\ IF Ready(month)
              THEN Goes(p, [Idle EXCEPT !.at = "starting", !.month = month,
                                        !.inputs = Inputs(month)])
              ELSE IF job.months = {month} THEN Stops(p)
              ELSE Goes(p, [job EXCEPT !.months = job.months \ {month}])
      /\ UNCHANGED <<sources, catalog, versions, faults>>

(* --build-market-snapshot takes the month it is told.                      *)
BuildByHand(o, m) ==
  /\ jobs[o].at = "idle"
  /\ Room
  /\ Goes(o, [Idle EXCEPT !.at = "starting", !.month = m])
  /\ UNCHANGED <<sources, catalog, versions, faults>>

----------------------------------------------------------------------------
(* Building a candidate.                                                    *)

StartBuild(p) ==
  /\ jobs[p].at = "starting"
  /\ \E id \in Ids :
       /\ versions[id].status = "unused"
       /\ \A v \in Ids : v < id => versions[v].status # "unused"
       /\ versions' = [versions EXCEPT ![id] =
            [Unused EXCEPT !.status = "building", !.month = jobs[p].month, !.revision = revision]]
       /\ Goes(p, [jobs[p] EXCEPT !.at = "selecting", !.id = id])
  /\ UNCHANGED <<sources, catalog, faults>>

SelectTools(p) ==
  /\ jobs[p].at = "selecting"
  /\ Goes(p, [jobs[p] EXCEPT !.at = "paging", !.ids = visible])
  /\ UNCHANGED <<sources, catalog, versions, faults>>

ToCopy(job) == {d \in job.ids : d > job.upto}

(* The last id of a page: its range selects from what is visible then.      *)
PageEnds(job, last) ==
  /\ last \in ToCopy(job)
  /\ LET page == {d \in ToCopy(job) : d <= last}
     IN  \/ Cardinality(page) = PageSize
         \/ page = ToCopy(job) /\ Cardinality(page) < PageSize

CopyPage(p) ==
  LET job == jobs[p]
      version == versions[job.id]
  IN  /\ job.at = "paging"
      /\ \E last \in ToCopy(job) :
           LET page == {d \in visible : job.upto < d /\ d <= last}
           IN  /\ PageEnds(job, last)
               /\ versions' = [versions EXCEPT ![job.id] =
                    [version EXCEPT !.tools = version.tools \cup page,
                                    !.visits = [d \in Domains |->
                       IF d \in page THEN Measure(d, job.month) ELSE version.visits[d]]]]
               /\ Goes(p, [job EXCEPT !.upto = last])
      /\ UNCHANGED <<sources, catalog, faults>>

RollUp(p) ==
  LET job == jobs[p]
      version == versions[job.id]
  IN  /\ job.at = "paging"
      /\ ToCopy(job) = {}
      /\ versions' = [versions EXCEPT ![job.id] =
           [version EXCEPT !.rollup = IF version.revision = revision
                                      THEN Cardinality(version.tools \cap visible) ELSE 0]]
      /\ Goes(p, [job EXCEPT !.at = "validating"])
      /\ UNCHANGED <<sources, catalog, faults>>

Marked(id, status) == [versions EXCEPT ![id] = [versions[id] EXCEPT !.status = status]]

FinishBuild(p) ==
  LET job == jobs[p]
  IN  /\ job.at = "validating"
      /\ Usable(versions[job.id])
      /\ RolledUp(versions[job.id])
      /\ versions' = Marked(job.id, "candidate")
      /\ \/ p \in Publishers /\ Goes(p, [job EXCEPT !.at = "rechecking"])
         \/ p \in Operators /\ Goes(p, [job EXCEPT !.at = "gating"])
         \/ p \in Operators /\ Stops(p)
      /\ UNCHANGED <<sources, catalog, faults>>

FailBuild(p) ==
  LET job == jobs[p]
  IN  /\ \/ /\ job.at = "validating"
            /\ ~(Usable(versions[job.id]) /\ RolledUp(versions[job.id]))
            /\ UNCHANGED faults
         \/ /\ job.at \in {"selecting", "paging", "validating"}
            /\ faults < MaxFaults
            /\ faults' = faults + 1
      /\ versions' = Marked(job.id, "failed")
      /\ Stops(p)
      /\ UNCHANGED <<sources, catalog>>

(* Mutant: readiness is checked again, but not that it is the same.         *)
RecheckReadyOnly(p) ==
  LET job == jobs[p]
  IN  /\ job.at = "rechecking"
      /\ IF Ready(job.month) THEN Goes(p, [job EXCEPT !.at = "gating"]) ELSE Stops(p)
      /\ UNCHANGED <<sources, catalog, versions, faults>>

Recheck(p) ==
  LET job == jobs[p]
  IN  /\ job.at = "rechecking"
      /\ IF Ready(job.month) /\ Inputs(job.month) = job.inputs
         THEN Goes(p, [job EXCEPT !.at = "gating"])
         ELSE Stops(p)
      /\ UNCHANGED <<sources, catalog, versions, faults>>

----------------------------------------------------------------------------
(* Activation.                                                              *)

(* --activate-market-snapshot-id takes the version it is told.              *)
ActivateByHand(o, id) ==
  /\ jobs[o].at = "idle"
  /\ versions[id].status = "candidate"
  /\ Goes(o, [Idle EXCEPT !.at = "gating", !.id = id])
  /\ UNCHANGED <<sources, catalog, versions, faults>>

Gate(p) ==
  /\ jobs[p].at = "gating"
  /\ IF PassesGates(jobs[p].id)
     THEN Goes(p, [jobs[p] EXCEPT !.at = "switching"])
     ELSE Stops(p)
  /\ UNCHANGED <<sources, catalog, versions, faults>>

(* Mutant: the batch does not compare the revision.                         *)
CurrentStatus(id) == versions[id].status = "candidate"

Current(id) ==
  /\ versions[id].status = "candidate"
  /\ versions[id].revision = revision

(* Mutant: the first statement retires whatever is active.                  *)
RetiresAny(id) == {v \in Active \ {id} : Current(id)}

(* The first statement of the batch: the versions it retires.               *)
Retires(id) ==
  {v \in Active \ {id} : Current(id) /\ versions[v].month <= versions[id].month}

(* Mutant: the second statement does not look for a newer month.            *)
ActivatesAny(id, retired) == Current(id)

(* The second one, which sees what the first one did.                       *)
Activates(id, retired) ==
  /\ Current(id)
  /\ \A v \in Active \ retired : versions[v].month <= versions[id].month

Switched(id, retired) ==
  [v \in Ids |->
    IF v \in retired \cap Active THEN [versions[v] EXCEPT !.status = "retired"]
    ELSE IF v = id /\ Activates(id, retired)
         THEN [versions[v] EXCEPT !.status = "active"]
         ELSE versions[v]]

Switch(p) ==
  /\ Isolation = "serial"
  /\ jobs[p].at = "switching"
  /\ versions' = Switched(jobs[p].id, Retires(jobs[p].id))
  /\ Stops(p)
  /\ UNCHANGED <<sources, catalog, faults>>

(* Read committed: each statement sees what was committed when it starts,   *)
(* and what it writes shows when the transaction commits.                   *)
SwitchFirst(p) ==
  /\ Isolation = "read_committed"
  /\ jobs[p].at = "switching"
  /\ Goes(p, [jobs[p] EXCEPT !.at = "committing", !.retiring = Retires(jobs[p].id)])
  /\ UNCHANGED <<sources, catalog, versions, faults>>

SwitchSecond(p) ==
  /\ jobs[p].at = "committing"
  /\ versions' = Switched(jobs[p].id, jobs[p].retiring)
  /\ Stops(p)
  /\ UNCHANGED <<sources, catalog, faults>>

(* The process dies, or a statement outside the build fails.                *)
Crash(p) ==
  /\ jobs[p].at # "idle"
  /\ faults < MaxFaults
  /\ faults' = faults + 1
  /\ Stops(p)
  /\ UNCHANGED <<sources, catalog, versions>>

----------------------------------------------------------------------------
Init ==
  /\ Collection!Init
  /\ writes = [k \in Keys |-> 0]
  /\ opens = [k \in Keys |-> 0]
  /\ released = {}
  /\ visible = Domains
  /\ revision = 0
  /\ edits = 0
  /\ versions = [v \in Ids |-> Unused]
  /\ jobs = [p \in Processes |-> Idle]
  /\ faults = 0

Build(p) ==
  \/ StartBuild(p) \/ SelectTools(p) \/ CopyPage(p) \/ RollUp(p)
  \/ FinishBuild(p) \/ FailBuild(p)

Activate(p) == Gate(p) \/ Switch(p) \/ SwitchFirst(p) \/ SwitchSecond(p)

PublisherStep(p) == ListMonths(p) \/ CheckMonth(p) \/ Build(p) \/ Recheck(p) \/ Activate(p)

OperatorStep(o) ==
  \/ \E m \in Months : BuildByHand(o, m)
  \/ \E id \in Ids : ActivateByHand(o, id)
  \/ Build(o)
  \/ Activate(o)

Environment ==
  \/ \E d \in Domains : ReceiveRows(d) \/ EditCatalog(d)
  \/ \E k \in Keys : OpenTask(k) \/ \E outcome \in Collection!Outcomes : SettleTask(k, outcome)
  \/ \E m \in Months : Release(m)

Next ==
  \/ Environment
  \/ \E p \in Publishers : PublisherStep(p)
  \/ \E o \in Operators : OperatorStep(o)
  \/ \E p \in Processes : Crash(p)

Spec == Init /\ [][Next]_vars
----------------------------------------------------------------------------
(* The types of the variables.                                              *)
Version ==
  [status: Statuses, month: Months \cup {0}, revision: Nat, tools: SUBSET Domains,
   visits: [Domains -> Nat], rollup: Nat]

Places == {"idle", "checking", "starting", "selecting", "paging", "validating",
           "rechecking", "gating", "switching", "committing"}

Reading ==
  [revision: Nat,
   entries: SUBSET [domain: Domains, visits: Nat, status: Collection!Progress, opens: Nat,
                    stamps: SUBSET (Months \X Nat)]]

Job ==
  [at: Places, months: SUBSET Months, month: Months \cup {0},
   inputs: Reading, id: Ids \cup {0}, ids: SUBSET Domains, upto: Domains \cup {0},
   retiring: SUBSET Ids]

TypeOK ==
  /\ progress \in [Keys -> Collection!Progress]
  /\ writes \in [Keys -> Nat]
  /\ opens \in [Keys -> Nat]
  /\ released \subseteq Months
  /\ visible \subseteq Domains
  /\ revision \in Nat
  /\ versions \in [Ids -> Version]
  /\ jobs \in [Processes -> Job]

(* One snapshot is served at a time, whoever activates what (snapshot.py    *)
(* 664-709).                                                                *)
AtMostOneActive == \A v, w \in Active : v = w

(* What readers are promised: the month served never goes back and, once    *)
(* there is one, there always is one (README 403-405).                      *)
ServedMonth == IF Active = {} THEN 0 ELSE Greatest({versions[v].month : v \in Active})

Serving == INSTANCE MarketServing WITH serving <- ServedMonth

ImplementsServing == Serving!Spec

(* The part of it that a batch which is not atomic loses.                   *)
ServedNeverLost == [][Active # {} => Active' # {}]_vars

(* Whenever a publisher activates what it built, each domain of the ready   *)
(* month it checked before the build is in the snapshot with the visits it  *)
(* had then, unless it left the catalog and came back unnoticed, which no   *)
(* domain of the snapshot served can (market_snapshot_refresh.py 78-96).    *)
Activated(id) == versions[id].status # "active" /\ versions'[id].status = "active"

PublishedAsRead ==
  [][\A p \in Publishers : \A id \in Ids :
       Activated(id) /\ jobs[p].at \in {"switching", "committing"} /\ jobs[p].id = id =>
         \A entry \in jobs[p].inputs.entries :
           \/ /\ entry.domain \in versions[id].tools
              /\ versions[id].visits[entry.domain] = entry.visits
           \/ /\ entry.domain \notin versions[id].tools
              /\ \A v \in Active : entry.domain \notin versions[v].tools]_vars

(* A snapshot replaces another one only when it covers enough of it, while  *)
(* the lock keeps publishers apart (snapshot.py 639-661, report_exports.py  *)
(* 282-298).                                                                *)
Replaces(w, v) == Activated(w) /\ versions[v].status = "active" /\ v # w

CoverageKept ==
  [][\A v, w \in Ids : Replaces(w, v) => Covers(versions[w], versions[v])]_vars

(* No tool that left the catalog while it was served is served again: what  *)
(* is in the old and in the new snapshot is visible at the switch           *)
(* (snapshot.py 664-709).                                                   *)
NothingArchivedReturns ==
  [][\A v, w \in Ids :
       Replaces(w, v) => versions[v].tools \cap versions[w].tools \subseteq visible]_vars

(* A released month that stays ready, and covers what is served, is served  *)
(* in the end, or a later one (market_snapshot_refresh.py 59-103).          *)
Coverable(m) ==
  \A v \in Active :
    /\ Cardinality(visible) * 100 >= Cardinality(versions[v].tools) * MinimumCoverage
    /\ Cardinality({d \in visible : Measure(d, m) > 0}) * 100
         >= Cardinality(Measured(versions[v])) * MinimumCoverage

Served(m) == \E v \in Active : versions[v].month >= m

ReadyMonthIsServed ==
  \A m \in Months :
    <>[](m \in released /\ Ready(m) /\ Coverable(m)) => <>Served(m)

FairSpec == Spec /\ \A p \in Publishers : WF_vars(PublisherStep(p))
=============================================================================
