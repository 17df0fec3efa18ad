------------------------ MODULE SitemapEngine_proofs ------------------------
(***************************************************************************)
(* Theorems of the traversal, for every site, every number of processes    *)
(* that traverse it at the same time, and every limit.                     *)
(***************************************************************************)
EXTENDS SitemapEngine, TLAPS, FiniteSetTheorems, SequenceTheorems

Checking == Walks \ {"walk"}

(* The diff of the check under way *)
DiffOf(t) == [scan |-> scan[t].number, url |-> Url(t), to |-> scan[t].answer]

(* What a traversal has written so far: a check has an entry at the head of *)
(* the queue, the state it read exists, and what it is about to name in a   *)
(* row or in a run was put before.                                          *)
Equipped(t) ==
  /\ scan[t].at # "idle" => scan[t].number \in 1..MaxScans
  /\ scan[t].at \in Checking => scan[t].queue # <<>>

OldExists(t) ==
  scan[t].at \in Checking /\ scan[t].old # None
    => rows[Url(t)].known /\ <<Url(t), scan[t].old.state>> \in objects

Answering(t) ==
  /\ scan[t].at \in {"confirm", "store", "compare", "save"} => scan[t].answer \in Written
  /\ scan[t].at \in {"confirm", "compare"} => scan[t].old # None

Saving(t) ==
  /\ scan[t].at \in {"compare", "save"} => <<Url(t), scan[t].answer>> \in objects
  /\ scan[t].at = "save" =>
       /\ scan[t].result \in {"baseline", "changed", "semantic_unchanged"}
       /\ scan[t].result = "changed" => DiffOf(t) \in diffs

Recording(t) ==
  scan[t].at = "record" =>
    /\ rows[Url(t)].known
    /\ scan[t].result # "failed" => Reported(scan[t]) \in Written /\ <<Url(t), Reported(scan[t])>> \in objects
    /\ scan[t].result = "changed" => DiffOf(t) \in diffs

InFlight(t) == Equipped(t) /\ OldExists(t) /\ Answering(t) /\ Saving(t) /\ Recording(t)

IInv == EngineTypeOK /\ NamedObjectsExist /\ \A t \in Traversers : InFlight(t)

Grows ==
  /\ objects \subseteq objects' /\ diffs \subseteq diffs'
  /\ \A u \in Urls : rows[u].known => rows'[u].known

-----------------------------------------------------------------------------
(* Lemmas about the queue.                                                  *)

LEMMA EntryTyped ==
  ASSUME EngineTypeOK, NEW t \in Traversers, scan[t].queue # <<>>
  PROVE  /\ Entry(t) \in Queued /\ Url(t) \in Urls /\ Entry(t).depth \in Nat
         /\ Tail(scan[t].queue) \in Seq(Queued)
<1>1. scan[t].queue \in Seq(Queued)
  BY DEF EngineTypeOK, Traversal
<1>2. Head(scan[t].queue) \in Queued /\ Tail(scan[t].queue) \in Seq(Queued)
  BY <1>1
<1> QED
  BY <1>2 DEF Entry, Url, Queued

LEMMA InSequence ==
  ASSUME NEW S, IsFiniteSet(S)
  PROVE  SetToSeq(S) \in Seq(S)
<1>1. Cardinality(S) \in Nat /\ ExistsBijection(1..Cardinality(S), S)
  BY FS_CardinalityType
<1>2. PICK f \in Bijection(1..Cardinality(S), S) : TRUE
  BY <1>1 DEF ExistsBijection
<1>3. f \in [1..Cardinality(S) -> S] /\ IsInjective(f)
  BY <1>2 DEF Bijection, Injection, Surjection, IsInjective
<1>4. SetToSeq(S) \in [1..Cardinality(S) -> S]
  BY <1>3 DEF SetToSeq
<1> QED
  BY <1>1, <1>4

LEMMA Mapped ==
  ASSUME NEW T, NEW q \in Seq(T), NEW F, NEW R,
         \A i \in 1..Len(q) : q[i] \in T => F[i] \in R, F = [i \in 1..Len(q) |-> F[i]]
  PROVE  F \in Seq(R)
<1>1. Len(q) \in Nat /\ \A i \in 1..Len(q) : q[i] \in T
  OBVIOUS
<1>2. F \in [1..Len(q) -> R]
  BY <1>1
<1> QED
  BY <1>1, <1>2

LEMMA EnqueuedTyped ==
  ASSUME NEW s \in Traversal, NEW depth \in Nat
  PROVE  Enqueued(s, depth) \in Seq(Queued)
<1>1. IsFiniteSet(s.kids \cap Hosted) /\ s.kids \cap Hosted \subseteq Urls
  BY SiteAssumption, FS_Subset
<1>2. PICK kids : kids = SetToSeq(s.kids \cap Hosted)
  OBVIOUS
<1>3. kids \in Seq(s.kids \cap Hosted)
  BY <1>1, <1>2, InSequence
<1>4. Enqueued(s, depth) = [i \in 1..Len(kids) |-> [url |-> kids[i], depth |-> depth + 1, fallback |-> FALSE]]
  BY <1>2 DEF Enqueued
<1>5. \A i \in 1..Len(kids) : kids[i] \in s.kids \cap Hosted => Enqueued(s, depth)[i] \in Queued
  BY <1>1, <1>4 DEF Queued
<1> QED
  BY <1>3, <1>4, <1>5, Mapped

LEMMA RootsTyped ==
  ASSUME NEW answered \in BOOLEAN
  PROVE  Roots(answered) \in Seq(Queued)
<1>1. Authoritative(answered) \in Seq(Urls)
  BY SiteAssumption DEF Authoritative
<1>2. Candidates(answered) \in Seq(Urls)
  BY <1>1, SiteAssumption DEF Candidates
<1>3. DOMAIN Candidates(answered) = 1..Len(Candidates(answered)) /\ Len(Candidates(answered)) \in Nat
  BY <1>2
<1>4. \A i \in DOMAIN Candidates(answered) : Roots(answered)[i] \in Queued
  BY <1>2, <1>3 DEF Roots, Root, Queued
<1> QED
  BY <1>3, <1>4 DEF Roots

-----------------------------------------------------------------------------
(* A step of one traversal disturbs no other one: what is stored only grows. *)

LEMMA Others ==
  ASSUME IInv, NEW t \in Traversers, NEW s \in Traversal, Becomes(t, s), Grows
  PROVE  /\ scan' \in [Traversers -> Traversal] /\ scan'[t] = s
         /\ \A other \in Traversers \ {t} : InFlight(other)'
<1>1. scan' \in [Traversers -> Traversal] /\ scan'[t] = s
  BY DEF IInv, EngineTypeOK, Becomes
<1>2. ASSUME NEW other \in Traversers \ {t}
      PROVE  InFlight(other)'
  <2>1. scan'[other] = scan[other]
    BY DEF IInv, EngineTypeOK, Becomes
  <2>2. Url(other)' = Url(other) /\ DiffOf(other)' = DiffOf(other)
    BY <2>1 DEF Url, Entry, DiffOf
  <2>3. InFlight(other) /\ EngineTypeOK
    BY DEF IInv
  <2>4. scan[other].at \in Checking => Url(other) \in Urls
    BY <2>3, EntryTyped DEF InFlight, Equipped
  <2>5. Equipped(other)' /\ Answering(other)'
    BY <2>1, <2>3 DEF InFlight, Equipped, Answering
  <2>6. OldExists(other)'
    BY <2>1, <2>2, <2>3, <2>4 DEF InFlight, OldExists, Grows
  <2>7. Saving(other)'
    BY <2>1, <2>2, <2>3 DEF InFlight, Saving, Grows
  <2>8. Recording(other)'
    BY <2>1, <2>2, <2>3, <2>4 DEF InFlight, Recording, Grows, Checking, Walks
  <2> QED
    BY <2>5, <2>6, <2>7, <2>8 DEF InFlight
<1> QED
  BY <1>1, <1>2

(* A step that writes nothing. *)
LEMMA InMemory ==
  ASSUME IInv, NEW t \in Traversers, NEW s \in Traversal, Becomes(t, s),
         UNCHANGED <<siteVars, storeVars>>, begun' \in 0..MaxScans, InFlight(t)'
  PROVE  IInv'
<1>1. Grows
  BY DEF Grows, storeVars
<1>2. scan' \in [Traversers -> Traversal] /\ \A other \in Traversers : InFlight(other)'
  BY <1>1, Others
<1>3. EngineTypeOK'
  BY <1>2 DEF IInv, EngineTypeOK, siteVars, storeVars
<1>4. NamedObjectsExist'
  BY DEF IInv, NamedObjectsExist, storeVars
<1> QED
  BY <1>2, <1>3, <1>4 DEF IInv

-----------------------------------------------------------------------------
(* Steps between checks.                                                    *)

LEMMA Bounds == MaxScans \in Nat
  BY SiteAssumption

LEMMA Between ==
  ASSUME IInv, NEW t \in Traversers,
         \/ Begin(t) \/ Rest(t) \/ Ends(t)
         \/ Skip(t) \/ CutDepth(t) \/ CutResources(t) \/ EndTraversal(t)
         \/ \E answered \in BOOLEAN : Discover(t, answered)
  PROVE  IInv'
<1> DEFINE s == scan[t]
<1>1. s \in Traversal /\ EngineTypeOK /\ begun \in 0..MaxScans /\ InFlight(t)
  BY DEF IInv, EngineTypeOK
<1>2. Idle \in Traversal
  BY Bounds DEF Idle, Traversal, Phases, Results, Nullable
<1>3. ASSUME NEW n \in Traversal, Becomes(t, n), n.at \in Phases \ Checking,
             n.at # "idle" => n.number \in 1..MaxScans,
             UNCHANGED <<siteVars, storeVars>>, begun' \in 0..MaxScans
      PROVE  IInv'
  <2>1. scan'[t] = n
    BY <1>1, <1>3 DEF EngineTypeOK, Becomes
  <2>2. InFlight(t)'
    BY <1>3, <2>1 DEF InFlight, Equipped, OldExists, Answering, Saving, Recording, Checking, Walks, Phases
  <2> QED
    BY <1>3, <2>2, InMemory
<1>4. CASE Begin(t)
  <2> DEFINE n == [Idle EXCEPT !.at = "robots", !.number = begun + 1]
  <2>1. begun + 1 \in 1..MaxScans /\ begun + 1 \in 0..MaxScans
    BY <1>1, <1>4, Bounds DEF Begin
  <2>2. n \in Traversal
    BY <1>2, <2>1 DEF Traversal, Phases
  <2>3. n.at = "robots" /\ n.number = begun + 1
    BY DEF Idle
  <2>4. Becomes(t, n) /\ UNCHANGED <<siteVars, storeVars>> /\ begun' = begun + 1
    BY <1>4 DEF Begin
  <2> HIDE DEF n
  <2> QED
    BY <1>3, <2>1, <2>2, <2>3, <2>4 DEF Phases, Checking, Walks
<1>5. CASE Rest(t) \/ Ends(t)
  BY <1>1, <1>2, <1>3, <1>5 DEF Rest, Ends, Idle, Phases, Checking, Walks
<1>6. CASE Skip(t)
  <2>1. Tail(s.queue) \in Seq(Queued) /\ s.at = "walk"
    BY <1>1, <1>6, EntryTyped DEF Skip, Walking
  <2>2. [s EXCEPT !.queue = Tail(@)] \in Traversal
    BY <1>1, <2>1 DEF Traversal
  <2> QED
    BY <1>1, <1>3, <1>6, <2>1, <2>2 DEF Skip, Traversal, Phases, Checking, Walks, InFlight, Equipped
<1>7. CASE CutDepth(t)
  <2>1. Tail(s.queue) \in Seq(Queued) /\ s.at = "walk"
    BY <1>1, <1>7, EntryTyped DEF CutDepth, Walking
  <2>2. [s EXCEPT !.queue = Tail(@), !.complete = FALSE] \in Traversal
    BY <1>1, <2>1 DEF Traversal
  <2> QED
    BY <1>1, <1>3, <1>7, <2>1, <2>2 DEF CutDepth, Traversal, Phases, Checking, Walks, InFlight, Equipped
<1>8. CASE CutResources(t) \/ EndTraversal(t)
  <2>1. PICK complete \in BOOLEAN : Becomes(t, Report(s, complete))
    BY <1>1, <1>8 DEF CutResources, EndTraversal, Traversal
  <2>2. Report(s, complete) \in Traversal
    <3>1. <<>> \in Seq(Queued) /\ "done" \in Phases
      BY DEF Phases
    <3> QED
      BY <1>1, <2>1, <3>1 DEF Report, Traversal
  <2>3. Report(s, complete).at = "done" /\ Report(s, complete).number = s.number /\ s.at = "walk"
    BY <1>1, <1>8 DEF Report, Traversal, CutResources, EndTraversal, Walking
  <2> QED
    BY <1>1, <1>3, <1>8, <2>1, <2>2, <2>3 DEF CutResources, EndTraversal, Phases, Checking, Walks, InFlight, Equipped
<1>9. ASSUME NEW answered \in BOOLEAN, Discover(t, answered)
      PROVE  IInv'
  <2> DEFINE n == [s EXCEPT !.at = "walk", !.queue = Roots(answered), !.fallback = Authoritative(answered) = <<>>]
  <2>1. n \in Traversal
    BY <1>1, RootsTyped DEF Traversal, Phases, Walks
  <2>2. n.at = "walk" /\ n.number = s.number /\ s.at = "robots"
    BY <1>1, <1>9 DEF Traversal, Discover
  <2> QED
    BY <1>1, <1>3, <1>9, <2>1, <2>2 DEF Discover, Phases, Checking, Walks, InFlight, Equipped
<1> QED
  BY <1>4, <1>5, <1>6, <1>7, <1>8, <1>9

-----------------------------------------------------------------------------
(* Steps of a check that write nothing.                                     *)

LEMMA Checks ==
  ASSUME IInv, NEW t \in Traversers,
         Check(t) \/ NotModified(t) \/ Served(t) \/ Refused(t)
  PROVE  IInv'
<1> DEFINE s == scan[t]
<1>1. s \in Traversal /\ EngineTypeOK /\ begun \in 0..MaxScans /\ InFlight(t)
  BY DEF IInv, EngineTypeOK
<1>2. UNCHANGED <<siteVars, storeVars, begun>> /\ begun' \in 0..MaxScans
  BY <1>1 DEF Check, NotModified, Served, Refused, Answered
<1>3. CASE Check(t)
  <2> DEFINE u == Entry(t).url
             n == [s EXCEPT !.at = "fetch", !.visited = @ \cup {u}, !.old = Existing(u)]
  <2>1. u \in Urls /\ s.queue # <<>> /\ s.at = "walk"
    BY <1>1, <1>3, EntryTyped DEF Check, Walking, Url
  <2>2. /\ Existing(u) \in Nullable([state : Written, tag : Nullable(Written)])
        /\ Existing(u) # None => rows[u].known /\ <<u, Existing(u).state>> \in objects
    <3>1. rows[u] \in ResourceRow
      BY <1>1, <2>1 DEF EngineTypeOK
    <3>2. rows[u].state # None => rows[u].known /\ <<u, rows[u].state>> \in objects
      BY <2>1 DEF IInv, NamedObjectsExist
    <3> QED
      BY <3>1, <3>2 DEF Existing, ResourceRow, Nullable
  <2>3. n \in Traversal
    BY <1>1, <2>1, <2>2 DEF Traversal, Phases, Walks
  <2>4. n.at = "fetch" /\ n.queue = s.queue /\ n.number = s.number /\ n.old = Existing(u)
    BY <1>1 DEF Traversal
  <2>5. Becomes(t, n)
    BY <1>3 DEF Check
  <2>6. scan'[t] = n
    BY <1>1, <2>5 DEF EngineTypeOK, Becomes
  <2> HIDE DEF n
  <2>7. Url(t)' = u
    BY <2>4, <2>6 DEF Url, Entry
  <2>8. InFlight(t)'
    BY <1>1, <1>2, <2>1, <2>2, <2>4, <2>6, <2>7
       DEF InFlight, Equipped, OldExists, Answering, Saving, Recording, Checking, Walks, storeVars
  <2> QED
    BY <1>2, <2>3, <2>5, <2>8, InMemory
<1>4. ASSUME NEW phase \in {"confirm", "store", "blame"}, NEW answer \in Nullable(Written),
             s.at = "fetch", phase # "blame" => answer \in Written,
             phase = "confirm" => s.old # None,
             Becomes(t, [s EXCEPT !.at = phase, !.answer = answer])
      PROVE  IInv'
  <2> DEFINE n == [s EXCEPT !.at = phase, !.answer = answer]
  <2>1. n \in Traversal
    BY <1>1, <1>4 DEF Traversal, Phases, Walks
  <2>2. n.at = phase /\ n.answer = answer /\ n.queue = s.queue /\ n.number = s.number /\ n.old = s.old
    BY <1>1 DEF Traversal
  <2>3. scan'[t] = n
    BY <1>1, <1>4 DEF EngineTypeOK, Becomes
  <2>4. Becomes(t, n)
    BY <1>4
  <2> HIDE DEF n
  <2>5. Url(t)' = Url(t)
    BY <2>2, <2>3 DEF Url, Entry
  <2>6. InFlight(t)'
    BY <1>1, <1>2, <1>4, <2>2, <2>3, <2>5
       DEF InFlight, Equipped, OldExists, Answering, Saving, Recording, Checking, Walks, storeVars
  <2> QED
    BY <1>2, <2>1, <2>4, <2>6, InMemory
<1>5. ASSUME s.at = "fetch"
      PROVE  live[Url(t)] \in Written
  <2>1. Url(t) \in Urls
    BY <1>1, <1>5, EntryTyped DEF InFlight, Equipped, Checking, Walks
  <2> QED
    BY <1>1, <2>1 DEF EngineTypeOK
<1>6. CASE NotModified(t)
  BY <1>4, <1>5, <1>6 DEF NotModified, Answered, Unmodified, Nullable
<1>7. CASE Served(t)
  BY <1>4, <1>5, <1>7 DEF Served, Answered, Nullable
<1>8. CASE Refused(t)
  <2>1. [s EXCEPT !.at = "blame", !.answer = s.answer] = [s EXCEPT !.at = "blame"] /\ s.answer \in Nullable(Written)
    BY <1>1 DEF Traversal
  <2> QED
    BY <1>4, <1>8, <2>1 DEF Refused
<1> QED
  BY <1>3, <1>6, <1>7, <1>8

-----------------------------------------------------------------------------
(* Steps of a check that write.                                             *)

LEMMA Writing ==
  ASSUME IInv, NEW t \in Traversers, NEW n \in Traversal, Becomes(t, n), Grows,
         UNCHANGED <<siteVars, begun>>,
         rows' \in [Urls -> ResourceRow], objects' \subseteq Urls \X Written,
         diffs' \subseteq Diff, runs' \subseteq Run,
         NamedObjectsExist', InFlight(t)'
  PROVE  IInv'
<1>1. scan' \in [Traversers -> Traversal] /\ \A other \in Traversers : InFlight(other)'
  BY Others
<1> QED
  BY <1>1 DEF IInv, EngineTypeOK, siteVars

(* The check under way, and what it may rely on. *)
LEMMA UnderWay ==
  ASSUME IInv, NEW t \in Traversers, scan[t].at \in Checking
  PROVE  /\ EngineTypeOK /\ NamedObjectsExist /\ InFlight(t) /\ scan[t] \in Traversal
         /\ Url(t) \in Urls /\ Entry(t).depth \in Nat /\ Tail(scan[t].queue) \in Seq(Queued)
         /\ scan[t].number \in 1..MaxScans /\ rows[Url(t)] \in ResourceRow
<1>1. EngineTypeOK /\ NamedObjectsExist /\ InFlight(t)
  BY DEF IInv
<1>2. scan[t].queue # <<>> /\ scan[t].number \in 1..MaxScans
  BY <1>1 DEF InFlight, Equipped, Checking, Walks
<1> QED
  BY <1>1, <1>2, EntryTyped DEF EngineTypeOK

LEMMA Stays ==
  ASSUME IInv, NEW t \in Traversers, NEW n \in Traversal, Becomes(t, n), n.queue = scan[t].queue
  PROVE  scan'[t] = n /\ Url(t)' = Url(t)
<1>1. scan'[t] = n
  BY DEF IInv, EngineTypeOK, Becomes
<1> QED
  BY <1>1 DEF Url, Entry

LEMMA Blames ==
  ASSUME IInv, NEW t \in Traversers, Blame(t)
  PROVE  IInv'
<1> DEFINE s == scan[t]
           u == Url(t)
           n == [s EXCEPT !.at = "record", !.result = "failed"]
<1>1. s.at = "blame" /\ s.at \in Checking
  BY DEF Blame, Checking, Walks
<1>2. /\ EngineTypeOK /\ NamedObjectsExist /\ InFlight(t) /\ s \in Traversal
      /\ u \in Urls /\ s.number \in 1..MaxScans /\ rows[u] \in ResourceRow
  BY <1>1, UnderWay
<1>3. n \in Traversal
  BY <1>2 DEF Traversal, Phases, Walks, Results
<1>4. /\ n.at = "record" /\ n.result = "failed" /\ n.queue = s.queue
      /\ n.number = s.number /\ n.old = s.old
  BY <1>2 DEF Traversal
<1>5. Becomes(t, n) /\ rows' = [rows EXCEPT ![u].known = TRUE] /\ UNCHANGED <<siteVars, objects, diffs, runs, begun>>
  BY DEF Blame
<1> HIDE DEF n
<1>6. scan'[t] = n /\ Url(t)' = u
  BY <1>3, <1>4, <1>5, Stays
<1>7. /\ rows' \in [Urls -> ResourceRow] /\ rows'[u].known
      /\ \A v \in Urls : rows'[v].state = rows[v].state /\ (rows[v].known => rows'[v].known)
  BY <1>2, <1>5 DEF EngineTypeOK, ResourceRow
<1>8. Grows
  BY <1>5, <1>7 DEF Grows
<1>9. NamedObjectsExist'
  BY <1>2, <1>5, <1>7 DEF NamedObjectsExist, EngineTypeOK, Run
<1>10. InFlight(t)'
  BY <1>1, <1>2, <1>4, <1>5, <1>6, <1>7
     DEF InFlight, Equipped, OldExists, Answering, Saving, Recording, Checking, Walks
<1> QED
  BY <1>2, <1>3, <1>5, <1>7, <1>8, <1>9, <1>10, Writing DEF EngineTypeOK

LEMMA ChildrenNamed ==
  ASSUME NEW doc \in Written
  PROVE  Children(doc) \subseteq Names
<1>1. doc.urls \subseteq Names
  BY DEF Names
<1> QED
  BY <1>1 DEF Children

LEMMA Confirms ==
  ASSUME IInv, NEW t \in Traversers, Confirm(t)
  PROVE  IInv'
<1> DEFINE s == scan[t]
           u == Url(t)
           kids == StoredChildren(u, s.old.state)
           n == [s EXCEPT !.at = "record", !.result = "not_modified", !.kids = kids]
<1>1. s.at = "confirm" /\ s.at \in Checking
  BY DEF Confirm, Checking, Walks
<1>2. /\ EngineTypeOK /\ NamedObjectsExist /\ InFlight(t) /\ s \in Traversal
      /\ u \in Urls /\ s.number \in 1..MaxScans /\ rows[u] \in ResourceRow
  BY <1>1, UnderWay
<1>3. /\ s.answer \in Written /\ s.old # None
      /\ rows[u].known /\ <<u, s.old.state>> \in objects
  BY <1>1, <1>2 DEF InFlight, Answering, OldExists
<1>4. s.old.state \in Written
  BY <1>2, <1>3 DEF EngineTypeOK
<1>5. kids \in SUBSET Names
  BY <1>3, <1>4, ChildrenNamed DEF StoredChildren
<1> HIDE DEF kids
<1>6. n \in Traversal
  BY <1>2, <1>5 DEF Traversal, Phases, Walks, Results
<1>7. /\ n.at = "record" /\ n.result = "not_modified" /\ n.queue = s.queue
      /\ n.number = s.number /\ n.old = s.old /\ Reported(n) = s.old.state
  BY <1>2 DEF Traversal, Reported
<1>8. /\ Becomes(t, n) /\ UNCHANGED <<siteVars, objects, diffs, runs, begun>>
      /\ \E tag \in {rows[u].tag, Tag(u, s.answer)} : rows' = [rows EXCEPT ![u].tag = tag]
  BY DEF Confirm, kids
<1> HIDE DEF n
<1>9. scan'[t] = n /\ Url(t)' = u
  BY <1>6, <1>7, <1>8, Stays
<1>10. rows[u].tag \in Nullable(Written) /\ Tag(u, s.answer) \in Nullable(Written)
  BY <1>2, <1>3 DEF ResourceRow, Tag, Nullable
<1>11. /\ rows' \in [Urls -> ResourceRow]
       /\ \A v \in Urls : rows'[v].state = rows[v].state /\ rows'[v].known = rows[v].known
  BY <1>2, <1>8, <1>10 DEF EngineTypeOK, ResourceRow
<1>12. Grows
  BY <1>8, <1>11 DEF Grows
<1>13. NamedObjectsExist'
  BY <1>2, <1>8, <1>11 DEF NamedObjectsExist, EngineTypeOK, Run
<1>14. Reported(scan[t])' = s.old.state
  BY <1>7, <1>9 DEF Reported
<1>15. InFlight(t)'
  <2>1. rows'[u].known /\ objects' = objects
    BY <1>2, <1>3, <1>8, <1>11
  <2>2. Equipped(t)' /\ OldExists(t)' /\ Answering(t)' /\ Saving(t)'
    BY <1>1, <1>2, <1>3, <1>7, <1>9, <2>1 DEF InFlight, Equipped, OldExists, Answering, Saving
  <2>3. Recording(t)'
    BY <1>3, <1>4, <1>7, <1>9, <1>14, <2>1 DEF Recording
  <2> QED
    BY <2>2, <2>3 DEF InFlight
<1> QED
  BY <1>2, <1>6, <1>8, <1>11, <1>12, <1>13, <1>15, Writing DEF EngineTypeOK

LEMMA Stores ==
  ASSUME IInv, NEW t \in Traversers, Store(t)
  PROVE  IInv'
<1> DEFINE s == scan[t]
           u == Url(t)
<1>1. s.at = "store" /\ s.at \in Checking
  BY DEF Store, Checking, Walks
<1>2. /\ EngineTypeOK /\ NamedObjectsExist /\ InFlight(t) /\ s \in Traversal
      /\ u \in Urls /\ s.number \in 1..MaxScans
  BY <1>1, UnderWay
<1>3. s.answer \in Written /\ (s.old # None => rows[u].known /\ <<u, s.old.state>> \in objects)
  BY <1>1, <1>2 DEF InFlight, Answering, OldExists
<1>4. PICK n \in Traversal :
        /\ Becomes(t, n)
        /\ n.queue = s.queue /\ n.number = s.number /\ n.old = s.old /\ n.answer = s.answer
        /\ \/ n.at = "save" /\ n.result \in {"baseline", "semantic_unchanged"}
           \/ n.at = "compare" /\ n.old # None
  <2> DEFINE saved(result) == [s EXCEPT !.at = "save", !.result = result]
             compared == [s EXCEPT !.at = "compare"]
  <2>1. \A result \in {"baseline", "semantic_unchanged"} :
          /\ saved(result) \in Traversal /\ saved(result).at = "save" /\ saved(result).result = result
          /\ saved(result).queue = s.queue /\ saved(result).number = s.number
          /\ saved(result).old = s.old /\ saved(result).answer = s.answer
    BY <1>2 DEF Traversal, Phases, Walks, Results
  <2>2. /\ compared \in Traversal /\ compared.at = "compare" /\ compared.queue = s.queue
        /\ compared.number = s.number /\ compared.old = s.old /\ compared.answer = s.answer
    BY <1>2 DEF Traversal, Phases, Walks
  <2>3. \/ Becomes(t, saved("baseline")) \/ Becomes(t, saved("semantic_unchanged"))
        \/ s.old # None /\ Becomes(t, compared)
    BY DEF Store
  <2> HIDE DEF saved, compared
  <2> QED
    BY <2>1, <2>2, <2>3
<1>5. /\ objects' = IF Differs(t) THEN objects \cup {<<u, s.answer>>} ELSE objects
      /\ UNCHANGED <<siteVars, rows, diffs, runs, begun>>
  BY DEF Store
<1>6. scan'[t] = n /\ Url(t)' = u
  BY <1>4, Stays
<1>7. objects \subseteq objects' /\ objects' \subseteq Urls \X Written /\ <<u, s.answer>> \in objects'
  <2>1. CASE Differs(t)
    BY <1>2, <1>3, <1>5, <2>1 DEF EngineTypeOK
  <2>2. CASE ~Differs(t)
    BY <1>2, <1>3, <1>5, <2>2 DEF EngineTypeOK, Differs
  <2> QED
    BY <2>1, <2>2
<1>8. Grows
  BY <1>5, <1>7 DEF Grows
<1>9. NamedObjectsExist'
  BY <1>2, <1>5, <1>7 DEF NamedObjectsExist
<1>10. InFlight(t)'
  <2>1. s.queue # <<>>
    BY <1>1, <1>2 DEF InFlight, Equipped
  <2>2. Equipped(t)' /\ Answering(t)'
    BY <1>2, <1>3, <1>4, <1>6, <2>1 DEF Equipped, Answering
  <2>3. OldExists(t)'
    BY <1>3, <1>4, <1>5, <1>6, <1>7 DEF OldExists
  <2>4. Saving(t)'
    BY <1>4, <1>6, <1>7 DEF Saving
  <2>5. Recording(t)'
    BY <1>4, <1>6 DEF Recording
  <2> QED
    BY <2>2, <2>3, <2>4, <2>5 DEF InFlight
<1> QED
  BY <1>2, <1>4, <1>5, <1>7, <1>8, <1>9, <1>10, Writing DEF EngineTypeOK

LEMMA Compares ==
  ASSUME IInv, NEW t \in Traversers, Compare(t)
  PROVE  IInv'
<1> DEFINE s == scan[t]
           u == Url(t)
           diff == [scan |-> s.number, url |-> u, to |-> s.answer]
<1>1. s.at = "compare" /\ s.at \in Checking
  BY DEF Compare, Checking, Walks
<1>2. /\ EngineTypeOK /\ NamedObjectsExist /\ InFlight(t) /\ s \in Traversal
      /\ u \in Urls /\ s.number \in 1..MaxScans
  BY <1>1, UnderWay
<1>3. s.answer \in Written /\ s.old # None /\ rows[u].known /\ <<u, s.old.state>> \in objects
  BY <1>1, <1>2 DEF InFlight, Answering, OldExists
<1> DEFINE n == [s EXCEPT !.at = "save", !.result = "changed"]
<1>4. /\ n \in Traversal /\ n.at = "save" /\ n.result = "changed" /\ n.queue = s.queue
      /\ n.number = s.number /\ n.old = s.old /\ n.answer = s.answer
  BY <1>2 DEF Traversal, Phases, Walks, Results
<1>5. Becomes(t, n) /\ diffs' = diffs \cup {diff} /\ UNCHANGED <<siteVars, rows, objects, runs, begun>>
  BY <1>3 DEF Compare
<1> HIDE DEF n
<1>6. scan'[t] = n /\ Url(t)' = u
  BY <1>4, <1>5, Stays
<1>7. diff \in Diff /\ DiffOf(t)' = diff
  BY <1>2, <1>3, <1>4, <1>6 DEF Diff, DiffOf
<1>8. Grows
  BY <1>5 DEF Grows
<1>9. diffs' \subseteq Diff
  BY <1>2, <1>5, <1>7 DEF EngineTypeOK
<1>10. NamedObjectsExist'
  BY <1>2, <1>5 DEF NamedObjectsExist
<1>11. InFlight(t)'
  BY <1>1, <1>2, <1>3, <1>4, <1>5, <1>6, <1>7
     DEF InFlight, Equipped, OldExists, Answering, Saving, Recording, Checking, Walks
<1> QED
  BY <1>2, <1>4, <1>5, <1>8, <1>9, <1>10, <1>11, Writing DEF EngineTypeOK

LEMMA Saves ==
  ASSUME IInv, NEW t \in Traversers, Save(t)
  PROVE  IInv'
<1> DEFINE s == scan[t]
           u == Url(t)
           row == [known |-> TRUE, state |-> s.answer, tag |-> Tag(u, s.answer)]
           n == [s EXCEPT !.at = "record", !.kids = Children(s.answer)]
<1>1. s.at = "save" /\ s.at \in Checking
  BY DEF Save, Checking, Walks
<1>2. /\ EngineTypeOK /\ NamedObjectsExist /\ InFlight(t) /\ s \in Traversal
      /\ u \in Urls /\ s.number \in 1..MaxScans
  BY <1>1, UnderWay
<1>3. /\ s.answer \in Written /\ <<u, s.answer>> \in objects
      /\ s.result \in {"baseline", "changed", "semantic_unchanged"}
      /\ s.result = "changed" => DiffOf(t) \in diffs
      /\ s.old # None => <<u, s.old.state>> \in objects
  BY <1>1, <1>2 DEF InFlight, Answering, Saving, OldExists
<1>4. /\ n \in Traversal /\ n.at = "record" /\ n.result = s.result /\ n.queue = s.queue
      /\ n.number = s.number /\ n.old = s.old /\ n.answer = s.answer
  <2>1. Children(s.answer) \in SUBSET Names
    BY <1>3, ChildrenNamed
  <2> QED
    BY <1>2, <2>1 DEF Traversal, Phases, Walks
<1>5. Becomes(t, n) /\ rows' = [rows EXCEPT ![u] = row] /\ UNCHANGED <<siteVars, objects, diffs, runs, begun>>
  BY DEF Save
<1> HIDE DEF n
<1>6. scan'[t] = n /\ Url(t)' = u
  BY <1>4, <1>5, Stays
<1>7. row \in ResourceRow /\ row.known /\ row.state = s.answer
  BY <1>3 DEF ResourceRow, Tag, Nullable
<1> HIDE DEF row
<1>8. /\ rows' \in [Urls -> ResourceRow] /\ rows'[u] = row
      /\ \A v \in Urls \ {u} : rows'[v] = rows[v]
  BY <1>2, <1>5, <1>7 DEF EngineTypeOK
<1>9. Grows
  BY <1>5, <1>7, <1>8 DEF Grows
<1>10. NamedObjectsExist'
  <2>1. \A v \in Urls : rows'[v].state # None => rows'[v].known /\ <<v, rows'[v].state>> \in objects'
    BY <1>2, <1>3, <1>5, <1>7, <1>8 DEF NamedObjectsExist
  <2>2. \A r \in runs : r.url \in Urls /\ (rows[r.url].known => rows'[r.url].known)
    BY <1>2, <1>9 DEF EngineTypeOK, Run, Grows
  <2> QED
    BY <1>2, <1>5, <2>1, <2>2 DEF NamedObjectsExist
<1>11. Reported(scan[t])' = s.answer /\ DiffOf(t)' = DiffOf(t)
  BY <1>3, <1>4, <1>6 DEF Reported, DiffOf
<1>12. InFlight(t)'
  <2>1. Equipped(t)' /\ OldExists(t)' /\ Answering(t)' /\ Saving(t)'
    BY <1>1, <1>2, <1>3, <1>4, <1>5, <1>6, <1>7, <1>8 DEF InFlight, Equipped, OldExists, Answering, Saving
  <2>2. Recording(t)'
    BY <1>3, <1>4, <1>5, <1>6, <1>7, <1>8, <1>11 DEF Recording
  <2> QED
    BY <2>1, <2>2 DEF InFlight
<1> QED
  BY <1>2, <1>4, <1>5, <1>8, <1>9, <1>10, <1>12, Writing DEF EngineTypeOK

LEMMA Records ==
  ASSUME IInv, NEW t \in Traversers, Record(t)
  PROVE  IInv'
<1> DEFINE s == scan[t]
           u == Url(t)
           e == Entry(t)
           run == [scan |-> s.number, url |-> u, result |-> s.result, state |-> Reported(s)]
<1>1. s.at = "record" /\ s.at \in Checking
  BY DEF Record, Checking, Walks
<1>2. /\ EngineTypeOK /\ NamedObjectsExist /\ InFlight(t) /\ s \in Traversal
      /\ u \in Urls /\ e.depth \in Nat /\ Tail(s.queue) \in Seq(Queued) /\ s.number \in 1..MaxScans
  BY <1>1, UnderWay
<1>3. /\ rows[u].known
      /\ s.result # "failed" => Reported(s) \in Written /\ <<u, Reported(s)>> \in objects
      /\ s.result = "changed" => DiffOf(t) \in diffs
  BY <1>1, <1>2 DEF InFlight, Recording
<1>4. PICK n \in Traversal : Becomes(t, n) /\ n.at = "walk" /\ n.number = s.number
  <2> DEFINE usable == s.result # "failed"
             queue == Tail(s.queue) \o Enqueued(s, e.depth)
             owed == IF usable THEN s.owed \cup (Children(s.answer) \cap Hosted) ELSE s.owed
             n == [s EXCEPT !.at = "walk", !.queue = queue,
                            !.found = s.found \/ (e.depth = 0 /\ usable),
                            !.fallback = s.fallback \/ (e.fallback /\ usable),
                            !.owed = owed,
                            !.old = None, !.answer = None, !.result = "failed", !.kids = {}]
  <2>1. queue \in Seq(Queued)
    BY <1>2, EnqueuedTyped
  <2>2. owed \in SUBSET Urls
    BY <1>2, SiteAssumption DEF Traversal
  <2>3. e.fallback \in BOOLEAN
    BY <1>1, <1>2, EntryTyped DEF InFlight, Equipped, Queued
  <2>4. Becomes(t, n)
    BY <1>2 DEF Record, Traversal
  <2> HIDE DEF queue, owed
  <2>5. n \in Traversal /\ n.at = "walk" /\ n.number = s.number
    BY <1>2, <2>1, <2>2, <2>3 DEF Traversal, Phases, Walks, Results, Nullable
  <2> QED
    BY <2>4, <2>5
<1>5. runs' = Recorded(s, u) /\ UNCHANGED <<siteVars, rows, objects, diffs, begun>>
  BY DEF Record, Url
<1>6. scan'[t] = n
  BY <1>2, <1>4 DEF EngineTypeOK, Becomes
<1>7. run \in Run
  BY <1>2, <1>3 DEF Run, Traversal, Reported, Nullable
<1>8. runs' \subseteq runs \cup {run}
  BY <1>5 DEF Recorded
<1>9. Grows
  BY <1>5 DEF Grows
<1>10. NamedObjectsExist'
  <2>1. /\ rows[run.url].known
        /\ run.state # None => <<run.url, run.state>> \in objects
        /\ run.result = "changed" => [scan |-> run.scan, url |-> run.url, to |-> run.state] \in diffs
    BY <1>3 DEF Reported, DiffOf
  <2> HIDE DEF run
  <2> QED
    BY <1>2, <1>5, <1>8, <2>1 DEF NamedObjectsExist
<1>11. InFlight(t)'
  BY <1>2, <1>4, <1>6
     DEF InFlight, Equipped, OldExists, Answering, Saving, Recording, Checking, Walks
<1> QED
  BY <1>2, <1>4, <1>5, <1>7, <1>8, <1>9, <1>10, <1>11, Writing DEF EngineTypeOK

-----------------------------------------------------------------------------
(* The site changes. *)
LEMMA Edits ==
  ASSUME IInv, NEW u \in Urls, NEW doc \in Docs[u], Edit(u, doc)
  PROVE  IInv'
<1>1. doc \in Written
  BY DEF Written
<1>2. EngineTypeOK'
  BY <1>1 DEF IInv, EngineTypeOK, Edit, storeVars
<1>3. NamedObjectsExist'
  BY DEF IInv, NamedObjectsExist, Edit, storeVars
<1>4. \A t \in Traversers : InFlight(t)'
  BY DEF IInv, Edit, storeVars, InFlight, Equipped, OldExists, Answering, Saving, Recording, Url, Entry, DiffOf
<1> QED
  BY <1>2, <1>3, <1>4 DEF IInv

LEMMA Inductive ==
  ASSUME IInv, [EngineNext]_engineVars
  PROVE  IInv'
<1>1. CASE UNCHANGED engineVars
  <2>1. EngineTypeOK' /\ NamedObjectsExist'
    BY <1>1 DEF IInv, EngineTypeOK, NamedObjectsExist, engineVars
  <2>2. \A t \in Traversers : InFlight(t)'
    BY <1>1 DEF IInv, engineVars, InFlight, Equipped, OldExists, Answering, Saving, Recording, Url, Entry, DiffOf
  <2> QED
    BY <2>1, <2>2 DEF IInv
<1>2. ASSUME NEW t \in Traversers, Step(t)
      PROVE  IInv'
  BY <1>2, Between, Checks, Confirms, Blames, Stores, Compares, Saves, Records DEF Step
<1>3. ASSUME NEW u \in Urls, NEW doc \in Docs[u], Edit(u, doc)
      PROVE  IInv'
  BY <1>3, Edits
<1> QED
  BY <1>1, <1>2, <1>3 DEF EngineNext

LEMMA Initially ==
  ASSUME EngineInit
  PROVE  IInv
<1>1. Idle \in Traversal
  BY Bounds DEF Idle, Traversal, Phases, Results, Nullable
<1>2. scan \in [Traversers -> Traversal] /\ \A t \in Traversers : scan[t] = Idle
  BY <1>1 DEF EngineInit
<1>3. live \in [Urls -> Written] /\ edits \in [Urls -> Nat] /\ begun \in 0..MaxScans
  BY Bounds DEF EngineInit
<1>4. /\ rows \in [Urls -> ResourceRow] /\ objects \subseteq Urls \X Written
      /\ \A u \in Urls : rows[u].state # None => rows[u].known /\ <<u, rows[u].state>> \in objects
  <2>1. PICK read \in {{}, Baselined} :
          /\ rows = [u \in Urls |-> IF u \in read THEN [known |-> TRUE, state |-> live[u], tag |-> Tag(u, live[u])]
                                    ELSE [known |-> FALSE, state |-> None, tag |-> None]]
          /\ objects = {<<u, live[u]>> : u \in read}
    BY DEF EngineInit
  <2>2. read \subseteq Urls
    BY <2>1, SiteAssumption
  <2>3. objects \subseteq Urls \X Written
    BY <1>3, <2>1, <2>2
  <2>4. \A u \in Urls : Tag(u, live[u]) \in Nullable(Written) /\ live[u] \in Written
    BY <1>3 DEF Tag, Nullable
  <2>5. rows \in [Urls -> ResourceRow]
    BY <2>1, <2>4 DEF ResourceRow, Nullable
  <2>6. \A u \in Urls : rows[u].state # None => rows[u].known /\ <<u, rows[u].state>> \in objects
    BY <2>1, <2>2
  <2> QED
    BY <2>3, <2>5, <2>6
<1>5. EngineTypeOK
  BY <1>2, <1>3, <1>4 DEF EngineTypeOK, EngineInit
<1>6. NamedObjectsExist
  BY <1>4 DEF NamedObjectsExist, EngineInit
<1>7. \A t \in Traversers : InFlight(t)
  BY <1>2 DEF Idle, InFlight, Equipped, OldExists, Answering, Saving, Recording, Checking, Walks
<1> QED
  BY <1>5, <1>6, <1>7 DEF IInv

-----------------------------------------------------------------------------
(* Rows, objects, runs and what a traversal holds are well typed: the queue  *)
(* names sitemaps of the site, a run has one of the results of the table.    *)
THEOREM EngineTyped == EngineSpec => []EngineTypeOK
<1>1. EngineSpec => []IInv
  BY Initially, Inductive, PTL DEF EngineSpec
<1> QED
  BY <1>1, PTL DEF IInv

(* A row and a run of the engine name only objects that are there, wherever  *)
(* traversals end and however they overlap (_apply_fingerprint, _record).    *)
THEOREM ObjectsBeforeNames == EngineSpec => []NamedObjectsExist
<1>1. EngineSpec => []IInv
  BY Initially, Inductive, PTL DEF EngineSpec
<1> QED
  BY <1>1, PTL DEF IInv

-----------------------------------------------------------------------------
(* What holds besides when one traversal runs at a time.  A validator is that *)
(* of the state of its row.                                                   *)
Tagging == \A u \in Urls : rows[u].tag # None => rows[u].tag = rows[u].state

Asking == {"fetch", "confirm", "store", "compare", "save"}

(* The row is the one the check has read, and what it decided is about it.    *)
Remembers(t) ==
  /\ scan[t].at \in Asking => scan[t].old = Existing(Url(t))
  /\ scan[t].at = "confirm" => scan[t].old.tag # None /\ scan[t].answer = scan[t].old.tag
  /\ scan[t].at = "compare" \/ (scan[t].at = "save" /\ scan[t].result = "changed")
       => scan[t].old # None /\ scan[t].old.state.urls # scan[t].answer.urls
  /\ scan[t].at = "record" /\ scan[t].result # "failed"
       => rows[Url(t)].state = scan[t].answer /\ scan[t].kids = Children(scan[t].answer)

(* What the site named is visited, or waits in the queue to be.               *)
Waits(u, queue) == \E i \in DOMAIN queue : queue[i].url = u /\ ~queue[i].fallback

Owes(t) ==
  /\ scan[t].at \in Checking => Url(t) \in scan[t].visited
  /\ scan[t].at = "robots" => scan[t].owed = {}
  /\ scan[t].at = "done" => scan[t].queue = <<>>
  /\ scan[t].complete => \A u \in scan[t].owed : u \in scan[t].visited \/ Waits(u, scan[t].queue)

(* A report is paid for by a change of the site: those made, those still due  *)
(* for the answer a check holds, and the one for what the site has now.       *)
Moved(old, new) == IF old = None \/ old = new THEN 0 ELSE 1

ReportsOf(u) == {r \in runs : r.url = u /\ r.result = "changed"}

Holds(t, u) == scan[t].at \in Asking \ {"fetch"} /\ Url(t) = u

Due(t, u) == IF scan[t].at = "record" /\ scan[t].result = "changed" /\ Url(t) = u THEN 1 ELSE 0

Debt(t, u) ==
  IF Holds(t, u) THEN Moved(rows[u].state, scan[t].answer) + Moved(scan[t].answer, live[u])
                 ELSE Moved(rows[u].state, live[u]) + Due(t, u)

Tallied(t) ==
  /\ IsFiniteSet(runs)
  /\ \A u \in Urls : Cardinality(ReportsOf(u)) + Debt(t, u) <= edits[u]

Single(t) == IInv /\ Tagging /\ Remembers(t) /\ Owes(t) /\ Tallied(t)

-----------------------------------------------------------------------------
LEMMA Covers ==
  ASSUME NEW S, IsFiniteSet(S), NEW x \in S
  PROVE  \E i \in 1..Len(SetToSeq(S)) : SetToSeq(S)[i] = x
<1>1. Cardinality(S) \in Nat /\ ExistsBijection(1..Cardinality(S), S)
  BY FS_CardinalityType
<1>2. PICK f \in Bijection(1..Cardinality(S), S) : TRUE
  BY <1>1 DEF ExistsBijection
<1>3. f \in [1..Cardinality(S) -> S] /\ IsInjective(f)
  BY <1>2 DEF Bijection, Injection, Surjection, IsInjective
<1>4. PICK g : g = SetToSeq(S)
  OBVIOUS
<1>5. g \in [1..Cardinality(S) -> S] /\ IsInjective(g)
  BY <1>3, <1>4 DEF SetToSeq
<1>6. g \in Injection(1..Cardinality(S), S)
  BY <1>5 DEF Injection
<1>7. IsFiniteSet(1..Cardinality(S)) /\ Cardinality(1..Cardinality(S)) = Cardinality(S)
  BY <1>1, FS_Interval
<1>8. g \in Surjection(1..Cardinality(S), S)
  BY <1>6, <1>7, FS_Injection
<1>9. Len(g) = Cardinality(S) /\ \E i \in 1..Cardinality(S) : g[i] = x
  BY <1>1, <1>5, <1>8 DEF Surjection
<1> QED
  BY <1>4, <1>9

LEMMA Fares ==
  ASSUME NEW a, NEW b, NEW c
  PROVE  /\ Moved(a, b) \in {0, 1} /\ Moved(a, a) = 0
         /\ Moved(a, c) <= Moved(a, b) + Moved(b, c)
  BY DEF Moved

(* The queue moves on: what waits but at its head waits in its tail.          *)
LEMMA MovesOn ==
  ASSUME NEW q \in Seq(Queued), q # <<>>, NEW u, Waits(u, q),
         Head(q).url # u \/ Head(q).fallback
  PROVE  Waits(u, Tail(q))
<1>1. PICK i \in DOMAIN q : q[i].url = u /\ ~q[i].fallback
  BY DEF Waits
<1>2. i \in 2..Len(q)
  BY <1>1
<1>3. i - 1 \in DOMAIN Tail(q) /\ Tail(q)[i - 1] = q[i]
  BY <1>2
<1> QED
  BY <1>1, <1>3 DEF Waits

LEMMA WaitsLonger ==
  ASSUME NEW q \in Seq(Queued), NEW more \in Seq(Queued), NEW u, Waits(u, q) \/ Waits(u, more)
  PROVE  Waits(u, q \o more)
<1>1. CASE Waits(u, q)
  <2>1. PICK i \in DOMAIN q : q[i].url = u /\ ~q[i].fallback
    BY <1>1 DEF Waits
  <2>2. i \in DOMAIN (q \o more) /\ (q \o more)[i] = q[i]
    BY <2>1
  <2> QED
    BY <2>1, <2>2 DEF Waits
<1>2. CASE Waits(u, more)
  <2>1. PICK i \in DOMAIN more : more[i].url = u /\ ~more[i].fallback
    BY <1>2 DEF Waits
  <2>2. Len(q) + i \in DOMAIN (q \o more) /\ (q \o more)[Len(q) + i] = more[i]
    BY <2>1
  <2> QED
    BY <2>1, <2>2 DEF Waits
<1> QED
  BY <1>1, <1>2

LEMMA KidsWait ==
  ASSUME NEW s \in Traversal, NEW depth \in Nat, NEW u \in s.kids \cap Hosted
  PROVE  Waits(u, Enqueued(s, depth))
<1>1. IsFiniteSet(s.kids \cap Hosted)
  BY SiteAssumption, FS_Subset
<1>2. PICK kids : kids = SetToSeq(s.kids \cap Hosted)
  OBVIOUS
<1>3. PICK i \in 1..Len(kids) : kids[i] = u
  BY <1>1, <1>2, Covers
<1>4. Enqueued(s, depth) = [j \in 1..Len(kids) |-> [url |-> kids[j], depth |-> depth + 1, fallback |-> FALSE]]
  BY <1>2 DEF Enqueued
<1> QED
  BY <1>3, <1>4 DEF Waits

-----------------------------------------------------------------------------
LEMMA Counted ==
  ASSUME IsFiniteSet(runs), NEW u
  PROVE  IsFiniteSet(ReportsOf(u)) /\ Cardinality(ReportsOf(u)) \in Nat
<1>1. ReportsOf(u) \in SUBSET runs
  BY DEF ReportsOf
<1> QED
  BY <1>1, FS_Subset, FS_CardinalityType

LEMMA DebtCounts ==
  ASSUME NEW t, NEW u
  PROVE  Debt(t, u) \in 0..2 /\ Debt(t, u)' \in 0..2
<1>1. /\ Moved(rows[u].state, scan[t].answer) \in {0, 1} /\ Moved(scan[t].answer, live[u]) \in {0, 1}
      /\ Moved(rows[u].state, live[u]) \in {0, 1} /\ Due(t, u) \in {0, 1}
  BY Fares DEF Due
<1>2. /\ Moved(rows'[u].state, scan'[t].answer) \in {0, 1} /\ Moved(scan'[t].answer, live'[u]) \in {0, 1}
      /\ Moved(rows'[u].state, live'[u]) \in {0, 1} /\ Due(t, u)' \in {0, 1}
  BY Fares DEF Due
<1> QED
  BY <1>1, <1>2 DEF Debt

(* No new reports, no more debts.                                             *)
LEMMA PaidDown ==
  ASSUME IInv, NEW t, Tallied(t), UNCHANGED <<edits, runs>>,
         \A u \in Urls : Debt(t, u)' <= Debt(t, u)
  PROVE  Tallied(t)'
<1> SUFFICES ASSUME NEW u \in Urls
             PROVE  Cardinality(ReportsOf(u)) + Debt(t, u)' <= edits[u]
  BY DEF Tallied, ReportsOf
<1>1. Cardinality(ReportsOf(u)) \in Nat /\ Debt(t, u) \in Nat /\ edits[u] \in Nat
  BY Counted, DebtCounts DEF Tallied, IInv, EngineTypeOK
<1>2. Debt(t, u)' \in Nat
  BY DebtCounts
<1> QED
  BY <1>1, <1>2 DEF Tallied

(* A step that leaves a check no answer pays what is due for it.              *)
LEMMA Pays ==
  ASSUME NEW t \in Traversers, Single(t), NEW n \in Traversal, Becomes(t, n),
         UNCHANGED <<siteVars, storeVars>>, n.at \notin (Asking \ {"fetch"}) \cup {"record"}
  PROVE  Tagging' /\ Tallied(t)'
<1>1. scan'[t] = n
  BY DEF Single, IInv, EngineTypeOK, Becomes
<1>2. Tagging'
  BY DEF Single, Tagging, storeVars
<1>3. ASSUME NEW u \in Urls
      PROVE  Debt(t, u)' <= Debt(t, u)
  <2>1. Debt(t, u)' = Moved(rows[u].state, live[u])
    <3>1. ~Holds(t, u)' /\ Due(t, u)' = 0
      BY <1>1 DEF Holds, Due
    <3>2. Moved(rows[u].state, live[u]) \in {0, 1}
      BY Fares
    <3> QED
      BY <3>1, <3>2 DEF Debt, siteVars, storeVars
  <2>2. Moved(rows[u].state, live[u]) <= Debt(t, u)
    <3>1. Due(t, u) \in {0, 1} /\ Moved(rows[u].state, live[u]) \in {0, 1}
      BY Fares DEF Due
    <3> QED
      BY <3>1, Fares DEF Debt
  <2> QED
    BY <2>1, <2>2
<1> QED
  BY <1>2, <1>3, PaidDown DEF Single, siteVars, storeVars

(* A step that ends a check, or is of none, and writes nothing.               *)
LEMMA Quiet ==
  ASSUME NEW t \in Traversers, Single(t), NEW n \in Traversal, Becomes(t, n),
         UNCHANGED <<siteVars, storeVars>>, n.at \in Phases \ Checking
  PROVE  Tagging' /\ Remembers(t)' /\ Tallied(t)'
<1>1. scan'[t] = n
  BY DEF Single, IInv, EngineTypeOK, Becomes
<1>2. Remembers(t)'
  BY <1>1 DEF Remembers, Asking, Checking, Walks
<1> QED
  BY <1>2, Pays DEF Asking, Checking, Walks

LEMMA Settled ==
  ASSUME NEW t \in Traversers, Single(t), NEW n \in Traversal, Becomes(t, n),
         n.at \in Phases \ Checking,
         n.at = "robots" => n.owed = {}, n.at = "done" => n.queue = <<>>,
         n.complete => \A u \in n.owed : u \in n.visited \/ Waits(u, n.queue)
  PROVE  Owes(t)'
<1>1. scan'[t] = n
  BY DEF Single, IInv, EngineTypeOK, Becomes
<1> QED
  BY <1>1 DEF Owes

LEMMA BetweenAlone ==
  ASSUME NEW t \in Traversers, Single(t),
         \/ Begin(t) \/ Rest(t) \/ Ends(t)
         \/ Skip(t) \/ CutDepth(t) \/ CutResources(t) \/ EndTraversal(t)
         \/ \E answered \in BOOLEAN : Discover(t, answered)
  PROVE  Tagging' /\ Remembers(t)' /\ Owes(t)' /\ Tallied(t)'
<1> DEFINE s == scan[t]
<1>1. IInv /\ s \in Traversal /\ EngineTypeOK /\ begun \in 0..MaxScans /\ Owes(t)
  BY DEF Single, IInv, EngineTypeOK
<1>2. Idle \in Traversal
  BY Bounds DEF Idle, Traversal, Phases, Results, Nullable
<1>3. ASSUME NEW n \in Traversal, Becomes(t, n), UNCHANGED <<siteVars, storeVars>>,
             n.at \in Phases \ Checking,
             n.at = "robots" => n.owed = {}, n.at = "done" => n.queue = <<>>,
             n.complete => \A u \in n.owed : u \in n.visited \/ Waits(u, n.queue)
      PROVE  Tagging' /\ Remembers(t)' /\ Owes(t)' /\ Tallied(t)'
  BY <1>3, Quiet, Settled
<1>4. CASE Begin(t)
  <2> DEFINE n == [Idle EXCEPT !.at = "robots", !.number = begun + 1]
  <2>1. begun + 1 \in 0..MaxScans
    BY <1>1, <1>4, Bounds DEF Begin
  <2>2. n \in Traversal
    BY <1>2, <2>1 DEF Traversal, Phases
  <2>3. n.at = "robots" /\ n.owed = {}
    BY DEF Idle
  <2>4. Becomes(t, n) /\ UNCHANGED <<siteVars, storeVars>>
    BY <1>4 DEF Begin
  <2> HIDE DEF n
  <2> QED
    BY <1>3, <2>2, <2>3, <2>4 DEF Phases, Checking, Walks
<1>5. CASE Rest(t) \/ Ends(t)
  BY <1>2, <1>3, <1>5 DEF Rest, Ends, Idle, Phases, Checking, Walks
<1>6. ASSUME NEW n \in Traversal, Becomes(t, n), UNCHANGED <<siteVars, storeVars>>, s.at = "walk",
             s.queue # <<>>, n.at = "walk", n.queue = Tail(s.queue),
             n.complete => s.complete /\ (Visited(t) \/ Unneeded(t)), n.owed = s.owed, n.visited = s.visited
      PROVE  Tagging' /\ Remembers(t)' /\ Owes(t)' /\ Tallied(t)'
  <2>1. s.queue \in Seq(Queued) /\ s.queue # <<>>
    BY <1>1, <1>6 DEF Traversal
  <2>2. ASSUME n.complete, NEW u \in n.owed
        PROVE  u \in n.visited \/ Waits(u, n.queue)
    <3>1. u \in s.visited \/ Waits(u, s.queue)
      BY <1>1, <1>6, <2>2 DEF Owes
    <3>2. Entry(t).url # u \/ Entry(t).fallback \/ u \in s.visited
      BY <1>6, <2>2 DEF Visited, Unneeded
    <3> QED
      BY <1>6, <2>1, <3>1, <3>2, MovesOn DEF Entry
  <2> QED
    BY <1>3, <1>6, <2>2 DEF Phases, Checking, Walks
<1>7. CASE Skip(t)
  <2>1. Tail(s.queue) \in Seq(Queued) /\ s.at = "walk" /\ s.queue # <<>> /\ (Visited(t) \/ Unneeded(t))
    BY <1>1, <1>7, EntryTyped DEF Skip, Walking
  <2> DEFINE n == [s EXCEPT !.queue = Tail(@)]
  <2>2. /\ n \in Traversal /\ n.at = s.at /\ n.queue = Tail(s.queue) /\ n.complete = s.complete
        /\ n.owed = s.owed /\ n.visited = s.visited
    BY <1>1, <2>1 DEF Traversal
  <2>3. Becomes(t, n) /\ UNCHANGED <<siteVars, storeVars>>
    BY <1>7 DEF Skip
  <2> HIDE DEF n
  <2> QED
    BY <1>6, <2>1, <2>2, <2>3
<1>8. CASE CutDepth(t)
  <2>1. Tail(s.queue) \in Seq(Queued) /\ s.at = "walk" /\ s.queue # <<>>
    BY <1>1, <1>8, EntryTyped DEF CutDepth, Walking
  <2> DEFINE n == [s EXCEPT !.queue = Tail(@), !.complete = FALSE]
  <2>2. /\ n \in Traversal /\ n.at = s.at /\ n.queue = Tail(s.queue) /\ ~n.complete
        /\ n.owed = s.owed /\ n.visited = s.visited
    BY <1>1, <2>1 DEF Traversal
  <2>3. Becomes(t, n) /\ UNCHANGED <<siteVars, storeVars>>
    BY <1>8 DEF CutDepth
  <2> HIDE DEF n
  <2> QED
    BY <1>6, <2>1, <2>2, <2>3
<1>9. CASE CutResources(t) \/ EndTraversal(t)
  <2>1. PICK complete \in BOOLEAN :
          /\ Becomes(t, Report(s, complete)) /\ UNCHANGED <<siteVars, storeVars>>
          /\ complete => s.complete /\ s.queue = <<>>
    BY <1>1, <1>9 DEF CutResources, EndTraversal, Traversal
  <2> DEFINE n == Report(s, complete)
  <2>2. /\ n \in Traversal /\ n.at = "done" /\ n.queue = <<>> /\ n.complete = complete
        /\ n.owed = s.owed /\ n.visited = s.visited
    <3>1. <<>> \in Seq(Queued) /\ "done" \in Phases
      BY DEF Phases
    <3> QED
      BY <1>1, <2>1, <3>1 DEF Report, Traversal
  <2>3. complete => \A u \in n.owed : u \in n.visited \/ Waits(u, n.queue)
    BY <1>1, <2>1, <2>2 DEF Owes
  <2> HIDE DEF n
  <2> QED
    BY <1>3, <2>1, <2>2, <2>3 DEF n, Phases, Checking, Walks
<1>10. ASSUME NEW answered \in BOOLEAN, Discover(t, answered)
       PROVE  Tagging' /\ Remembers(t)' /\ Owes(t)' /\ Tallied(t)'
  <2> DEFINE n == [s EXCEPT !.at = "walk", !.queue = Roots(answered), !.fallback = Authoritative(answered) = <<>>]
  <2>1. n \in Traversal
    BY <1>1, RootsTyped DEF Traversal, Phases, Walks
  <2>2. n.at = "walk" /\ n.owed = s.owed /\ s.owed = {}
    BY <1>1, <1>10 DEF Traversal, Discover, Owes
  <2>3. Becomes(t, n) /\ UNCHANGED <<siteVars, storeVars>>
    BY <1>10 DEF Discover
  <2> HIDE DEF n
  <2> QED
    BY <1>3, <2>1, <2>2, <2>3 DEF Phases, Checking, Walks
<1> QED
  BY <1>4, <1>5, <1>7, <1>8, <1>9, <1>10

-----------------------------------------------------------------------------
LEMMA StillOwes ==
  ASSUME NEW t \in Traversers, Single(t), NEW n \in Traversal, Becomes(t, n), n.at \in Checking,
         n.queue = scan[t].queue, n.owed = scan[t].owed, n.complete = scan[t].complete,
         scan[t].visited \subseteq n.visited, Url(t) \in n.visited
  PROVE  Owes(t)'
<1>1. scan'[t] = n /\ Url(t)' = Url(t)
  BY Stays DEF Single
<1> QED
  BY <1>1 DEF Single, Owes, Checking, Walks

LEMMA ChecksAlone ==
  ASSUME NEW t \in Traversers, Single(t),
         Check(t) \/ NotModified(t) \/ Served(t) \/ Refused(t)
  PROVE  Tagging' /\ Remembers(t)' /\ Owes(t)' /\ Tallied(t)'
<1> DEFINE s == scan[t]
<1>1. IInv /\ s \in Traversal /\ EngineTypeOK /\ InFlight(t)
  BY DEF Single, IInv, EngineTypeOK
<1>2. UNCHANGED <<siteVars, storeVars>>
  BY <1>1 DEF Check, NotModified, Served, Refused, Answered
<1>3. CASE Check(t)
  <2> DEFINE u == Entry(t).url
             n == [s EXCEPT !.at = "fetch", !.visited = @ \cup {u}, !.old = Existing(u)]
  <2>1. u \in Urls /\ u = Url(t) /\ s.queue # <<>> /\ s.at = "walk"
    BY <1>1, <1>3, EntryTyped DEF Check, Walking, Url
  <2>2. Existing(u) \in Nullable([state : Written, tag : Nullable(Written)])
    <3>1. rows[u] \in ResourceRow
      BY <1>1, <2>1 DEF EngineTypeOK
    <3> QED
      BY <3>1 DEF Existing, ResourceRow, Nullable
  <2>3. n \in Traversal
    BY <1>1, <2>1, <2>2 DEF Traversal, Phases, Walks
  <2>4. /\ n.at = "fetch" /\ n.queue = s.queue /\ n.old = Existing(u) /\ n.visited = s.visited \cup {u}
        /\ n.owed = s.owed /\ n.complete = s.complete
    BY <1>1 DEF Traversal
  <2>5. Becomes(t, n)
    BY <1>3 DEF Check
  <2> HIDE DEF n
  <2>6. scan'[t] = n /\ Url(t)' = Url(t)
    BY <1>1, <2>3, <2>4, <2>5, Stays
  <2>7. Tagging' /\ Tallied(t)'
    BY <1>2, <2>3, <2>4, <2>5, Pays DEF Asking
  <2>8. Remembers(t)'
    BY <1>2, <2>1, <2>4, <2>6 DEF Remembers, Existing, storeVars
  <2>9. Owes(t)'
    BY <2>1, <2>3, <2>4, <2>5, StillOwes DEF Checking, Walks
  <2> QED
    BY <2>7, <2>8, <2>9
<1>4. ASSUME NEW phase \in {"confirm", "store"}, Answered(t, phase),
             phase = "confirm" => Unmodified(t)
      PROVE  Tagging' /\ Remembers(t)' /\ Owes(t)' /\ Tallied(t)'
  <2> DEFINE u == Url(t)
             n == [s EXCEPT !.at = phase, !.answer = live[u]]
  <2>1. s.at = "fetch" /\ s.at \in Checking /\ s.at \in Asking /\ Becomes(t, n)
    BY <1>4 DEF Answered, Checking, Walks, Asking
  <2>2. u \in Urls
    BY <1>1, <2>1, UnderWay
  <2>3. n \in Traversal
    BY <1>1, <1>4, <2>2 DEF EngineTypeOK, Traversal, Phases, Walks, Nullable
  <2>4. /\ n.at = phase /\ n.answer = live[u] /\ n.queue = s.queue /\ n.old = s.old
        /\ n.visited = s.visited /\ n.owed = s.owed /\ n.complete = s.complete
    BY <1>1 DEF Traversal
  <2> HIDE DEF n
  <2>5. scan'[t] = n /\ u' = u
    BY <1>1, <2>1, <2>3, <2>4, Stays
  <2>6. Owes(t)'
    BY <1>4, <2>1, <2>3, <2>4, StillOwes DEF Single, Owes, Checking, Walks
  <2>7. Remembers(t)'
    <3>1. s.old = Existing(u)
      BY <2>1 DEF Single, Remembers
    <3>2. phase = "confirm" => s.old.tag # None /\ live[u] = s.old.tag
      BY <1>4 DEF Unmodified, Tag
    <3> QED
      BY <1>2, <1>4, <2>4, <2>5, <3>1, <3>2 DEF Remembers, Existing, storeVars
  <2>8. ASSUME NEW v \in Urls
        PROVE  Debt(t, v)' <= Debt(t, v)
    <3>1. Debt(t, v) = Moved(rows[v].state, live[v])
      <4>1. ~Holds(t, v) /\ Due(t, v) = 0 /\ Moved(rows[v].state, live[v]) \in {0, 1}
        BY <2>1, Fares DEF Holds, Due
      <4> QED
        BY <4>1 DEF Debt
    <3>2. rows' = rows /\ live' = live
      BY <1>2 DEF siteVars, storeVars
    <3>3. CASE v = u
      <4>1. Holds(t, v)'
        BY <1>4, <2>4, <2>5, <3>3 DEF Holds, Asking
      <4>2. Debt(t, v)' = Moved(rows[v].state, live[v]) + Moved(live[v], live[v])
        BY <2>4, <2>5, <3>2, <3>3, <4>1 DEF Debt
      <4> QED
        BY <3>1, <4>2, Fares
    <3>4. CASE v # u
      <4>1. ~Holds(t, v)' /\ Due(t, v)' = 0 /\ Moved(rows[v].state, live[v]) \in {0, 1}
        BY <1>4, <2>4, <2>5, <3>4, Fares DEF Holds, Due
      <4> QED
        BY <3>1, <3>2, <4>1 DEF Debt
    <3> QED
      BY <3>3, <3>4
  <2>9. Tagging' /\ Tallied(t)'
    BY <1>1, <1>2, <2>8, PaidDown DEF Single, Tagging, siteVars, storeVars
  <2> QED
    BY <2>6, <2>7, <2>9
<1>5. CASE Refused(t)
  <2> DEFINE n == [s EXCEPT !.at = "blame"]
  <2>1. s.at = "fetch" /\ s.at \in Checking /\ Becomes(t, n)
    BY <1>5 DEF Refused, Checking, Walks
  <2>2. n \in Traversal
    BY <1>1 DEF Traversal, Phases, Walks
  <2>3. /\ n.at = "blame" /\ n.queue = s.queue /\ n.visited = s.visited
        /\ n.owed = s.owed /\ n.complete = s.complete
    BY <1>1 DEF Traversal
  <2> HIDE DEF n
  <2>4. scan'[t] = n
    BY <1>1, <2>1, <2>2, <2>3, Stays
  <2>5. Tagging' /\ Tallied(t)'
    BY <1>2, <2>1, <2>2, <2>3, Pays DEF Asking
  <2>6. Remembers(t)'
    BY <2>3, <2>4 DEF Remembers, Asking
  <2>7. Owes(t)'
    BY <2>1, <2>2, <2>3, StillOwes DEF Single, Owes, Checking, Walks
  <2> QED
    BY <2>5, <2>6, <2>7
<1> QED
  BY <1>3, <1>4, <1>5 DEF NotModified, Served

-----------------------------------------------------------------------------
(* What a step of the check of another sitemap leaves due.                    *)
LEMMA Elsewhere ==
  ASSUME NEW t, NEW v, v # Url(t), Url(t)' = Url(t), rows'[v].state = rows[v].state, live' = live
  PROVE  Debt(t, v)' = Debt(t, v)
<1>1. ~Holds(t, v) /\ ~Holds(t, v)' /\ Due(t, v) = 0 /\ Due(t, v)' = 0
  BY DEF Holds, Due
<1> QED
  BY <1>1 DEF Debt

LEMMA DueToRecord ==
  ASSUME NEW t, NEW u, Url(t)' = u, scan'[t].at = "record"
  PROVE  Debt(t, u)' = Moved(rows'[u].state, live'[u]) + (IF scan'[t].result = "changed" THEN 1 ELSE 0)
<1>1. ~Holds(t, u)' /\ Due(t, u)' = IF scan'[t].result = "changed" THEN 1 ELSE 0
  BY DEF Holds, Due, Asking
<1> QED
  BY <1>1 DEF Debt

LEMMA BlamesAlone ==
  ASSUME NEW t \in Traversers, Single(t), Blame(t)
  PROVE  Tagging' /\ Remembers(t)' /\ Owes(t)' /\ Tallied(t)'
<1> DEFINE s == scan[t]
           n == [s EXCEPT !.at = "record", !.result = "failed"]
<1> USE DEF Single
<1>1. s.at = "blame" /\ s.at \in Checking
  BY DEF Blame, Checking, Walks
<1>2. PICK u : u = Url(t)
  OBVIOUS
<1>3. EngineTypeOK /\ s \in Traversal /\ u \in Urls
  BY <1>1, <1>2, UnderWay
<1>4. n \in Traversal
  BY <1>3 DEF Traversal, Phases, Walks, Results
<1>5. /\ n.at = "record" /\ n.result = "failed" /\ n.queue = s.queue
      /\ n.visited = s.visited /\ n.owed = s.owed /\ n.complete = s.complete
  BY <1>3 DEF Traversal
<1>6. Becomes(t, n) /\ rows' = [rows EXCEPT ![u].known = TRUE] /\ UNCHANGED <<siteVars, runs>>
  BY <1>2 DEF Blame
<1> HIDE DEF n
<1>7. scan'[t] = n /\ Url(t)' = u
  BY <1>2, <1>4, <1>5, <1>6, Stays
<1>8. \A v \in Urls : rows'[v].state = rows[v].state /\ rows'[v].tag = rows[v].tag
  BY <1>3, <1>6 DEF EngineTypeOK, ResourceRow
<1>9. Tagging' /\ Remembers(t)'
  BY <1>5, <1>7, <1>8 DEF Tagging, Remembers, Asking
<1>10. Owes(t)'
  BY <1>1, <1>4, <1>5, <1>6, StillOwes DEF Owes, Checking, Walks
<1>11. Debt(t, u)' <= Debt(t, u)
  <2>1. Debt(t, u)' = Moved(rows[u].state, live[u]) + 0
    BY <1>3, <1>5, <1>6, <1>7, <1>8, DueToRecord DEF siteVars
  <2>2. ~Holds(t, u) /\ Due(t, u) = 0
    BY <1>1 DEF Holds, Due, Asking
  <2> QED
    BY <2>1, <2>2, Fares DEF Debt
<1>12. \A v \in Urls : Debt(t, v)' <= Debt(t, v)
  <2> SUFFICES ASSUME NEW v \in Urls, v # u
               PROVE  Debt(t, v)' <= Debt(t, v)
    BY <1>11
  <2> QED
    BY <1>2, <1>6, <1>7, <1>8, Elsewhere, DebtCounts DEF siteVars
<1> QED
  BY <1>6, <1>9, <1>10, <1>12, PaidDown DEF siteVars

LEMMA ConfirmsAlone ==
  ASSUME NEW t \in Traversers, Single(t), Confirm(t)
  PROVE  Tagging' /\ Remembers(t)' /\ Owes(t)' /\ Tallied(t)'
<1> DEFINE s == scan[t]
<1> USE DEF Single
<1>1. s.at = "confirm" /\ s.at \in Checking
  BY DEF Confirm, Checking, Walks
<1>2. PICK u : u = Url(t)
  OBVIOUS
<1>3. EngineTypeOK /\ s \in Traversal /\ u \in Urls /\ InFlight(t) /\ rows[u] \in ResourceRow
  BY <1>1, <1>2, UnderWay
<1>4. /\ s.answer \in Written /\ s.old # None /\ <<u, s.old.state>> \in objects
      /\ s.old = Existing(u) /\ s.old.tag # None /\ s.answer = s.old.tag
  BY <1>1, <1>2, <1>3 DEF InFlight, Answering, OldExists, Remembers, Asking
<1>5. s.old.state = s.answer /\ rows[u].state = s.answer
  <2>1. rows[u].state # None /\ s.old.state = rows[u].state /\ s.old.tag = rows[u].tag
    BY <1>4 DEF Existing
  <2> QED
    BY <1>3, <1>4, <2>1 DEF Tagging
<1> DEFINE kids == StoredChildren(u, s.old.state)
           n == [s EXCEPT !.at = "record", !.result = "not_modified", !.kids = kids]
<1>6. kids = Children(s.answer) /\ kids \in SUBSET Names
  BY <1>4, <1>5, ChildrenNamed DEF StoredChildren
<1>7. /\ Becomes(t, n) /\ UNCHANGED <<siteVars, runs>>
      /\ \E tag \in {rows[u].tag, Tag(u, s.answer)} : rows' = [rows EXCEPT ![u].tag = tag]
  BY <1>2 DEF Confirm
<1> HIDE DEF kids
<1>8. n \in Traversal
  BY <1>3, <1>6 DEF Traversal, Phases, Walks, Results
<1>9. /\ n.at = "record" /\ n.result = "not_modified" /\ n.queue = s.queue /\ n.answer = s.answer
      /\ n.kids = kids /\ n.visited = s.visited /\ n.owed = s.owed /\ n.complete = s.complete
  BY <1>3 DEF Traversal
<1> HIDE DEF n
<1>10. scan'[t] = n /\ Url(t)' = u
  BY <1>2, <1>7, <1>8, <1>9, Stays
<1>11. /\ \A v \in Urls : rows'[v].state = rows[v].state
       /\ \A v \in Urls \ {u} : rows'[v].tag = rows[v].tag
       /\ rows'[u].tag \in {rows[u].tag, Tag(u, s.answer)}
  BY <1>3, <1>7 DEF EngineTypeOK, ResourceRow
<1>12. Tagging'
  <2>1. rows'[u].tag # None => rows'[u].tag = rows'[u].state
    BY <1>3, <1>5, <1>11 DEF Tagging, Tag
  <2> QED
    BY <1>11, <2>1 DEF Tagging
<1>13. Remembers(t)'
  BY <1>3, <1>5, <1>6, <1>9, <1>10, <1>11 DEF Remembers, Asking
<1>14. Owes(t)'
  BY <1>1, <1>7, <1>8, <1>9, StillOwes DEF Owes, Checking, Walks
<1>15. Debt(t, u)' <= Debt(t, u)
  <2>1. Debt(t, u)' = Moved(rows[u].state, live[u]) + 0
    BY <1>3, <1>7, <1>9, <1>10, <1>11, DueToRecord DEF siteVars
  <2>2. Debt(t, u) = Moved(rows[u].state, s.answer) + Moved(s.answer, live[u])
    BY <1>1, <1>2 DEF Holds, Asking, Debt
  <2> QED
    BY <2>1, <2>2, Fares
<1>16. \A v \in Urls : Debt(t, v)' <= Debt(t, v)
  <2> SUFFICES ASSUME NEW v \in Urls, v # u
               PROVE  Debt(t, v)' <= Debt(t, v)
    BY <1>15
  <2> QED
    BY <1>2, <1>7, <1>10, <1>11, Elsewhere, DebtCounts DEF siteVars
<1> QED
  BY <1>7, <1>12, <1>13, <1>14, <1>16, PaidDown DEF siteVars

(* Store and Compare: the answer is still held, the row still the one read.   *)
LEMMA HoldsOn ==
  ASSUME NEW t \in Traversers, Single(t), NEW n \in Traversal, Becomes(t, n),
         UNCHANGED <<siteVars, rows, runs>>,
         scan[t].at \in {"store", "compare"}, n.at \in {"compare", "save"},
         n.queue = scan[t].queue, n.owed = scan[t].owed, n.complete = scan[t].complete,
         n.visited = scan[t].visited, n.old = scan[t].old, n.answer = scan[t].answer,
         n.at = "compare" \/ n.result = "changed" => n.old # None /\ n.old.state.urls # n.answer.urls
  PROVE  Tagging' /\ Remembers(t)' /\ Owes(t)' /\ Tallied(t)'
<1> USE DEF Single
<1>1. scan'[t] = n /\ Url(t)' = Url(t)
  BY Stays
<1>2. Tagging' /\ Remembers(t)'
  BY <1>1 DEF Tagging, Remembers, Existing, Asking
<1>3. Owes(t)'
  BY StillOwes DEF Owes, Checking, Walks
<1>4. ASSUME NEW v \in Urls
      PROVE  Debt(t, v)' = Debt(t, v)
  <2>1. CASE v = Url(t)
    <3>1. Holds(t, v) /\ Holds(t, v)'
      BY <1>1, <2>1 DEF Holds, Asking
    <3> QED
      BY <1>1, <3>1 DEF Debt, siteVars
  <2> QED
    BY <1>1, <2>1, Elsewhere DEF siteVars
<1> QED
  BY <1>2, <1>3, <1>4, PaidDown, DebtCounts DEF siteVars

LEMMA StoresAlone ==
  ASSUME NEW t \in Traversers, Single(t), Store(t)
  PROVE  Tagging' /\ Remembers(t)' /\ Owes(t)' /\ Tallied(t)'
<1> DEFINE s == scan[t]
           saved(result) == [s EXCEPT !.at = "save", !.result = result]
           compared == [s EXCEPT !.at = "compare"]
<1> USE DEF Single
<1>1. s.at = "store" /\ s \in Traversal /\ UNCHANGED <<siteVars, rows, runs>>
  BY DEF Store, IInv, EngineTypeOK
<1>2. \A result \in {"baseline", "semantic_unchanged"} :
        /\ saved(result) \in Traversal /\ saved(result).at = "save" /\ saved(result).result = result
        /\ saved(result).queue = s.queue /\ saved(result).owed = s.owed
        /\ saved(result).complete = s.complete /\ saved(result).visited = s.visited
        /\ saved(result).old = s.old /\ saved(result).answer = s.answer
  BY <1>1 DEF Traversal, Phases, Walks, Results
<1>3. /\ compared \in Traversal /\ compared.at = "compare" /\ compared.queue = s.queue
      /\ compared.owed = s.owed /\ compared.complete = s.complete /\ compared.visited = s.visited
      /\ compared.old = s.old /\ compared.answer = s.answer
  BY <1>1 DEF Traversal, Phases, Walks
<1>4. \/ Becomes(t, saved("baseline")) \/ Becomes(t, saved("semantic_unchanged"))
      \/ s.old # None /\ s.old.state.urls # s.answer.urls /\ Becomes(t, compared)
  BY DEF Store, SameUrls
<1> HIDE DEF saved, compared
<1>5. ASSUME NEW result \in {"baseline", "semantic_unchanged"}, Becomes(t, saved(result))
      PROVE  Tagging' /\ Remembers(t)' /\ Owes(t)' /\ Tallied(t)'
  BY <1>1, <1>2, <1>5, HoldsOn
<1>6. CASE s.old # None /\ s.old.state.urls # s.answer.urls /\ Becomes(t, compared)
  BY <1>1, <1>3, <1>6, HoldsOn
<1> QED
  BY <1>4, <1>5, <1>6

LEMMA ComparesAlone ==
  ASSUME NEW t \in Traversers, Single(t), Compare(t)
  PROVE  Tagging' /\ Remembers(t)' /\ Owes(t)' /\ Tallied(t)'
<1> DEFINE s == scan[t]
           n == [s EXCEPT !.at = "save", !.result = "changed"]
<1> USE DEF Single
<1>1. s.at = "compare" /\ s.at \in Checking
  BY DEF Compare, Checking, Walks
<1>2. s \in Traversal /\ InFlight(t)
  BY <1>1, UnderWay
<1>3. /\ s.old # None /\ <<Url(t), s.old.state>> \in objects
      /\ s.old.state.urls # s.answer.urls
  BY <1>1, <1>2 DEF InFlight, Answering, OldExists, Remembers
<1>4. /\ n \in Traversal /\ n.at = "save" /\ n.result = "changed" /\ n.queue = s.queue
      /\ n.owed = s.owed /\ n.complete = s.complete /\ n.visited = s.visited
      /\ n.old = s.old /\ n.answer = s.answer
  BY <1>2 DEF Traversal, Phases, Walks, Results
<1>5. Becomes(t, n) /\ UNCHANGED <<siteVars, rows, runs>>
  BY <1>3 DEF Compare
<1> HIDE DEF n
<1> QED
  BY <1>1, <1>3, <1>4, <1>5, HoldsOn

LEMMA SavesAlone ==
  ASSUME NEW t \in Traversers, Single(t), Save(t)
  PROVE  Tagging' /\ Remembers(t)' /\ Owes(t)' /\ Tallied(t)'
<1> DEFINE s == scan[t]
           n == [s EXCEPT !.at = "record", !.kids = Children(s.answer)]
<1> USE DEF Single
<1>1. s.at = "save" /\ s.at \in Checking
  BY DEF Save, Checking, Walks
<1>2. PICK u : u = Url(t)
  OBVIOUS
<1>3. EngineTypeOK /\ s \in Traversal /\ u \in Urls /\ InFlight(t)
  BY <1>1, <1>2, UnderWay
<1>4. /\ s.answer \in Written /\ s.old = Existing(u)
      /\ s.result = "changed" => s.old # None /\ s.old.state.urls # s.answer.urls
  BY <1>1, <1>2, <1>3 DEF InFlight, Answering, Remembers, Asking
<1>5. /\ n \in Traversal /\ n.at = "record" /\ n.result = s.result /\ n.queue = s.queue
      /\ n.answer = s.answer /\ n.kids = Children(s.answer)
      /\ n.visited = s.visited /\ n.owed = s.owed /\ n.complete = s.complete
  <2>1. Children(s.answer) \in SUBSET Names
    BY <1>4, ChildrenNamed
  <2> QED
    BY <1>3, <2>1 DEF Traversal, Phases, Walks
<1>6. /\ Becomes(t, n) /\ UNCHANGED <<siteVars, runs>>
      /\ rows' = [rows EXCEPT ![u] = [known |-> TRUE, state |-> s.answer, tag |-> Tag(u, s.answer)]]
  BY <1>2 DEF Save
<1> HIDE DEF n
<1>7. scan'[t] = n /\ Url(t)' = u
  BY <1>2, <1>5, <1>6, Stays
<1>8. /\ rows'[u].state = s.answer /\ rows'[u].tag = Tag(u, s.answer)
      /\ \A v \in Urls \ {u} : rows'[v] = rows[v]
  BY <1>3, <1>6 DEF EngineTypeOK
<1>9. Tagging' /\ Remembers(t)'
  <2>1. Tagging'
    BY <1>8 DEF Tagging, Tag
  <2>2. Remembers(t)'
    BY <1>5, <1>7, <1>8 DEF Remembers, Asking
  <2> QED
    BY <2>1, <2>2
<1>10. Owes(t)'
  BY <1>1, <1>5, <1>6, StillOwes DEF Owes, Checking, Walks
<1>11. Debt(t, u)' <= Debt(t, u)
  <2>1. Debt(t, u)' = Moved(s.answer, live[u]) + (IF s.result = "changed" THEN 1 ELSE 0)
    BY <1>5, <1>6, <1>7, <1>8, DueToRecord DEF siteVars
  <2>2. Debt(t, u) = Moved(rows[u].state, s.answer) + Moved(s.answer, live[u])
    BY <1>1, <1>2 DEF Holds, Asking, Debt
  <2>3. s.result = "changed" => Moved(rows[u].state, s.answer) = 1
    <3> SUFFICES ASSUME s.result = "changed"
                 PROVE  rows[u].state # None /\ rows[u].state # s.answer
      BY DEF Moved
    <3>1. rows[u].state # None /\ s.old.state = rows[u].state
      BY <1>4 DEF Existing
    <3> QED
      BY <1>4, <3>1
  <2>4. Moved(rows[u].state, s.answer) \in {0, 1} /\ Moved(s.answer, live[u]) \in {0, 1}
    BY Fares
  <2> QED
    BY <2>1, <2>2, <2>3, <2>4
<1>12. \A v \in Urls : Debt(t, v)' <= Debt(t, v)
  <2> SUFFICES ASSUME NEW v \in Urls, v # u
               PROVE  Debt(t, v)' <= Debt(t, v)
    BY <1>11
  <2> QED
    BY <1>2, <1>6, <1>7, <1>8, Elsewhere, DebtCounts DEF siteVars
<1> QED
  BY <1>6, <1>9, <1>10, <1>12, PaidDown DEF siteVars

LEMMA RecordsTally ==
  ASSUME NEW t \in Traversers, Single(t), Record(t), scan'[t].at = "walk"
  PROVE  Tallied(t)'
<1> DEFINE s == scan[t]
           u == Url(t)
           run == [scan |-> s.number, url |-> u, result |-> s.result, state |-> Reported(s)]
<1>1. /\ s.at = "record" /\ runs' \in {runs, runs \cup {run}}
      /\ UNCHANGED <<live, edits, rows>>
  BY DEF Record, Recorded, Url, siteVars
<1>2. IsFiniteSet(runs) /\ IsFiniteSet(runs')
  BY <1>1, FS_AddElement DEF Single, Tallied
<1> SUFFICES ASSUME NEW v \in Urls
             PROVE  Cardinality(ReportsOf(v)') + Debt(t, v)' <= edits[v]
  BY <1>1, <1>2 DEF Tallied
<1>3. /\ Cardinality(ReportsOf(v)) + Debt(t, v) <= edits[v]
      /\ Cardinality(ReportsOf(v)) \in Nat /\ edits[v] \in Nat
  BY Counted DEF Single, Tallied, IInv, EngineTypeOK
<1>4. /\ Debt(t, v) = Moved(rows[v].state, live[v]) + Due(t, v)
      /\ Debt(t, v)' = Moved(rows[v].state, live[v])
      /\ Moved(rows[v].state, live[v]) \in {0, 1} /\ Due(t, v) \in {0, 1}
  <2>1. ~Holds(t, v) /\ ~Holds(t, v)' /\ Due(t, v)' = 0
    BY <1>1 DEF Holds, Asking, Due
  <2>2. Moved(rows[v].state, live[v]) \in {0, 1} /\ Due(t, v) \in {0, 1}
    BY Fares DEF Due
  <2> QED
    BY <1>1, <2>1, <2>2 DEF Debt
<1>5. CASE s.result = "changed" /\ v = u
  <2>1. Due(t, v) = 1
    BY <1>1, <1>5 DEF Due
  <2>2. ReportsOf(v)' = ReportsOf(v) \/ ReportsOf(v)' = ReportsOf(v) \cup {run}
    BY <1>1, <1>5 DEF ReportsOf
  <2>3. /\ Cardinality(ReportsOf(v)') <= Cardinality(ReportsOf(v)) + 1
        /\ Cardinality(ReportsOf(v)') \in Nat
    <3>1. PICK R, r : R = ReportsOf(v) /\ r = run
      OBVIOUS
    <3>2. /\ IsFiniteSet(R) /\ IsFiniteSet(R \cup {r}) /\ Cardinality(R) \in Nat
          /\ Cardinality(R \cup {r}) = IF r \in R THEN Cardinality(R) ELSE Cardinality(R) + 1
      BY <1>2, <3>1, Counted, FS_AddElement
    <3>3. ReportsOf(v)' = R \/ ReportsOf(v)' = R \cup {r}
      BY <2>2, <3>1
    <3>4. PICK S : S = ReportsOf(v)'
      OBVIOUS
    <3>5. Cardinality(S) <= Cardinality(R) + 1 /\ Cardinality(S) \in Nat
      <4>1. CASE S = R
        BY <3>2, <4>1
      <4>2. CASE S = R \cup {r}
        BY <3>2, <4>2
      <4> QED
        BY <3>3, <3>4, <4>1, <4>2
    <3> QED
      BY <3>1, <3>4, <3>5
  <2> QED
    BY <1>3, <1>4, <2>1, <2>3
<1>6. CASE ~(s.result = "changed" /\ v = u)
  <2>1. ReportsOf(v)' = ReportsOf(v)
    BY <1>1, <1>6 DEF ReportsOf
  <2> QED
    BY <1>3, <1>4, <2>1
<1> QED
  BY <1>5, <1>6

LEMMA RecordsAlone ==
  ASSUME NEW t \in Traversers, Single(t), Record(t)
  PROVE  Tagging' /\ Remembers(t)' /\ Owes(t)' /\ Tallied(t)'
<1> DEFINE s == scan[t]
           e == Entry(t)
           usable == s.result # "failed"
           queue == Tail(s.queue) \o Enqueued(s, e.depth)
           owed == IF usable THEN s.owed \cup (Children(s.answer) \cap Hosted) ELSE s.owed
           n == [s EXCEPT !.at = "walk", !.queue = queue,
                          !.found = s.found \/ (e.depth = 0 /\ usable),
                          !.fallback = s.fallback \/ (e.fallback /\ usable),
                          !.owed = owed,
                          !.old = None, !.answer = None, !.result = "failed", !.kids = {}]
<1> USE DEF Single
<1>1. s.at = "record" /\ s.at \in Checking
  BY DEF Record, Checking, Walks
<1>2. /\ EngineTypeOK /\ InFlight(t) /\ s \in Traversal
      /\ e.depth \in Nat /\ Tail(s.queue) \in Seq(Queued) /\ s.queue # <<>> /\ s.queue \in Seq(Queued)
  BY <1>1, UnderWay DEF InFlight, Equipped, Traversal
<1>3. Becomes(t, n) /\ UNCHANGED rows
  BY <1>2 DEF Record, Traversal
<1>4. n.at = "walk" /\ n.queue = queue /\ n.owed = owed /\ n.visited = s.visited /\ n.complete = s.complete
  BY <1>2 DEF Traversal
<1>5. scan'[t] = n
  BY <1>2, <1>3 DEF EngineTypeOK, Becomes
<1>6. Tagging' /\ Remembers(t)'
  BY <1>3, <1>4, <1>5 DEF Tagging, Remembers, Asking
<1>7. Tallied(t)'
  BY <1>4, <1>5, RecordsTally
<1>8. ASSUME s.complete, NEW u \in owed
      PROVE  u \in s.visited \/ Waits(u, queue)
  <2>1. Enqueued(s, e.depth) \in Seq(Queued) /\ Tail(s.queue) \in Seq(Queued)
    BY <1>2, EnqueuedTyped
  <2>2. CASE u \in s.owed
    <3>1. u \in s.visited \/ Waits(u, s.queue)
      BY <1>8, <2>2 DEF Owes
    <3>2. Head(s.queue).url \in s.visited
      BY <1>1 DEF Owes, Url, Entry
    <3> QED
      BY <1>2, <2>1, <3>1, <3>2, MovesOn, WaitsLonger
  <2>3. CASE usable /\ u \in Children(s.answer) \cap Hosted
    <3>1. u \in s.kids \cap Hosted
      BY <1>1, <2>3 DEF Remembers
    <3> QED
      BY <1>2, <2>1, <3>1, KidsWait, WaitsLonger
  <2> QED
    BY <1>8, <2>2, <2>3
<1>9. Owes(t)'
  <2> HIDE DEF n, queue, owed
  <2> QED
    BY <1>4, <1>5, <1>8 DEF Owes, Checking, Walks
<1> QED
  BY <1>6, <1>7, <1>9

LEMMA EditsAlone ==
  ASSUME NEW t \in Traversers, Single(t), NEW u \in Urls, NEW doc \in Docs[u], Edit(u, doc)
  PROVE  Tagging' /\ Remembers(t)' /\ Owes(t)' /\ Tallied(t)'
<1>1. /\ UNCHANGED <<storeVars, scan>> /\ Url(t)' = Url(t)
      /\ edits' = [edits EXCEPT ![u] = @ + 1] /\ live' = [live EXCEPT ![u] = doc]
  BY DEF Edit, Url, Entry
<1>2. Tagging' /\ Remembers(t)' /\ Owes(t)'
  BY <1>1 DEF Single, Tagging, Remembers, Owes, Existing, storeVars
<1>3. ASSUME NEW v \in Urls
      PROVE  Debt(t, v)' - Debt(t, v) <= edits'[v] - edits[v]
  <2>1. Holds(t, v)' = Holds(t, v) /\ Due(t, v)' = Due(t, v)
    BY <1>1 DEF Holds, Due
  <2>2. /\ edits[v] \in Nat /\ edits'[v] = edits[v] + (IF v = u THEN 1 ELSE 0)
        /\ v # u => live'[v] = live[v]
    BY <1>1 DEF Single, IInv, EngineTypeOK
  <2>3. /\ Due(t, v) \in {0, 1}
        /\ \A a \in {rows[v].state, scan[t].answer} :
             /\ Moved(a, live[v]) \in {0, 1} /\ Moved(a, live'[v]) \in {0, 1}
             /\ v # u => Moved(a, live'[v]) = Moved(a, live[v])
        /\ Moved(rows[v].state, scan[t].answer) \in {0, 1}
    BY <2>2, Fares DEF Due
  <2>4. /\ rows' = rows /\ scan' = scan
    BY <1>1 DEF storeVars
  <2>5. CASE Holds(t, v)
    BY <2>1, <2>2, <2>3, <2>4, <2>5 DEF Debt
  <2>6. CASE ~Holds(t, v)
    BY <2>1, <2>2, <2>3, <2>4, <2>6 DEF Debt
  <2> QED
    BY <2>5, <2>6
<1>4. Tallied(t)'
  <2> SUFFICES ASSUME NEW v \in Urls
               PROVE  Cardinality(ReportsOf(v)) + Debt(t, v)' <= edits'[v]
    BY <1>1 DEF Single, Tallied, ReportsOf, storeVars
  <2>1. Cardinality(ReportsOf(v)) \in Nat /\ Cardinality(ReportsOf(v)) + Debt(t, v) <= edits[v]
    BY Counted DEF Single, Tallied
  <2>2. Debt(t, v) \in Nat /\ Debt(t, v)' \in Nat /\ edits[v] \in Nat /\ edits'[v] \in Nat
    BY <1>1, DebtCounts DEF Single, IInv, EngineTypeOK
  <2> QED
    BY <1>3, <2>1, <2>2
<1> QED
  BY <1>2, <1>4

LEMMA SingleInductive ==
  ASSUME NEW t, Traversers = {t}, Single(t), [EngineNext]_engineVars
  PROVE  Single(t)'
<1>1. IInv'
  BY Inductive DEF Single
<1>2. CASE UNCHANGED engineVars
  BY <1>1, <1>2 DEF Single, engineVars, Tagging, Remembers, Owes, Tallied, Existing, Url, Entry,
                    ReportsOf, Debt, Holds, Due
<1>3. CASE Step(t)
  BY <1>1, <1>3, BetweenAlone, ChecksAlone, ConfirmsAlone, BlamesAlone, StoresAlone, ComparesAlone,
     SavesAlone, RecordsAlone DEF Step, Single
<1>4. ASSUME NEW u \in Urls, NEW doc \in Docs[u], Edit(u, doc)
      PROVE  Single(t)'
  BY <1>1, <1>4, EditsAlone DEF Single
<1> QED
  BY <1>2, <1>3, <1>4 DEF EngineNext

LEMMA SingleInitially ==
  ASSUME NEW t, Traversers = {t}, EngineInit
  PROVE  Single(t)
<1>1. IInv /\ scan[t] = Idle
  BY Initially DEF EngineInit
<1>2. PICK read \in {{}, Baselined} :
        rows = [u \in Urls |-> IF u \in read THEN [known |-> TRUE, state |-> live[u], tag |-> Tag(u, live[u])]
                               ELSE [known |-> FALSE, state |-> None, tag |-> None]]
  BY DEF EngineInit
<1>3. Tagging
  BY <1>2 DEF Tagging, Tag
<1>4. Remembers(t) /\ Owes(t)
  BY <1>1 DEF Remembers, Owes, Idle, Asking, Checking, Walks
<1>5. Tallied(t)
  <2>1. runs = {} /\ IsFiniteSet({}) /\ Cardinality({}) = 0
    BY FS_EmptySet DEF EngineInit
  <2> SUFFICES ASSUME NEW u \in Urls
               PROVE  Cardinality(ReportsOf(u)) + Debt(t, u) <= edits[u]
    BY <2>1 DEF Tallied
  <2>2. Cardinality(ReportsOf(u)) = 0 /\ edits[u] = 0
    <3>1. ReportsOf(u) = {}
      BY <2>1 DEF ReportsOf
    <3> QED
      BY <2>1, <3>1 DEF EngineInit
  <2>3. Debt(t, u) = 0
    <3>1. ~Holds(t, u) /\ Due(t, u) = 0
      BY <1>1 DEF Holds, Due, Idle, Asking
    <3>2. Moved(rows[u].state, live[u]) = 0
      BY <1>2 DEF Moved
    <3> QED
      BY <3>1, <3>2 DEF Debt
  <2> QED
    BY <2>2, <2>3
<1> QED
  BY <1>1, <1>3, <1>4, <1>5 DEF Single

LEMMA SingleAlways ==
  ASSUME NEW t, Traversers = {t}
  PROVE  EngineSpec => []Single(t)
<1>1. EngineInit => Single(t)
  BY SingleInitially
<1>2. Single(t) /\ [EngineNext]_engineVars => Single(t)'
  BY SingleInductive
<1> QED
  BY <1>1, <1>2, PTL DEF EngineSpec

(* Several traversals are not Alone.                                          *)
LEMMA AloneIsOne ==
  ASSUME EngineTypeOK, Alone
  PROVE  \E t : Traversers = {t}
<1>1. Cardinality(Traversers) = 1 /\ IsFiniteSet(Traversers)
  BY SiteAssumption DEF EngineTypeOK, Alone
<1> QED
  BY <1>1, FS_Singleton

(* A traversal beside which no other one runs reports what the site answered, *)
(* also after failed checks and traversals that ended half way, and one that   *)
(* calls itself complete has checked every sitemap the site named, also in an  *)
(* index that was not sent again (check_resource, _load_index_entries).        *)
THEOREM TruthfulReports == EngineSpec => []ReportsAreTrue
<1>1. ASSUME NEW t, Traversers = {t}
      PROVE  EngineSpec => []ReportsAreTrue
  <2>1. Single(t) => ReportsAreTrue
    <3> SUFFICES ASSUME Single(t)
                 PROVE  /\ scan[t].at = "record" /\ scan[t].result # "failed"
                             => rows[Url(t)].state = scan[t].answer
                        /\ scan[t].at = "done" /\ scan[t].complete => scan[t].owed \subseteq scan[t].visited
      BY <1>1 DEF ReportsAreTrue
    <3> QED
      BY DEF Single, Remembers, Owes, Waits
  <2> QED
    BY <1>1, <2>1, SingleAlways, PTL
<1>2. ASSUME ~\E t : Traversers = {t}
      PROVE  EngineSpec => []ReportsAreTrue
  <2>1. EngineTypeOK => ReportsAreTrue
    BY <1>2, AloneIsOne DEF ReportsAreTrue
  <2> QED
    BY <2>1, EngineTyped, PTL
<1> QED
  BY <1>1, <1>2

(* A change of a sitemap is reported once, however often its check is tried    *)
(* again and wherever it stopped (_apply_fingerprint, record_run).             *)
THEOREM ChangesReportedOnce == EngineSpec => []ReportedOnce
<1>1. ASSUME NEW t, Traversers = {t}
      PROVE  EngineSpec => []ReportedOnce
  <2>1. Single(t) => ReportedOnce
    <3> SUFFICES ASSUME Single(t), NEW u \in Urls
                 PROVE  Cardinality(ReportsOf(u)) <= edits[u]
      BY DEF ReportedOnce, ReportsOf
    <3>1. /\ Cardinality(ReportsOf(u)) \in Nat /\ Debt(t, u) \in Nat /\ edits[u] \in Nat
          /\ Cardinality(ReportsOf(u)) + Debt(t, u) <= edits[u]
      BY Counted, DebtCounts DEF Single, Tallied, IInv, EngineTypeOK
    <3> QED
      BY <3>1
  <2> QED
    BY <1>1, <2>1, SingleAlways, PTL
<1>2. ASSUME ~\E t : Traversers = {t}
      PROVE  EngineSpec => []ReportedOnce
  <2>1. EngineTypeOK => ReportedOnce
    BY <1>2, AloneIsOne DEF ReportedOnce
  <2> QED
    BY <2>1, EngineTyped, PTL
<1> QED
  BY <1>1, <1>2
=============================================================================
