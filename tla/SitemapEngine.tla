--------------------------- MODULE SitemapEngine ---------------------------
(***************************************************************************)
(* The traversal of one site by sitemap_monitor/engine.py.  It asks for     *)
(* robots.txt, then checks sitemaps one by one: it reads the resource row,  *)
(* asks the site with the validator of that row, writes the state object    *)
(* and, after a change, the diff object, then the row, then the run, and    *)
(* follows the children of an index.  Each of these is a call of its own:   *)
(* the site may change between any two of them, a traversal may end after   *)
(* any of them (the process stops, the store answers with an error, the     *)
(* heartbeat finds the lease lost), and a traversal whose lease expired     *)
(* goes on beside the one that took its job over.                           *)
(***************************************************************************)
EXTENDS Naturals, FiniteSets, Sequences, SequencesExt

CONSTANTS
  Traversers,    \* processes that scan the site: two when a lease can expire
  Urls,          \* sitemaps of the site
  Docs,          \* Docs[u]: what the site may serve there
  Tagged,        \* sitemaps served with an ETag
  Hosted,        \* sitemaps on the host of the index that names them
  Explicit,      \* sitemaps given on the command line, in order
  Robots,        \* sitemaps robots.txt names, in order
  Common,        \* COMMON_SITEMAP_PATHS, in order
  MaxResources,  \* max_resources_per_site
  MaxDepth,      \* max_index_depth
  CompactRuns,   \* compact_resource_runs: the D1 store of production
  Baselined,     \* sitemaps an earlier traversal may have read
  None,          \* a NULL column, a resource without a row
  MaxScans,      \* bound: traversals
  MaxEdits       \* bound: changes of each sitemap

VARIABLES
  live,     \* what the site serves now
  edits,    \* how often each sitemap has changed
  rows,     \* table sitemap_resources
  objects,  \* state objects: <<sitemap, document>>, as the key hashes both
  diffs,    \* diff objects, by traversal, sitemap and new document
  runs,     \* table sitemap_runs
  scan,     \* the traversal each process is in
  begun     \* traversals begun: their numbers are the run namespaces

siteVars == <<live, edits>>
storeVars == <<rows, objects, diffs, runs>>
engineVars == <<live, edits, rows, objects, diffs, runs, scan, begun>>

(* A document: its kind, the URLs it lists and their lastmod.  The state
   object holds all of it; urlset_hash depends on the URLs alone.  The key of
   an object hashes URLs and lastmod and not the kind: documents of one sitemap
   that list the same URLs are of one kind here. *)
Index(urls, lastmod) == [kind |-> "sitemap_index", urls |-> urls, lastmod |-> lastmod]
UrlSet(urls, lastmod) == [kind |-> "urlset", urls |-> urls, lastmod |-> lastmod]

Written == UNION {Docs[u] : u \in Urls}
Nullable(S) == S \cup {None}

(* What documents name: sitemaps of the site, pages, and what is elsewhere. *)
Names == UNION {doc.urls : doc \in Written}

ASSUME SiteAssumption ==
  /\ IsFiniteSet(Traversers) /\ IsFiniteSet(Urls)
  /\ Hosted \subseteq Urls /\ Baselined \subseteq Urls
  /\ Explicit \in Seq(Urls) /\ Robots \in Seq(Urls) /\ Common \in Seq(Urls)
  /\ MaxScans \in Nat

(* What a check may come to. *)
Results == {"baseline", "changed", "failed", "not_modified", "semantic_unchanged"}

(* known: the row exists, also when no state was ever read from it *)
ResourceRow == [known : BOOLEAN, state : Nullable(Written), tag : Nullable(Written)]

Run == [scan : 1..MaxScans, url : Urls, result : Results, state : Nullable(Written)]

Diff == [scan : 1..MaxScans, url : Urls, to : Written]

Queued == [url : Urls, depth : Nat, fallback : BOOLEAN]

Walks == {"walk", "fetch", "confirm", "store", "compare", "save", "blame", "record"}
Phases == {"idle", "robots", "done"} \cup Walks

(* number, queue, visited, found (found_root), fallback (used_fallback) and
   complete (no traversal_reason_codes) belong to the traversal; old (the row
   read), answer (what the site had), result and kids to the check under way.
   owed is not in the code: what the site named in the answers used.        *)
Traversal == [at : Phases, number : 0..MaxScans, queue : Seq(Queued), visited : SUBSET Urls,
         found : BOOLEAN, fallback : BOOLEAN, complete : BOOLEAN, owed : SUBSET Urls,
         old : Nullable([state : Written, tag : Nullable(Written)]),
         answer : Nullable(Written), result : Results, kids : SUBSET Names]

EngineTypeOK ==
  /\ live \in [Urls -> Written]
  /\ edits \in [Urls -> Nat]
  /\ rows \in [Urls -> ResourceRow]
  /\ objects \subseteq Urls \X Written
  /\ diffs \subseteq Diff
  /\ runs \subseteq Run
  /\ scan \in [Traversers -> Traversal]
  /\ begun \in 0..MaxScans

Idle == [at |-> "idle", number |-> 0, queue |-> <<>>, visited |-> {},
         found |-> FALSE, fallback |-> FALSE, complete |-> TRUE, owed |-> {},
         old |-> None, answer |-> None, result |-> "failed", kids |-> {}]

---------------------------------------------------------------------------
(* Discovery.  A sitemap that is named twice is in the queue twice, and the
   second one is passed over as visited; the code drops it before. *)

Authoritative(answered) == Explicit \o (IF answered THEN Robots ELSE <<>>)

Candidates(answered) == Authoritative(answered) \o (IF Explicit = <<>> THEN Common ELSE <<>>)

Root(u, fallback) == [url |-> u, depth |-> 0, fallback |-> fallback]

Roots(answered) ==
  [i \in DOMAIN Candidates(answered) |->
     LET u == Candidates(answered)[i] IN Root(u, u \notin Range(Authoritative(answered)))]

Tag(u, doc) == IF u \in Tagged THEN doc ELSE None

---------------------------------------------------------------------------
(* A new site, or one that was read before; runs is about the traversals that
   follow. *)
EngineInit ==
  /\ live \in [Urls -> Written] /\ \A u \in Urls : live[u] \in Docs[u]
  /\ edits = [u \in Urls |-> 0]
  /\ \E read \in {{}, Baselined} :
       /\ rows = [u \in Urls |-> IF u \in read THEN [known |-> TRUE, state |-> live[u], tag |-> Tag(u, live[u])]
                                 ELSE [known |-> FALSE, state |-> None, tag |-> None]]
       /\ objects = {<<u, live[u]>> : u \in read}
  /\ diffs = {} /\ runs = {}
  /\ scan = [t \in Traversers |-> Idle]
  /\ begun = 0

(* The site changes. *)
Edit(u, doc) ==
  /\ edits[u] < MaxEdits[u] /\ doc \in Docs[u] /\ doc # live[u]
  /\ live' = [live EXCEPT ![u] = doc]
  /\ edits' = [edits EXCEPT ![u] = @ + 1]
  /\ UNCHANGED <<storeVars, scan, begun>>

Becomes(t, s) == scan' = [scan EXCEPT ![t] = s]

(* An attempt of a job: its number is never used again. *)
Begin(t) ==
  /\ scan[t].at \in {"idle", "done"} /\ begun < MaxScans
  /\ begun' = begun + 1
  /\ Becomes(t, [Idle EXCEPT !.at = "robots", !.number = begun + 1])
  /\ UNCHANGED <<siteVars, storeVars>>

(* A tick that finds the site not due. *)
Rest(t) ==
  /\ scan[t].at \in {"idle", "done"}
  /\ Becomes(t, Idle)
  /\ UNCHANGED <<siteVars, storeVars, begun>>

(* robots.txt answers, or does not: the scan goes on without it. *)
Discover(t, answered) ==
  /\ scan[t].at = "robots"
  /\ Becomes(t, [scan[t] EXCEPT !.at = "walk", !.queue = Roots(answered),
                                !.fallback = Authoritative(answered) = <<>>])
  /\ UNCHANGED <<siteVars, storeVars, begun>>

---------------------------------------------------------------------------
(* The queue of scan_site. *)

Walking(t) == scan[t].at = "walk" /\ scan[t].queue # <<>>
Entry(t) == Head(scan[t].queue)
Visited(t) == Entry(t).url \in scan[t].visited
Full(t) == Cardinality(scan[t].visited) >= MaxResources
TooDeep(t) == Entry(t).depth > MaxDepth
Unneeded(t) == Entry(t).fallback /\ scan[t].found

(* An entry that is passed over: checked before, or a common path that is
   not needed as another root has answered. *)
Skip(t) ==
  /\ Walking(t)
  /\ Visited(t) \/ (~Full(t) /\ ~TooDeep(t) /\ Unneeded(t))
  /\ Becomes(t, [scan[t] EXCEPT !.queue = Tail(@)])
  /\ UNCHANGED <<siteVars, storeVars, begun>>

(* index_depth_limit_reached *)
CutDepth(t) ==
  /\ Walking(t) /\ ~Visited(t) /\ ~Full(t) /\ TooDeep(t)
  /\ Becomes(t, [scan[t] EXCEPT !.queue = Tail(@), !.complete = FALSE])
  /\ UNCHANGED <<siteVars, storeVars, begun>>

(* SiteScanResult *)
Report(s, complete) == [s EXCEPT !.at = "done", !.queue = <<>>, !.complete = complete]

(* resource_limit_reached *)
CutResources(t) ==
  /\ Walking(t) /\ ~Visited(t) /\ Full(t)
  /\ Becomes(t, Report(scan[t], FALSE))
  /\ UNCHANGED <<siteVars, storeVars, begun>>

EndTraversal(t) ==
  /\ scan[t].at = "walk" /\ scan[t].queue = <<>>
  /\ Becomes(t, Report(scan[t], scan[t].complete))
  /\ UNCHANGED <<siteVars, storeVars, begun>>

(* get_resource: a row without a state is as good as none. *)
Existing(u) == IF rows[u].state = None THEN None ELSE [state |-> rows[u].state, tag |-> rows[u].tag]

Check(t) ==
  LET u == Entry(t).url
  IN /\ Walking(t) /\ ~Visited(t) /\ ~Full(t) /\ ~TooDeep(t) /\ ~Unneeded(t)
     /\ Becomes(t, [scan[t] EXCEPT !.at = "fetch", !.visited = @ \cup {u}, !.old = Existing(u)])
     /\ UNCHANGED <<siteVars, storeVars, begun>>

---------------------------------------------------------------------------
(* check_resource.  The entry under way stays at the head of the queue. *)

Url(t) == Entry(t).url

(* The site has what the validator of the row read describes. *)
Unmodified(t) ==
  /\ scan[t].old # None
  /\ scan[t].old.tag # None
  /\ scan[t].old.tag = Tag(Url(t), live[Url(t)])

Answered(t, phase) ==
  /\ scan[t].at = "fetch"
  /\ Becomes(t, [scan[t] EXCEPT !.at = phase, !.answer = live[Url(t)]])
  /\ UNCHANGED <<siteVars, storeVars, begun>>

NotModified(t) == Unmodified(t) /\ Answered(t, "confirm")
Served(t) == ~Unmodified(t) /\ Answered(t, "store")

(* A fetch error, a status other than 200 and 304, a document that does not
   parse, a 304 nobody asked for. *)
Refused(t) ==
  /\ scan[t].at = "fetch"
  /\ Becomes(t, [scan[t] EXCEPT !.at = "blame"])
  /\ UNCHANGED <<siteVars, storeVars, begun>>

(* mark_failure: the state and the validators of the row stay. *)
Blame(t) ==
  /\ scan[t].at = "blame"
  /\ rows' = [rows EXCEPT ![Url(t)].known = TRUE]
  /\ Becomes(t, [scan[t] EXCEPT !.at = "record", !.result = "failed"])
  /\ UNCHANGED <<siteVars, objects, diffs, runs, begun>>

Children(doc) == IF doc.kind = "sitemap_index" THEN doc.urls ELSE {}

(* Mutant: an index that was not sent again has no children. *)
NoStoredChildren(u, doc) == {}

(* _load_index_entries: the children of an index that was not sent again
   come from the state object of the row that was read. *)
StoredChildren(u, doc) == IF <<u, doc>> \in objects THEN Children(doc) ELSE {}

(* mark_not_modified: etag = COALESCE(?, etag); a 304 may come without it *)
Confirm(t) ==
  /\ scan[t].at = "confirm"
  /\ \E tag \in {rows[Url(t)].tag, Tag(Url(t), scan[t].answer)} : rows' = [rows EXCEPT ![Url(t)].tag = tag]
  /\ Becomes(t, [scan[t] EXCEPT !.at = "record", !.result = "not_modified",
                                !.kids = StoredChildren(Url(t), scan[t].old.state)])
  /\ UNCHANGED <<siteVars, objects, diffs, runs, begun>>

(* Mutant: only other URLs count, as if the key did not hash lastmod. *)
DiffersInUrls(t) == scan[t].old = None \/ scan[t].old.state.urls # scan[t].answer.urls

(* The entries and lastmod, or the URLs alone, are other ones. *)
Differs(t) == scan[t].old = None \/ scan[t].old.state # scan[t].answer
SameUrls(t) == scan[t].old # None /\ scan[t].old.state.urls = scan[t].answer.urls

(* The state object first. *)
Store(t) ==
  LET s == scan[t]
  IN /\ s.at = "store"
     /\ objects' = IF Differs(t) THEN objects \cup {<<Url(t), s.answer>>} ELSE objects
     /\ Becomes(t, CASE s.old = None -> [s EXCEPT !.at = "save", !.result = "baseline"]
                     [] SameUrls(t) -> [s EXCEPT !.at = "save", !.result = "semantic_unchanged"]
                     [] OTHER -> [s EXCEPT !.at = "compare"])
     /\ UNCHANGED <<siteVars, rows, diffs, runs, begun>>

(* Mutant: the run of a change is recorded before its row. *)
CompareReported(t) ==
  LET s == scan[t]
  IN /\ s.at = "compare"
     /\ diffs' = diffs \cup {[scan |-> s.number, url |-> Url(t), to |-> s.answer]}
     /\ runs' = runs \cup {[scan |-> s.number, url |-> Url(t), result |-> "changed", state |-> s.answer]}
     /\ Becomes(t, [s EXCEPT !.at = "save", !.result = "changed"])
     /\ UNCHANGED <<siteVars, rows, objects, begun>>

(* The diff with the state the row named; without that state
   (previous_state_missing) the check fails and the row stays. *)
Compare(t) ==
  LET s == scan[t]
  IN /\ s.at = "compare"
     /\ IF <<Url(t), s.old.state>> \in objects
        THEN /\ diffs' = diffs \cup {[scan |-> s.number, url |-> Url(t), to |-> s.answer]}
             /\ Becomes(t, [s EXCEPT !.at = "save", !.result = "changed"])
        ELSE /\ Becomes(t, [s EXCEPT !.at = "blame"])
             /\ UNCHANGED diffs
     /\ UNCHANGED <<siteVars, rows, objects, runs, begun>>

(* save_resource *)
Save(t) ==
  LET s == scan[t]
  IN /\ s.at = "save"
     /\ rows' = [rows EXCEPT ![Url(t)] = [known |-> TRUE, state |-> s.answer, tag |-> Tag(Url(t), s.answer)]]
     /\ Becomes(t, [s EXCEPT !.at = "record", !.kids = Children(s.answer)])
     /\ UNCHANGED <<siteVars, objects, diffs, runs, begun>>

(* state_key *)
Reported(s) == CASE s.result = "failed" -> None
                 [] s.result = "not_modified" -> s.old.state
                 [] OTHER -> s.answer

(* record_run: one run of a resource in a traversal; the D1 store keeps none
   of a resource that did not change. *)
Recorded(s, u) ==
  IF \/ CompactRuns /\ s.result \in {"not_modified", "semantic_unchanged"}
     \/ \E r \in runs : r.scan = s.number /\ r.url = u
  THEN runs
  ELSE runs \cup {[scan |-> s.number, url |-> u, result |-> s.result, state |-> Reported(s)]}

(* The children of an index are checked when they are on its host. *)
Enqueued(s, depth) ==
  LET kids == SetToSeq(s.kids \cap Hosted)
  IN [i \in 1..Len(kids) |-> [url |-> kids[i], depth |-> depth + 1, fallback |-> FALSE]]

(* owed: what the site named, in the answers this traversal got *)
Record(t) ==
  LET s == scan[t]
      e == Entry(t)
      usable == s.result # "failed"
  IN /\ s.at = "record"
     /\ runs' = Recorded(s, e.url)
     /\ Becomes(t, [s EXCEPT !.at = "walk", !.queue = Tail(@) \o Enqueued(s, e.depth),
                              !.found = @ \/ (e.depth = 0 /\ usable),
                              !.fallback = @ \/ (e.fallback /\ usable),
                              !.owed = IF usable THEN @ \cup (Children(s.answer) \cap Hosted) ELSE @,
                              !.old = None, !.answer = None, !.result = "failed", !.kids = {}])
     /\ UNCHANGED <<siteVars, rows, objects, diffs, begun>>

---------------------------------------------------------------------------
(* The process stops, the store fails, or the heartbeat finds the lease
   lost and cancels the traversal: what was written stays. *)
Ends(t) ==
  /\ scan[t].at \notin {"idle", "done"}
  /\ Becomes(t, Idle)
  /\ UNCHANGED <<siteVars, storeVars, begun>>

Step(t) ==
  \/ Begin(t) \/ Rest(t) \/ (\E answered \in BOOLEAN : Discover(t, answered))
  \/ Skip(t) \/ CutDepth(t) \/ CutResources(t) \/ EndTraversal(t) \/ Check(t)
  \/ NotModified(t) \/ Served(t) \/ Refused(t) \/ Confirm(t) \/ Blame(t)
  \/ Store(t) \/ Compare(t) \/ Save(t) \/ Record(t) \/ Ends(t)

EngineNext ==
  \/ \E t \in Traversers : Step(t)
  \/ \E u \in Urls : \E doc \in Docs[u] : Edit(u, doc)

EngineSpec == EngineInit /\ [][EngineNext]_engineVars

---------------------------------------------------------------------------
(* A row and a run name only objects that are there, wherever traversals end
   and however they overlap: a row without its state would fail every later
   check of the resource (previous_state_missing), and an index would be
   without children. *)
NamedObjectsExist ==
  /\ \A u \in Urls : rows[u].state # None => rows[u].known /\ <<u, rows[u].state>> \in objects
  /\ \A r \in runs :
       /\ rows[r.url].known
       /\ r.state # None => <<r.url, r.state>> \in objects
       /\ r.result = "changed" => [scan |-> r.scan, url |-> r.url, to |-> r.state] \in diffs

(* Traversals that do not overlap report what the site answered: the row of a
   check holds it, also when the site answered "not modified" to a validator
   that went through failed checks and traversals that ended half way; and a
   traversal that calls itself complete has checked every sitemap the site
   named, also in an index that was not sent again: its children come from the
   stored state so that none is missed (decision 4 of
   docs/2026-08-13-2027-sitemap-monitor-phase1.md). *)
Alone == Cardinality(DOMAIN scan) = 1
ReportsAreTrue ==
  Alone => \A t \in Traversers :
    /\ scan[t].at = "record" /\ scan[t].result # "failed" => rows[Url(t)].state = scan[t].answer
    /\ scan[t].at = "done" /\ scan[t].complete => scan[t].owed \subseteq scan[t].visited

(* A change is reported once, whatever is tried again: there are no more
   reports of a sitemap than the site has changed it. *)
ReportedOnce ==
  Alone => \A u \in Urls : Cardinality({r \in runs : r.url = u /\ r.result = "changed"}) <= edits[u]
=============================================================================
