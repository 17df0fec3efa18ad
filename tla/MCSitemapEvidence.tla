------------------------- MODULE MCSitemapEvidence -------------------------
(***************************************************************************)
(* What scans leave in the tables, one component at a time: part says       *)
(* which.                                                                   *)
(*                                                                          *)
(*   ledger   the scheduler commits scans and replaces baselines            *)
(*   alone    one process traverses a site that changes                     *)
(*   overlap  a lease expired: two processes traverse it at the same time   *)
(***************************************************************************)
EXTENDS MCSitemapScheduler, SitemapEngine

VARIABLE part

(* An index that gains a child and names itself; a sitemap whose lastmod
   changes, or that turns into an index with a child on another host; a
   common path. *)
IndexAndChild ==
  [u \in Urls |->
     CASE u = "index" -> {Index({"child"}, 0), Index({"child", "common", "index"}, 0)}
       [] u = "child" -> {UrlSet({"page"}, 0), UrlSet({"page"}, 1), Index({"common", "elsewhere"}, 0)}
       [] u = "common" -> {UrlSet({"other page"}, 0)}]

(* The index names more than may be read; the URLs of the child change. *)
LongIndex ==
  [u \in Urls |->
     CASE u = "index" -> {Index({"child", "common"}, 0)}
       [] u = "child" -> {UrlSet({"page"}, 0), UrlSet({}, 0)}
       [] u = "common" -> {UrlSet({"other page"}, 0)}]

FewEdits == [u \in Urls |-> CASE u = "index" -> 1 [] u = "child" -> 2 [] u = "common" -> 0]
OneEdit == [u \in Urls |-> IF u = "child" THEN 1 ELSE 0]

NoSitemap == <<>>
OnlyIndex == <<"index">>
OnlyCommon == <<"common">>
OnlyChild == <<"child">>

Overlap == INSTANCE SitemapEngine WITH
  Traversers <- Tokens, Docs <- LongIndex, Explicit <- OnlyChild, MaxResources <- 2, CompactRuns <- FALSE, MaxEdits <- OneEdit

MCInit ==
  /\ part \in {"ledger", "alone", "overlap"}
  /\ Init
  /\ IF part = "overlap" THEN Overlap!EngineInit ELSE EngineInit
  /\ part = "ledger" => objects = {} /\ live = [u \in Urls |-> CHOOSE doc \in Docs[u] : TRUE]

MCNext == \/ part = "ledger" /\ Next /\ UNCHANGED <<part, engineVars>>
          \/ part = "alone" /\ EngineNext /\ UNCHANGED <<part, vars>>
          \/ part = "overlap" /\ Overlap!EngineNext /\ UNCHANGED <<part, vars>>

mcvars == <<part, vars, engineVars>>

MCSpec == MCInit /\ [][MCNext]_mcvars
=============================================================================
