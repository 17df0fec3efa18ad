------------------------ MODULE TaxonomyBatch_proofs ------------------------
(***************************************************************************)
(* Theorems of the batch pipeline, for every number of tools, requests and *)
(* batches, and wherever calls fail or the process stops.                  *)
(***************************************************************************)
EXTENDS TaxonomyBatch, FiniteSetTheorems, SequenceTheorems, WellFoundedInduction, TLAPS

(* There are finitely many tools and rows of the batch table; a market is   *)
(* no capability.                                                           *)
Bounded ==
  /\ IsFiniteSet(Tools) /\ IsFiniteSet(Jobs) /\ "none" \notin Jobs
  /\ Markets # {} /\ Markets \cap Capabilities = {}
  /\ MaxAttempts \in Nat \ {0}

-----------------------------------------------------------------------------
(* Sequences of calls.                                                      *)

Sequenced(s) == s \in Seq(Range(s))

LEMMA IsSequence ==
  ASSUME NEW S, NEW s \in Seq(S)
  PROVE  Sequenced(s) /\ Len(s) \in Nat /\ DOMAIN s = 1..Len(s)
<1>1. s \in [1..Len(s) -> S] /\ Len(s) \in Nat
  BY LenProperties
<1>2. s \in [1..Len(s) -> Range(s)]
  BY <1>1 DEF Range
<1>3. s \in Seq(Range(s))
  BY <1>1, <1>2, SeqDef
<1> QED
  BY <1>1, <1>3 DEF Sequenced

LEMMA Concatenated ==
  ASSUME NEW s, NEW r, Sequenced(s), Sequenced(r)
  PROVE  /\ Sequenced(s \o r) /\ Len(s \o r) = Len(s) + Len(r)
         /\ Len(s) \in Nat /\ Len(r) \in Nat
         /\ \A i \in 1..(Len(s) + Len(r)) : (s \o r)[i] = IF i <= Len(s) THEN s[i] ELSE r[i - Len(s)]
<1> DEFINE S == Range(s) \cup Range(r)
<1>1. s \in Seq(S) /\ r \in Seq(S)
  BY SeqMonotonic DEF Sequenced
<1>2. /\ s \o r \in Seq(S) /\ Len(s \o r) = Len(s) + Len(r)
      /\ \A i \in 1..(Len(s) + Len(r)) : (s \o r)[i] = IF i <= Len(s) THEN s[i] ELSE r[i - Len(s)]
  BY <1>1, ConcatProperties
<1> QED
  BY <1>1, <1>2, LenProperties, IsSequence

LEMMA Rest ==
  ASSUME NEW r, Sequenced(r), r # <<>>
  PROVE  /\ Sequenced(Tail(r)) /\ Len(r) \in Nat \ {0} /\ Len(Tail(r)) = Len(r) - 1
         /\ Head(r) = r[1]
         /\ \A i \in 1..(Len(r) - 1) : Tail(r)[i] = r[i + 1]
<1>1. r \in Seq(Range(r))
  BY DEF Sequenced
<1>2. /\ Tail(r) \in Seq(Range(r)) /\ Len(Tail(r)) = Len(r) - 1 /\ Len(r) \in Nat \ {0}
      /\ \A i \in 1..(Len(r) - 1) : Tail(r)[i] = r[i + 1]
  BY <1>1, HeadTailProperties, LenProperties, EmptySeq
<1>3. Head(r) = r[1]
  BY <1>1
<1>4. Sequenced(Tail(r))
  BY <1>2, IsSequence
<1> QED
  BY <1>2, <1>3, <1>4

(* Calls put in the place of the head.                                      *)
LEMMA Continued ==
  ASSUME NEW s, NEW r, Sequenced(s), Sequenced(r), r # <<>>
  PROVE  /\ Sequenced(s \o Tail(r)) /\ Len(s \o Tail(r)) = Len(s) + Len(r) - 1
         /\ Len(r) \in Nat \ {0} /\ Len(s) \in Nat
         /\ \A i \in 1..Len(s) : (s \o Tail(r))[i] = s[i]
         /\ \A i \in 1..(Len(s) + Len(r) - 1) :
              i > Len(s) => /\ (s \o Tail(r))[i] = r[i - Len(s) + 1]
                            /\ i - Len(s) + 1 \in 2..Len(r)
BY Concatenated, Rest

LEMMA Tuples ==
  /\ Sequenced(<<>>) /\ Len(<<>>) = 0
  /\ \A a : Sequenced(<<a>>) /\ Len(<<a>>) = 1 /\ <<a>>[1] = a
  /\ \A a, b : Sequenced(<<a, b>>) /\ Len(<<a, b>>) = 2
  /\ \A a, b, c : Sequenced(<<a, b, c>>) /\ Len(<<a, b, c>>) = 3
BY DEF Sequenced, Range

LEMMA Coupled ==
  ASSUME NEW a, NEW b
  PROVE  <<a>> \o <<b>> = <<a, b>>
<1> DEFINE S == {a, b}
<1>1. <<a>> \in Seq(S) /\ <<b>> \in Seq(S) /\ <<a, b>> \in Seq(S)
      /\ Len(<<a>>) = 1 /\ Len(<<b>>) = 1 /\ Len(<<a, b>>) = 2
  OBVIOUS
<1> PICK s, r, z : s = <<a>> /\ r = <<b>> /\ z = <<a, b>>
  OBVIOUS
<1>2. /\ s \o r \in Seq(S) /\ Len(s \o r) = 2
      /\ \A i \in 1..2 : (s \o r)[i] = IF i <= 1 THEN s[i] ELSE r[i - 1]
  BY <1>1, ConcatProperties
<1>3. s[1] = a /\ r[1] = b /\ z[1] = a /\ z[2] = b
  OBVIOUS
<1>4. \A i \in 1..2 : (s \o r)[i] = z[i]
  <2>1. (s \o r)[1] = s[1] /\ (s \o r)[2] = r[1]
    BY <1>2
  <2>2. \A i \in 1..2 : i = 1 \/ i = 2
    OBVIOUS
  <2> QED
    BY <1>3, <2>1, <2>2
<1> QED
  BY <1>1, <1>2, <1>4, SeqEqual

LEMMA Listed ==
  ASSUME NEW n \in Nat, NEW s, DOMAIN s = 1..n, s = [i \in 1..n |-> s[i]]
  PROVE  Sequenced(s) /\ Len(s) = n
<1>1. s \in [1..n -> Range(s)]
  BY DEF Range
<1>2. s \in Seq(Range(s))
  BY <1>1, SeqDef
<1>3. Len(s) \in Nat /\ DOMAIN s = 1..Len(s)
  BY <1>2, LenProperties
<1> QED
  BY <1>2, <1>3 DEF Sequenced

LEMMA SetListed ==
  ASSUME NEW S, IsFiniteSet(S)
  PROVE  /\ Cardinality(S) \in Nat /\ SetToSeq(S) \in [1..Cardinality(S) -> S]
         /\ \A i, l \in 1..Cardinality(S) : SetToSeq(S)[i] = SetToSeq(S)[l] => i = l
         /\ SetToSeq(S) \in Seq(S) /\ Len(SetToSeq(S)) = Cardinality(S)
<1>1. Cardinality(S) \in Nat /\ ExistsBijection(1..Cardinality(S), S)
  BY FS_CardinalityType
<1>2. PICK f : f \in [1..Cardinality(S) -> S] /\ IsInjective(f)
  BY <1>1 DEF ExistsBijection, Bijection, Injection, IsInjective
<1>3. SetToSeq(S) \in [1..Cardinality(S) -> S] /\ IsInjective(SetToSeq(S))
  BY <1>2 DEF SetToSeq
<1>4. SetToSeq(S) \in Seq(S)
  BY <1>1, <1>3, SeqDef
<1>5. DOMAIN SetToSeq(S) = 1..Cardinality(S) /\ DOMAIN SetToSeq(S) = 1..Len(SetToSeq(S)) /\ Len(SetToSeq(S)) \in Nat
  BY <1>3, <1>4, LenProperties
<1> QED
  BY <1>1, <1>3, <1>4, <1>5 DEF IsInjective

-----------------------------------------------------------------------------
(* The calls of a pass.                                                     *)

JobCalls == {"mark", "retrieve", "lines", "unreturned", "fallback", "polled", "jevClaim", "reserve",
             "failJob", "release", "failRequests", "jevStart", "jevSubmit", "jevDone", "createBatch",
             "persist"}

Fits(c) == c[1] \in JobCalls => c[2] \in Jobs

(* Calls whose place in the pass matters.                                   *)
Submitting == {"submit", "jevSelect", "select", "build", "reserve", "createBatch", "failJob", "release"}
Writing == {"retire", "upsertPrimary", "moveTools"}

PlainCall(c) == c[1] \notin Submitting \cup Writing /\ Fits(c)
Plain(s) == Sequenced(s) /\ \A i \in 1..Len(s) : PlainCall(s[i])

LEMMA PlainCalls ==
  \A n, a, w : (n \notin Submitting \cup Writing) /\ (n \in JobCalls => a \in Jobs)
              => PlainCall(Call(n, a, w))
BY DEF Call, PlainCall, Fits

LEMMA PlainTuples ==
  /\ Plain(<<>>)
  /\ \A c : PlainCall(c) => Plain(<<c>>)
  /\ \A c, d : PlainCall(c) /\ PlainCall(d) => Plain(<<c, d>>)
  /\ \A c, d, e : PlainCall(c) /\ PlainCall(d) /\ PlainCall(e) => Plain(<<c, d, e>>)
<1>1. Plain(<<>>)
  BY Tuples DEF Plain
<1>2. ASSUME NEW c, PlainCall(c)
      PROVE  Plain(<<c>>)
  BY <1>2, Tuples DEF Plain
<1>3. ASSUME NEW c, NEW d, PlainCall(c), PlainCall(d)
      PROVE  Plain(<<c, d>>)
  BY <1>3, Tuples DEF Plain
<1>4. ASSUME NEW c, NEW d, NEW e, PlainCall(c), PlainCall(d), PlainCall(e)
      PROVE  Plain(<<c, d, e>>)
  BY <1>4, Tuples DEF Plain
<1> QED
  BY <1>1, <1>2, <1>3, <1>4

LEMMA PlainConcatenated ==
  ASSUME NEW s, NEW r, Plain(s), Plain(r)
  PROVE  Plain(s \o r)
<1>1. /\ Sequenced(s \o r) /\ Len(s \o r) = Len(s) + Len(r) /\ Len(s) \in Nat /\ Len(r) \in Nat
      /\ \A i \in 1..(Len(s) + Len(r)) : (s \o r)[i] = IF i <= Len(s) THEN s[i] ELSE r[i - Len(s)]
  BY Concatenated DEF Plain
<1>2. ASSUME NEW i \in 1..Len(s \o r)
      PROVE  PlainCall((s \o r)[i])
  <2>1. CASE i <= Len(s)
    BY <1>1, <2>1 DEF Plain
  <2>2. CASE ~(i <= Len(s))
    <3>1. i - Len(s) \in 1..Len(r)
      BY <1>1, <2>2
    <3> QED
      BY <1>1, <2>2, <3>1 DEF Plain
  <2> QED
    BY <2>1, <2>2
<1> QED
  BY <1>1, <1>2 DEF Plain

LEMMA PlainList ==
  ASSUME NEW n \in Nat, NEW s, DOMAIN s = 1..n, s = [i \in 1..n |-> s[i]],
         \A i \in 1..n : PlainCall(s[i])
  PROVE  Plain(s)
BY Listed DEF Plain

LEMMA PlainQueue ==
  ASSUME NEW S, IsFiniteSet(S), NEW name, name \notin Submitting \cup Writing,
         name \in JobCalls => S \subseteq Jobs
  PROVE  Plain(Queue(name, S))
<1> DEFINE n == Cardinality(S)
           s == Queue(name, S)
<1>1. n \in Nat /\ SetToSeq(S) \in [1..n -> S]
  BY SetListed
<1>2. DOMAIN s = 1..n /\ s = [i \in 1..n |-> s[i]] /\ \A i \in 1..n : s[i] = Call(name, SetToSeq(S)[i], "none")
  BY DEF Queue
<1>3. \A i \in 1..n : PlainCall(s[i])
  BY <1>1, <1>2, PlainCalls
<1> QED
  BY <1>1, <1>2, <1>3, PlainList

LEMMA PlainResults ==
  ASSUME NEW results, IsFiniteSet(DOMAIN results)
  PROVE  Plain(ApplyAll(results))
<1> DEFINE n == Cardinality(DOMAIN results)
           s == ApplyAll(results)
<1>1. n \in Nat
  BY SetListed
<1>2. /\ DOMAIN s = 1..n /\ s = [i \in 1..n |-> s[i]]
      /\ \A i \in 1..n : s[i] = Call("apply", SetToSeq(DOMAIN results)[i], results[SetToSeq(DOMAIN results)[i]])
  BY DEF ApplyAll
<1>3. \A i \in 1..n : PlainCall(s[i])
  BY <1>2, PlainCalls DEF Submitting, Writing, JobCalls
<1> QED
  BY <1>1, <1>2, <1>3, PlainList

(* Closing an item.                                                         *)
LEMMA PlainClosing ==
  ASSUME NEW t, NEW status
  PROVE  Plain(CompleteWithoutLeaf(t, status))
<1>1. Plain(IF item[t].run = 0
              THEN <<Call("insertRun", t, IF status = "needs_review" THEN "partial" ELSE status)>> ELSE <<>>)
  BY PlainCalls, PlainTuples DEF Submitting, Writing, JobCalls
<1>2. Plain(<<Call("finish", t, status), Call("route", t, status)>>)
  BY PlainCalls, PlainTuples DEF Submitting, Writing, JobCalls
<1> QED
  BY <1>1, <1>2, PlainConcatenated DEF CompleteWithoutLeaf

LEMMA PlainFinalizing ==
  ASSUME NEW t, NEW failed
  PROVE  Plain(FinalizeCapabilityOnly(t, failed)) /\ Plain(FinalizeFull(t, failed))
<1>1. ASSUME NEW run
      PROVE  Plain(IF item[t].run = 0 THEN <<Call("insertRun", t, run), Call("checkpointRun", t, "none")>> ELSE <<>>)
  BY PlainCalls, PlainTuples DEF Submitting, Writing, JobCalls
<1>2. ASSUME NEW cap, NEW terms, NEW status, NEW found
      PROVE  /\ Plain(IF found THEN <<Call("upsertCapability", t, cap), Call("supersede", t, terms),
                                      Call("setRun", t, status)>> ELSE <<>>)
             /\ Plain(IF found THEN <<Call("upsertCapability", t, cap)>> ELSE <<>>)
             /\ Plain(<<Call("supersede", t, terms), Call("setRun", t, status), Call("finish", t, status)>>)
             /\ Plain(<<Call("finish", t, status)>>) /\ Plain(<<Call("readManual", t, cap)>>)
  BY PlainCalls, PlainTuples DEF Submitting, Writing, JobCalls
<1>3. Plain(FinalizeCapabilityOnly(t, failed))
  BY <1>1, <1>2, PlainConcatenated DEF FinalizeCapabilityOnly
<1>4. Plain(FinalizeFull(t, failed))
  BY <1>1, <1>2, PlainConcatenated DEF FinalizeFull
<1> QED
  BY <1>3, <1>4

-----------------------------------------------------------------------------
(* What a step puts in the place of its call.                               *)

Listing == Sequenced(todo) /\ \A i \in 1..Len(todo) : Fits(todo[i])

Finite ==
  /\ IsFiniteSet(DOMAIN req)
  /\ \A j \in Jobs : IsFiniteSet(remote[j].keys) /\ IsFiniteSet(DOMAIN remote[j].lines)

Quietly == todo # <<>> /\ \E calls : Plain(calls) /\ todo' = calls \o Tail(todo)

LEMMA JobCalled ==
  ASSUME Listing, todo # <<>>, Head(todo)[1] \in JobCalls
  PROVE  About \in Jobs
<1>1. Head(todo) = todo[1] /\ 1 \in 1..Len(todo)
  BY Rest DEF Listing
<1> QED
  BY <1>1 DEF Listing, Fits, About

LEMMA FiniteKeys ==
  ASSUME Finite
  PROVE  /\ \A j, statuses : IsFiniteSet(KeysOf(j, statuses))
         /\ \A j, statuses, S : IsFiniteSet(KeysOf(j, statuses) \ S)
<1>1. \A j, statuses, S : KeysOf(j, statuses) \ S \subseteq DOMAIN req /\ KeysOf(j, statuses) \subseteq DOMAIN req
  BY DEF KeysOf
<1> QED
  BY <1>1, FS_Subset DEF Finite

LEMMA QuietSkip ==
  ASSUME todo # <<>>, Skip
  PROVE  Quietly
BY PlainTuples DEF Skip, Then, Quietly

(* Statements that put at most one call in their place.                     *)
LEMMA QuietStatements ==
  ASSUME \/ Enter \/ InsertRun \/ CheckpointRun \/ Finish \/ MoveTools \/ WriteAssignment
         \/ SetRunStatus \/ Record \/ RetrieveRunning \/ EndOfPolledJob \/ EndOfSeedRow
         \/ SetKind \/ JevDone \/ MarkFails
  PROVE  Quietly
<1>1. todo # <<>> /\ Skip
  BY DEF Enter, InsertRun, CheckpointRun, Finish, MoveTools, WriteAssignment, SetRunStatus, Record,
         RetrieveRunning, EndOfPolledJob, EndOfSeedRow, SetKind, JevDone, MarkFails, Do
<1> QED
  BY <1>1, QuietSkip

LEMMA QuietCalls ==
  ASSUME \/ SaveProfile \/ SourceFailed \/ JevInterrupted \/ JevAnswer \/ PersistFails \/ Enqueue \/ Apply
  PROVE  Quietly
<1>1. CASE SaveProfile
  BY <1>1, PlainCalls, PlainTuples, PlainConcatenated DEF Submitting, Writing, JobCalls, SaveProfile, Then, Quietly, Do
<1>2. CASE SourceFailed
  BY <1>2, PlainCalls, PlainTuples, PlainConcatenated DEF Submitting, Writing, JobCalls, SourceFailed, Then, Quietly, Do
<1>3. CASE JevInterrupted
  BY <1>3, PlainCalls, PlainTuples, PlainConcatenated DEF Submitting, Writing, JobCalls, JevInterrupted, Then, Quietly, Do
<1>4. CASE JevAnswer
  BY <1>4, PlainCalls, PlainTuples, PlainConcatenated DEF Submitting, Writing, JobCalls, JevAnswer, Then, Quietly, Do
<1>5. CASE PersistFails
  BY <1>5, PlainCalls, PlainTuples, PlainConcatenated DEF Submitting, Writing, JobCalls, PersistFails, KeepsReservation, Then, Quietly, Do
<1>6. CASE Enqueue
  <2>1. todo # <<>> /\ \E calls : /\ calls = <<>> \/ calls = <<Call("enter", About, With)>>
                                 /\ todo' = calls \o Tail(todo)
    BY <1>6 DEF Enqueue, Do, Skip, Then
  <2> QED
    BY <2>1, PlainCalls, PlainTuples, PlainConcatenated DEF Submitting, Writing, JobCalls, Quietly
<1>7. CASE Apply
  BY <1>7, PlainCalls, PlainTuples, PlainConcatenated DEF Submitting, Writing, JobCalls, Apply, Then, Quietly, Do
<1> QED
  BY <1>1, <1>2, <1>3, <1>4, <1>5, <1>6, <1>7

LEMMA QuietReactions ==
  ASSUME React \/ Decide \/ HandleFailure \/ Finalize
  PROVE  Quietly
<1>1. CASE React
  <2> DEFINE t == About[1]
             verdict == ProfileVerdict(t, With)
  <2>1. todo # <<>> /\ \E calls :
           /\ todo' = calls \o Tail(todo)
           /\ \/ calls = <<Call("fail", About, With)>>
              \/ calls = (IF item[t].judged = "none" THEN <<Call("setKind", t, verdict)>> ELSE <<>>)
                          \o <<Call("saveProfile", t, verdict)>>
              \/ calls = AfterL1(t, About[2], With)
              \/ calls = <<Call("afterLeaf", t, About[2])>>
              \/ calls = <<Call("finalize", t, "ok")>>
    BY <1>1 DEF React, Do, Then
  <2>2. Plain(AfterL1(t, About[2], With))
    BY PlainCalls, PlainTuples, PlainConcatenated, PlainClosing DEF Submitting, Writing, JobCalls, AfterL1
  <2>3. Plain((IF item[t].judged = "none" THEN <<Call("setKind", t, verdict)>> ELSE <<>>)
                \o <<Call("saveProfile", t, verdict)>>)
    <3>1. Plain(IF item[t].judged = "none" THEN <<Call("setKind", t, verdict)>> ELSE <<>>)
      BY PlainCalls, PlainTuples, PlainConcatenated DEF Submitting, Writing, JobCalls
    <3>2. Plain(<<Call("saveProfile", t, verdict)>>)
      BY PlainCalls, PlainTuples, PlainConcatenated DEF Submitting, Writing, JobCalls
    <3> QED
      BY <3>1, <3>2, PlainConcatenated
  <2> QED
    BY <2>1, <2>2, <2>3, PlainCalls, PlainTuples, PlainConcatenated DEF Submitting, Writing, JobCalls, Quietly
<1>2. CASE Decide
  <2>1. Plain(AfterProfile(About, With))
    BY PlainCalls, PlainTuples, PlainConcatenated, PlainClosing DEF Submitting, Writing, JobCalls, AfterProfile
  <2>2. Plain(AfterLeaf(About, With))
    BY PlainCalls, PlainTuples, PlainConcatenated, PlainClosing DEF Submitting, Writing, JobCalls, AfterLeaf
  <2> QED
    BY <1>2, <2>1, <2>2 DEF Decide, Do, Then, Quietly
<1>3. CASE HandleFailure
  <2>1. todo # <<>> /\ \E calls :
           /\ todo' = calls \o Tail(todo)
           /\ \/ calls = <<>>
              \/ \E stage : calls = <<Call("enqueue", About[1], stage)>>
              \/ calls = <<Call("finalize", About[1], "error")>>
              \/ calls = CompleteWithoutLeaf(About[1], "needs_review")
    BY <1>3 DEF HandleFailure, Do, Then, Skip
  <2> QED
    BY <2>1, PlainCalls, PlainTuples, PlainConcatenated, PlainClosing DEF Submitting, Writing, JobCalls, Quietly
<1>4. CASE Finalize
  BY <1>4, PlainTuples, PlainClosing, PlainFinalizing DEF Finalize, Do, Then, Quietly
<1> QED
  BY <1>1, <1>2, <1>3, <1>4

LEMMA QuietResults ==
  ASSUME Bounded, Listing, Finite, Reconcile \/ Poll \/ MarkSubmitted \/ Lines \/ Unreturned \/ Fallback
  PROVE  Quietly
<1>1. CASE Reconcile
  <2> DEFINE left == {k \in DOMAIN req : Answered(k)}
             n == Cardinality(left)
             s == [i \in 1..n |-> LET k == SetToSeq(left)[i] IN Call("apply", k, req[k].out)]
  <2>1. IsFiniteSet(left)
    BY FS_Subset DEF Finite
  <2>2. n \in Nat
    BY <2>1, SetListed
  <2>3. DOMAIN s = 1..n /\ s = [i \in 1..n |-> s[i]] /\ \A i \in 1..n : PlainCall(s[i])
    BY PlainCalls DEF Submitting, Writing, JobCalls
  <2>4. Plain(s)
    BY <2>2, <2>3, PlainList
  <2>5. todo # <<>> /\ todo' = s \o Tail(todo)
    BY <1>1 DEF Reconcile, Do, Then
  <2> QED
    BY <2>4, <2>5 DEF Quietly
<1>2. CASE Poll
  <2> DEFINE S == {j \in Jobs : /\ job[j].batch
                                /\ \/ job[j].status \in ActiveJob
                                   \/ KeysOf(j, OpenStatuses) # {}}
             jobs == SetToSeq(S)
             n == 2 * Len(jobs)
             s == [i \in 1..n |-> IF i % 2 = 1 THEN Call("mark", jobs[(i + 1) \div 2], "poll")
                                  ELSE Call("polled", jobs[i \div 2], "none")]
  <2>1. S \subseteq Jobs /\ IsFiniteSet(S)
    BY FS_Subset DEF Bounded
  <2>2. jobs \in [1..Len(jobs) -> S] /\ Len(jobs) \in Nat
    <3> HIDE DEF S
    <3>1. Cardinality(S) \in Nat /\ SetToSeq(S) \in [1..Cardinality(S) -> S] /\ Len(SetToSeq(S)) = Cardinality(S)
      BY <2>1, SetListed
    <3> QED
      BY <3>1
  <2>3. n \in Nat
    BY <2>2
  <2>4. ASSUME NEW i \in 1..n
        PROVE  PlainCall(s[i])
    <3>1. CASE i % 2 = 1
      <4>1. (i + 1) \div 2 \in 1..Len(jobs)
        BY <2>2, <3>1
      <4>2. jobs[(i + 1) \div 2] \in Jobs
        BY <2>1, <2>2, <4>1
      <4> HIDE DEF jobs
      <4> QED
        BY <3>1, <4>2, PlainCalls DEF Submitting, Writing, JobCalls
    <3>2. CASE i % 2 # 1
      <4>1. i \div 2 \in 1..Len(jobs)
        BY <2>2, <3>2
      <4>2. jobs[i \div 2] \in Jobs
        BY <2>1, <2>2, <4>1
      <4> HIDE DEF jobs
      <4> QED
        BY <3>2, <4>2, PlainCalls DEF Submitting, Writing, JobCalls
    <3> QED
      BY <3>1, <3>2
  <2>5. DOMAIN s = 1..n /\ s = [i \in 1..n |-> s[i]]
    OBVIOUS
  <2>6. Plain(s)
    BY <2>3, <2>4, <2>5, PlainList
  <2>7. todo # <<>> /\ todo' = s \o Tail(todo)
    BY <1>2 DEF Poll, Do, Then
  <2> QED
    BY <2>6, <2>7 DEF Quietly
<1>3. CASE MarkSubmitted
  <2>1. About \in Jobs
    BY <1>3, JobCalled DEF MarkSubmitted, Do, JobCalls
  <2> QED
    BY <1>3, <2>1, PlainCalls, PlainTuples DEF Submitting, Writing, JobCalls, MarkSubmitted, Then, Quietly, Do
<1>4. CASE Lines
  <2>1. About \in Jobs
    BY <1>4, JobCalled DEF Lines, Do, JobCalls
  <2>2. Plain(ApplyAll(remote[About].lines))
    BY <2>1, PlainResults DEF Finite
  <2>3. Plain(<<Call("unreturned", About, "retryable")>>)
    BY <2>1, PlainCalls, PlainTuples DEF Submitting, Writing
  <2> QED
    BY <1>4, <2>2, <2>3, PlainConcatenated DEF Lines, Then, Quietly, Do
<1>5. CASE Unreturned
  <2>1. IsFiniteSet(KeysOf(About, {"submitted"}) \ DOMAIN remote[About].lines)
    BY FiniteKeys
  <2>2. Plain(ApplyAll([k \in KeysOf(About, {"submitted"}) \ DOMAIN remote[About].lines |-> With]))
    BY <2>1, PlainResults
  <2> QED
    BY <1>5, <2>2 DEF Unreturned, Then, Quietly, Do
<1>6. CASE Fallback
  <2>1. PICK results \in Results(KeysOf(About, {"submitted"})) : todo' = ApplyAll(results) \o Tail(todo)
    BY <1>6 DEF Fallback, Then
  <2>2. DOMAIN results = KeysOf(About, {"submitted"})
    BY DEF Results
  <2>3. Plain(ApplyAll(results))
    BY <2>2, FiniteKeys, PlainResults
  <2> QED
    BY <1>6, <2>1, <2>3 DEF Fallback, Quietly, Do
<1> QED
  BY <1>1, <1>2, <1>3, <1>4, <1>5, <1>6

LEMMA QuietEnd ==
  ASSUME NEW j \in Jobs, RetrieveEnded(j)
  PROVE  Quietly
<1>1. todo # <<>> /\ \E calls :
         /\ todo' = calls \o Tail(todo)
         /\ \/ calls = <<Call("lines", j, "none")>>
            \/ \E error : calls = <<Call("unreturned", j, error)>>
            \/ calls = <<Call("fallback", j, "none")>>
  BY DEF RetrieveEnded, Do, Then
<1> QED
  BY <1>1, PlainCalls, PlainTuples DEF Submitting, Writing, Quietly

LEMMA QuietItems ==
  ASSUME SeedRow \/ CreateItem \/ RetrySource
  PROVE  Quietly
<1>1. CASE SeedRow
  <2>1. todo # <<>> /\ \E calls :
           /\ todo' = calls \o Tail(todo)
           /\ \/ \E a, b : calls = <<Call("create", About, a), Call("seeded", About, b)>>
              \/ \E a : calls = <<Call("sourceFailed", About, a)>>
              \/ \E a : calls = <<Call("create", About, a)>>
    BY <1>1 DEF SeedRow, Do, Then
  <2> QED
    BY <2>1, PlainCalls, PlainTuples DEF Submitting, Writing, JobCalls, Quietly
<1>2. CASE CreateItem
  <2>1. todo # <<>> /\ \E calls :
           /\ todo' = calls \o Tail(todo)
           /\ \/ \E stage : calls = <<Call("enqueue", About, stage)>>
              \/ calls = <<Call("finalize", About, "ok")>>
              \/ \E how : calls = <<Call("retrySource", About, how)>>
    BY <1>2 DEF CreateItem, Do, Then
  <2> QED
    BY <2>1, PlainCalls, PlainTuples DEF Submitting, Writing, JobCalls, Quietly
<1>3. CASE RetrySource
  <2>1. todo # <<>> /\ \E calls :
           /\ todo' = calls \o Tail(todo)
           /\ \/ calls = <<>>
              \/ calls = <<Call("enqueue", About, "l1")>>
              \/ calls = CompleteWithoutLeaf(About, "needs_review")
    BY <1>3 DEF RetrySource, RecoverUpstream, Skip, Do, Then
  <2> QED
    BY <2>1, PlainCalls, PlainTuples, PlainClosing DEF Submitting, Writing, JobCalls, Quietly
<1> QED
  BY <1>1, <1>2, <1>3

LEMMA QuietSeeding ==
  ASSUME Bounded, Seed \/ ResumeRetries
  PROVE  Quietly
<1>1. CASE Seed
  <2> DEFINE retries == Take(SourceRetryTools, Max({1, SeedLimit \div 2}))
             left == Max({0, SeedLimit - Cardinality(retries)})
             fresh == Take(NewTools, Max({1, left}))
             spare == Max({0, left - Cardinality(fresh)})
             third == Take(CapabilityTools, spare)
             rows == SetToSeq(retries) \o SetToSeq(fresh) \o SetToSeq(third)
             s == [i \in 1..Len(rows) |-> Call("seedRow", rows[i], Judgement(rows[i]))]
  <2>1. retries \subseteq Tools /\ fresh \subseteq Tools /\ third \subseteq Tools
    BY DEF Take, SourceRetryTools, NewTools, CapabilityTools
  <2>2. IsFiniteSet(retries) /\ IsFiniteSet(fresh) /\ IsFiniteSet(third)
    BY <2>1, FS_Subset DEF Bounded
  <2> HIDE DEF retries, fresh, third
  <2>3. SetToSeq(retries) \in Seq(retries) /\ SetToSeq(fresh) \in Seq(fresh) /\ SetToSeq(third) \in Seq(third)
    BY <2>2, SetListed
  <2>4. Sequenced(rows)
    BY <2>3, IsSequence, Concatenated
  <2>5. Len(rows) \in Nat
    BY <2>4, LenProperties DEF Sequenced
  <2> HIDE DEF rows
  <2>6. DOMAIN s = 1..Len(rows) /\ s = [i \in 1..Len(rows) |-> s[i]] /\ \A i \in 1..Len(rows) : PlainCall(s[i])
    BY PlainCalls DEF Submitting, Writing, JobCalls
  <2>7. Plain(s)
    BY <2>5, <2>6, PlainList
  <2>8. todo # <<>> /\ todo' = (IF blocked THEN <<>> ELSE s) \o Tail(todo)
    BY <1>1 DEF Seed, Do, Then, rows, retries, fresh, third
  <2> QED
    BY <2>7, <2>8, PlainTuples DEF Quietly
<1>2. CASE ResumeRetries
  <2> DEFINE due == {t \in Tools : item[t].status = "pending" /\ item[t].retry = "model" /\ item[t].due}
             n == Cardinality(due)
             s == [i \in 1..n |-> LET t == SetToSeq(due)[i] IN Call("enqueue", t, item[t].stage)]
  <2>1. IsFiniteSet(due)
    BY FS_Subset DEF Bounded
  <2>2. n \in Nat
    BY <2>1, SetListed
  <2>3. DOMAIN s = 1..n /\ s = [i \in 1..n |-> s[i]] /\ \A i \in 1..n : PlainCall(s[i])
    BY PlainCalls DEF Submitting, Writing, JobCalls
  <2>4. Plain(s)
    BY <2>2, <2>3, PlainList
  <2>5. todo # <<>> /\ todo' = (IF blocked THEN <<>> ELSE s) \o Tail(todo)
    BY <1>2 DEF ResumeRetries, Do, Then
  <2> QED
    BY <2>4, <2>5, PlainTuples DEF Quietly
<1> QED
  BY <1>1, <1>2

LEMMA QuietJobs ==
  ASSUME Bounded, Listing, Finite,
         JevRecover \/ JevClaim \/ JevStart \/ JevSubmit \/ Persist \/ FailRequests
  PROVE  Quietly
<1>1. CASE JevRecover
  <2> DEFINE S == {j \in Jobs : /\ job[j].jev /\ job[j].old
                                /\ job[j].status \in {"building", "in_progress", "interrupted"}
                                /\ KeysOf(j, OpenStatuses) # {}}
  <2>1. S \subseteq Jobs /\ IsFiniteSet(S)
    BY FS_Subset DEF Bounded
  <2>2. todo # <<>> /\ todo' = Queue("jevClaim", S) \o Tail(todo)
    BY <1>1 DEF JevRecover, Do, Then
  <2> QED
    BY <2>1, <2>2, PlainQueue DEF Submitting, Writing, Quietly
<1>2. CASE JevClaim
  <2>1. todo # <<>> /\ todo' = Queue("jevInterrupted", KeysOf(About, OpenStatuses)) \o Tail(todo)
    BY <1>2 DEF JevClaim, Do, Then
  <2> QED
    BY <2>1, FiniteKeys, PlainQueue DEF Submitting, Writing, JobCalls, Quietly
<1>3. CASE JevStart
  <2>1. About \in Jobs
    BY <1>3, JobCalled DEF JevStart, Do, JobCalls
  <2> QED
    BY <1>3, <2>1, PlainCalls, PlainTuples DEF Submitting, Writing, JobCalls, JevStart, Then, Quietly, Do
<1>4. CASE JevSubmit
  <2>1. About \in Jobs
    BY <1>4, JobCalled DEF JevSubmit, Do, JobCalls
  <2>2. Plain(Queue("jevAnswer", KeysOf(About, {"queued"})))
    BY FiniteKeys, PlainQueue DEF Submitting, Writing, JobCalls
  <2>3. Plain(<<Call("jevDone", About, "none")>>)
    BY <2>1, PlainCalls, PlainTuples DEF Submitting, Writing
  <2> QED
    BY <1>4, <2>2, <2>3, PlainConcatenated DEF JevSubmit, Then, Quietly, Do
<1>5. CASE Persist
  <2>1. About \in Jobs
    BY <1>5, JobCalled DEF Persist, Do, JobCalls
  <2> QED
    BY <1>5, <2>1, PlainCalls, PlainTuples DEF Submitting, Writing, JobCalls, Persist, Then, Quietly, Do
<1>6. CASE FailRequests
  <2> DEFINE keys == KeysOf(About, {"queued"})
             n == Cardinality(keys)
             s == [i \in 1..n |-> Call("fail", SetToSeq(keys)[i], With)]
  <2>1. n \in Nat
    BY FiniteKeys, SetListed
  <2>2. DOMAIN s = 1..n /\ s = [i \in 1..n |-> s[i]] /\ \A i \in 1..n : PlainCall(s[i])
    BY PlainCalls DEF Submitting, Writing, JobCalls
  <2>3. Plain(s)
    BY <2>1, <2>2, PlainList
  <2>4. todo # <<>> /\ todo' = s \o Tail(todo)
    BY <1>6 DEF FailRequests, Do, Then
  <2> QED
    BY <2>3, <2>4 DEF Quietly
<1> QED
  BY <1>1, <1>2, <1>3, <1>4, <1>5, <1>6

(* The calls s follow, and then those that waited from place m on.          *)
Resumed(s, m) ==
  /\ Sequenced(s) /\ m \in 1..(Len(todo) + 1) /\ (todo # <<>> => m # 1)
  /\ Sequenced(todo') /\ Len(todo') = Len(s) + Len(todo) + 1 - m
  /\ \A i \in 1..Len(todo') : todo'[i] = IF i <= Len(s) THEN s[i] ELSE todo[i - Len(s) + m - 1]

LEMMA ResumedNext ==
  ASSUME Listing, todo # <<>>, NEW s, Sequenced(s), todo' = s \o Tail(todo)
  PROVE  Resumed(s, 2)
<1>1. /\ Sequenced(todo') /\ Len(todo') = Len(s) + Len(todo) - 1
      /\ Len(todo) \in Nat \ {0} /\ Len(s) \in Nat
      /\ \A i \in 1..Len(s) : todo'[i] = s[i]
      /\ \A i \in 1..(Len(s) + Len(todo) - 1) : i > Len(s) => todo'[i] = todo[i - Len(s) + 1]
  BY Continued DEF Listing
<1>2. \A i \in 1..Len(todo') : todo'[i] = IF i <= Len(s) THEN s[i] ELSE todo[i - Len(s) + 2 - 1]
  BY <1>1
<1> QED
  BY <1>1, <1>2 DEF Resumed

LEMMA ResumedLate ==
  ASSUME Listing, todo # <<>>, NEW s, Sequenced(s), NEW m \in 2..Len(todo),
         todo' = s \o SubSeq(todo, m, Len(todo))
  PROVE  Resumed(s, m)
<1> DEFINE r == SubSeq(todo, m, Len(todo))
           n == Len(todo)
<1>1. n \in Nat /\ todo \in Seq(Range(todo)) /\ m \in Nat
  BY LenProperties DEF Listing, Sequenced
<1>2. r \in Seq(Range(todo)) /\ Len(r) = n - m + 1 /\ \A i \in 1..(n - m + 1) : r[i] = todo[m + i - 1]
  BY <1>1, SubSeqProperties
<1> HIDE DEF r
<1>3. Sequenced(r)
  BY <1>2, IsSequence
<1>4. /\ Sequenced(todo') /\ Len(todo') = Len(s) + Len(r) /\ Len(s) \in Nat /\ Len(r) \in Nat
      /\ \A i \in 1..(Len(s) + Len(r)) : todo'[i] = IF i <= Len(s) THEN s[i] ELSE r[i - Len(s)]
  <2>1. todo' = s \o r
    BY DEF r
  <2> QED
    BY <1>3, <2>1, Concatenated
<1>5. ASSUME NEW i \in 1..Len(todo')
      PROVE  todo'[i] = IF i <= Len(s) THEN s[i] ELSE todo[i - Len(s) + m - 1]
  <2>1. CASE i <= Len(s)
    BY <1>4, <2>1
  <2>2. CASE ~(i <= Len(s))
    <3>1. i - Len(s) \in 1..(n - m + 1)
      BY <1>1, <1>2, <1>4, <2>2
    <3>2. todo'[i] = todo[m + (i - Len(s)) - 1]
      BY <1>2, <1>4, <2>2, <3>1
    <3>3. m + (i - Len(s)) - 1 = i - Len(s) + m - 1
      BY <1>1, <1>4
    <3> QED
      BY <2>2, <3>2, <3>3
  <2> QED
    BY <2>1, <2>2
<1> QED
  BY <1>1, <1>2, <1>4, <1>5 DEF Resumed

LEMMA ResumedOnly ==
  ASSUME Listing, NEW s, Sequenced(s), todo' = s
  PROVE  Resumed(s, Len(todo) + 1)
<1>1. Len(s) \in Nat /\ Len(todo) \in Nat
  BY LenProperties DEF Listing, Sequenced
<1>2. todo # <<>> => Len(todo) # 0
  BY EmptySeq DEF Listing, Sequenced
<1> QED
  BY <1>1, <1>2 DEF Resumed

(* A failed call continues behind the try block it stands in.               *)
LEMMA InterruptedAt ==
  ASSUME Listing, CallFails
  PROVE  \E m \in 2..Len(todo) :
           /\ IsMarker(todo[m])
           /\ \/ Resumed(<<>>, m)
              \/ /\ todo[m][1] = "seeded"
                 /\ \E with : Resumed(<<Call("sourceFailed", todo[m][2], with)>>, m + 1)
<1> DEFINE I == {i \in 1..Len(todo) : IsMarker(todo[i])}
           f == FirstMarker
<1>1. f > 1
  BY DEF CallFails
<1>2. f = IF I # {} THEN CHOOSE x \in I : \A y \in I : x <= y ELSE 0
  BY DEF FirstMarker, SelectInSeq, Min
<1>3. Len(todo) \in Nat /\ todo \in Seq(Range(todo))
  BY LenProperties DEF Listing, Sequenced
<1>4. I # {}
  BY <1>1, <1>2
<1>5. \E x \in I : \A y \in I : x <= y
  <2>1. I \subseteq Nat
    OBVIOUS
  <2> DEFINE R == {pair \in Nat \X Nat : pair[1] < pair[2]}
  <2>2. IsWellFoundedOn(R, Nat)
    BY NatLessThanWellFounded DEF OpToRel
  <2> HIDE DEF I, R
  <2>3. PICK x \in I : \A y \in I : ~ (<<y, x>> \in R)
    BY <1>4, <2>1, <2>2, WFMin
  <2>4. \A y \in I : x <= y
    <3>1. SUFFICES ASSUME NEW y \in I
                   PROVE  x <= y
      OBVIOUS
    <3>2. x \in Nat /\ y \in Nat
      BY <2>1
    <3>3. y < x => <<y, x>> \in R
      BY <3>2 DEF R
    <3> QED
      BY <2>3, <3>2, <3>3
  <2> QED
    BY <2>4
<1>6. f \in I
  BY <1>2, <1>4, <1>5
<1>7. f \in 2..Len(todo) /\ IsMarker(todo[f]) /\ todo # <<>>
  BY <1>1, <1>3, <1>6
<1> HIDE DEF f, I
<1>8. AfterMarker = SubSeq(todo, f, Len(todo))
  BY DEF AfterMarker, f
<1>9. CASE todo' = AfterMarker
  <2>1. <<>> \o AfterMarker = AfterMarker
    <3>1. SubSeq(todo, f, Len(todo)) \in Seq(Range(todo))
      BY <1>3, <1>7, SubSeqProperties
    <3> QED
      BY <3>1, <1>8, ConcatEmptySeq
  <2>2. Resumed(<<>>, f)
    BY <1>7, <1>8, <1>9, <2>1, ResumedLate, Tuples
  <2> QED
    BY <1>7, <2>2
<1>10. CASE /\ todo[f][1] = "seeded"
            /\ \E with : todo' = <<Call("sourceFailed", todo[f][2], with)>> \o Tail(AfterMarker)
  <2>1. PICK with : todo' = <<Call("sourceFailed", todo[f][2], with)>> \o Tail(AfterMarker)
    BY <1>10
  <2> DEFINE s == <<Call("sourceFailed", todo[f][2], with)>>
             r == SubSeq(todo, f, Len(todo))
  <2>2. Sequenced(s) /\ Len(s) = 1
    BY Tuples
  <2>3. r \in Seq(Range(todo)) /\ Len(r) = Len(todo) - f + 1
        /\ \A i \in 1..(Len(todo) - f + 1) : r[i] = todo[f + i - 1]
    BY <1>3, <1>7, SubSeqProperties
  <2>4. Sequenced(r) /\ r # <<>>
    <3>1. Sequenced(r)
      BY <2>3, IsSequence
    <3>2. Len(r) # 0
      BY <1>3, <1>7, <2>3
    <3> QED
      BY <3>1, <3>2, Tuples
  <2> HIDE DEF r
  <2>5. todo' = s \o Tail(r)
    BY <2>1, <1>8 DEF r
  <2> HIDE DEF s
  <2>6. /\ Sequenced(todo') /\ Len(todo') = Len(s) + Len(r) - 1
        /\ \A i \in 1..Len(s) : todo'[i] = s[i]
        /\ \A i \in 1..(Len(s) + Len(r) - 1) : i > Len(s) => todo'[i] = r[i - Len(s) + 1]
    BY <2>2, <2>4, <2>5, Continued
  <2>7. ASSUME NEW i \in 1..Len(todo')
        PROVE  todo'[i] = IF i <= Len(s) THEN s[i] ELSE todo[i - Len(s) + (f + 1) - 1]
    <3>1. CASE i = 1
      BY <2>2, <2>6, <3>1
    <3>2. CASE i # 1
      <4>1. i - Len(s) + 1 \in 1..(Len(todo) - f + 1)
        BY <1>3, <1>7, <2>2, <2>3, <2>6, <3>2
      <4>2. todo'[i] = todo[f + (i - Len(s) + 1) - 1]
        BY <2>2, <2>3, <2>6, <3>2, <4>1
      <4>3. f + (i - Len(s) + 1) - 1 = i - Len(s) + (f + 1) - 1
        BY <1>7, <2>2
      <4> QED
        BY <2>2, <3>2, <4>2, <4>3
    <3> QED
      BY <3>1, <3>2
  <2>8. Resumed(s, f + 1)
    BY <1>3, <1>7, <2>2, <2>3, <2>6, <2>7 DEF Resumed
  <2> QED
    BY <1>7, <1>10, <2>8 DEF s
<1> QED
  BY <1>9, <1>10 DEF CallFails, f

LEMMA Interrupted ==
  ASSUME Listing, CallFails
  PROVE  \E s, m : Plain(s) /\ Resumed(s, m) /\ (m \in 1..Len(todo) => m # 2 \/ IsMarker(todo[m]))
<1>1. PICK m \in 2..Len(todo) : /\ IsMarker(todo[m])
                                /\ \/ Resumed(<<>>, m)
                                   \/ \E with : Resumed(<<Call("sourceFailed", todo[m][2], with)>>, m + 1)
  BY InterruptedAt
<1>2. CASE Resumed(<<>>, m)
  BY <1>1, <1>2, PlainTuples
<1>3. CASE \E with : Resumed(<<Call("sourceFailed", todo[m][2], with)>>, m + 1)
  <2>1. PICK with : Resumed(<<Call("sourceFailed", todo[m][2], with)>>, m + 1)
    BY <1>3
  <2>2. Plain(<<Call("sourceFailed", todo[m][2], with)>>)
    BY PlainCalls, PlainTuples DEF Submitting, Writing, JobCalls
  <2>3. m + 1 # 2
    OBVIOUS
  <2> QED
    BY <2>1, <2>2, <2>3
<1> QED
  BY <1>1, <1>2, <1>3

-----------------------------------------------------------------------------
(* The order of a submission: a job that is being set up is the next call,  *)
(* and the groups that still wait for a job share no request.               *)

Urgent == {"reserve", "createBatch", "failJob", "release"}
Askers == {"submit", "jevSelect", "select"}

Group(c) == IF c[1] = "build" THEN c[2] ELSE IF c[1] = "reserve" THEN c[3] ELSE {}

Ordered ==
  \A i \in 1..Len(todo) :
    /\ i # 1 => todo[i][1] \notin Urgent
    /\ todo[i][1] \in Askers => \A l \in (i + 1)..Len(todo) : todo[l][1] # "build"

Apart == \A i, l \in 1..Len(todo) : i # l => Group(todo[i]) \cap Group(todo[l]) = {}

Structured == Listing /\ Ordered /\ Apart

(* Nothing that waits behind the head holds a group.                        *)
Ungrouped == todo = <<>> \/ Head(todo)[1] \in Askers

LEMMA Waiting ==
  ASSUME Structured, NEW i \in 1..Len(todo), i # 1
  PROVE  /\ todo # <<>> /\ Head(todo) = todo[1] /\ 1 \in 1..Len(todo) /\ 1 # i
         /\ Head(todo)[1] \in Askers => todo[i][1] # "build"
         /\ Ungrouped => Group(todo[i]) = {}
<1>1. Len(todo) \in Nat
  BY LenProperties DEF Structured, Listing, Sequenced
<1>2. todo # <<>>
  BY <1>1, Tuples
<1>3. Head(todo) = todo[1]
  BY <1>2, Rest DEF Structured, Listing
<1>4. 1 \in 1..Len(todo) /\ i \in (1 + 1)..Len(todo)
  BY <1>1
<1>5. Head(todo)[1] \in Askers => todo[i][1] # "build"
  BY <1>3, <1>4 DEF Structured, Ordered
<1>6. todo[i][1] # "reserve"
  BY DEF Structured, Ordered, Urgent
<1> QED
  BY <1>2, <1>3, <1>4, <1>5, <1>6 DEF Ungrouped, Group

LEMMA StructureKept ==
  ASSUME Structured, NEW s, NEW m, Resumed(s, m),
         \A i \in 1..Len(s) : Fits(s[i]),
         \A i \in 1..Len(s) : i # 1 => s[i][1] \notin Urgent,
         \A i \in 1..Len(s) : s[i][1] \in Askers =>
            Ungrouped /\ \A l \in (i + 1)..Len(s) : s[l][1] # "build",
         \A i \in 1..Len(s) : \/ Group(s[i]) = {} \/ Ungrouped
                              \/ todo # <<>> /\ Group(s[i]) \subseteq Group(Head(todo)),
         \A i, l \in 1..Len(s) : i # l => Group(s[i]) \cap Group(s[l]) = {}
  PROVE  Structured'
<1> DEFINE n == Len(s)
           o == Len(todo)
           At(i) == i - n + m - 1
<1>1. n \in Nat /\ o \in Nat /\ m \in 1..(o + 1) /\ (todo # <<>> => m # 1)
  BY LenProperties DEF Structured, Listing, Sequenced, Resumed
<1>2. (todo = <<>> => o = 0) /\ (o # 0 => m # 1)
  BY <1>1, Tuples
<1>3. Len(todo') = n + o + 1 - m /\ Sequenced(todo')
  BY DEF Resumed
<1>4. ASSUME NEW i \in 1..Len(todo')
      PROVE  \/ i \in 1..n /\ todo'[i] = s[i]
             \/ i > n /\ At(i) \in 1..o /\ At(i) # 1 /\ todo'[i] = todo[At(i)]
  <2>1. todo'[i] = IF i <= n THEN s[i] ELSE todo[At(i)]
    BY DEF Resumed
  <2>2. CASE i <= n
    BY <1>1, <2>1, <2>2
  <2>3. CASE ~(i <= n)
    <3>1. At(i) \in 1..o /\ At(i) # 1
      BY <1>1, <1>2, <1>3, <2>3
    <3> QED
      BY <1>1, <2>1, <2>3, <3>1
  <2> QED
    BY <2>2, <2>3
<1> HIDE DEF n
<1>5. \A i \in 1..Len(todo') : Fits(todo'[i])
  BY <1>4 DEF Structured, Listing, n
<1>6. ASSUME NEW i \in 1..Len(todo')
      PROVE  /\ i # 1 => todo'[i][1] \notin Urgent
             /\ todo'[i][1] \in Askers => \A l \in (i + 1)..Len(todo') : todo'[l][1] # "build"
  <2>1. i # 1 => todo'[i][1] \notin Urgent
    <3>1. CASE i \in 1..n /\ todo'[i] = s[i]
      BY <3>1 DEF n
    <3>2. CASE i > n /\ At(i) \in 1..o /\ At(i) # 1 /\ todo'[i] = todo[At(i)]
      BY <3>2 DEF Structured, Ordered
    <3> QED
      BY <1>4, <3>1, <3>2
  <2>2. ASSUME todo'[i][1] \in Askers, NEW l \in (i + 1)..Len(todo')
        PROVE  todo'[l][1] # "build"
    <3>1. l \in 1..Len(todo') /\ l \in Nat /\ i \in Nat /\ l > i
      BY <1>1, <1>3
    <3>2. CASE i \in 1..n /\ todo'[i] = s[i]
      <4>1. Ungrouped /\ \A x \in (i + 1)..n : s[x][1] # "build"
        BY <2>2, <3>2 DEF n
      <4>2. CASE l \in 1..n /\ todo'[l] = s[l]
        <5>1. l \in (i + 1)..n
          BY <1>1, <3>1, <4>2
        <5> QED
          BY <4>1, <4>2, <5>1
      <4>3. CASE l > n /\ At(l) \in 1..o /\ At(l) # 1 /\ todo'[l] = todo[At(l)]
        BY <4>1, <4>3, Waiting DEF Ungrouped
      <4> QED
        BY <1>4, <3>1, <4>2, <4>3
    <3>3. CASE i > n /\ At(i) \in 1..o /\ At(i) # 1 /\ todo'[i] = todo[At(i)]
      <4>1. l > n
        BY <1>1, <3>1, <3>3
      <4>2. At(l) \in 1..o /\ todo'[l] = todo[At(l)]
        BY <1>1, <1>4, <3>1, <4>1
      <4>3. At(l) \in (At(i) + 1)..o
        BY <1>1, <3>1, <3>3, <4>2
      <4>4. \A x \in (At(i) + 1)..o : todo[x][1] # "build"
        BY <2>2, <3>3 DEF Structured, Ordered
      <4> QED
        BY <4>2, <4>3, <4>4
    <3> QED
      BY <1>4, <3>2, <3>3
  <2> QED
    BY <2>1, <2>2
<1>7. ASSUME NEW i \in 1..Len(todo'), NEW l \in 1..Len(todo'), i # l
      PROVE  Group(todo'[i]) \cap Group(todo'[l]) = {}
  <2>1. ASSUME NEW a \in 1..n, NEW b \in 2..o
        PROVE  Group(s[a]) \cap Group(todo[b]) = {}
    <3>1. b \in 1..o /\ b # 1
      BY <1>1
    <3>2. todo # <<>> /\ Head(todo) = todo[1] /\ 1 \in 1..o /\ (Ungrouped => Group(todo[b]) = {})
      BY <3>1, Waiting
    <3>3. Group(todo[1]) \cap Group(todo[b]) = {}
      BY <3>1, <3>2 DEF Structured, Apart
    <3>4. Group(s[a]) = {} \/ Ungrouped \/ (todo # <<>> /\ Group(s[a]) \subseteq Group(Head(todo)))
      BY DEF n
    <3> QED
      BY <3>2, <3>3, <3>4
  <2>2. CASE i \in 1..n /\ todo'[i] = s[i]
    <3>1. CASE l \in 1..n /\ todo'[l] = s[l]
      BY <1>7, <2>2, <3>1 DEF n
    <3>2. CASE l > n /\ At(l) \in 1..o /\ At(l) # 1 /\ todo'[l] = todo[At(l)]
      <4>1. At(l) \in 2..o
        BY <1>1, <3>2
      <4> QED
        BY <2>1, <2>2, <3>2, <4>1
    <3> QED
      BY <1>4, <3>1, <3>2
  <2>3. CASE i > n /\ At(i) \in 1..o /\ At(i) # 1 /\ todo'[i] = todo[At(i)]
    <3>0. At(i) \in 2..o
      BY <1>1, <2>3
    <3>1. CASE l \in 1..n /\ todo'[l] = s[l]
      BY <2>1, <2>3, <3>0, <3>1
    <3>2. CASE l > n /\ At(l) \in 1..o /\ At(l) # 1 /\ todo'[l] = todo[At(l)]
      <4>1. At(i) # At(l)
        BY <1>1, <1>3, <1>7
      <4> QED
        BY <2>3, <3>2, <4>1 DEF Structured, Apart
    <3> QED
      BY <1>4, <3>1, <3>2
  <2> QED
    BY <1>4, <2>2, <2>3
<1>8. Listing'
  BY <1>3, <1>5 DEF Listing, Fits
<1>9. Ordered'
  BY <1>6 DEF Ordered
<1>10. Apart'
  BY <1>7 DEF Apart, Group
<1> QED
  BY <1>8, <1>9, <1>10 DEF Structured

-----------------------------------------------------------------------------
(* What the tables say of a submission.  A request that was handed over and  *)
(* is still queued is held by a job, and a free row of the job table holds   *)
(* none.                                                                     *)

Asked(r) ==
  /\ r = [status |-> r.status, job |-> r.job, jev |-> r.jev, out |-> r.out, sent |-> r.sent]
  /\ r.job \in Jobs \cup {"none"} /\ r.sent \in {0, 1}
  /\ r.sent = 1 => ~(r.job = "none" /\ r.status = "queued")

JobRow(x) == x = [status |-> x.status, jev |-> x.jev, batch |-> x.batch, old |-> x.old]

RemoteRow(x) ==
  /\ x = [keys |-> x.keys, end |-> x.end, lines |-> x.lines, error |-> x.error]
  /\ IsFiniteSet(x.keys) /\ IsFiniteSet(DOMAIN x.lines)

Unheld(j) == \A k \in DOMAIN req : req[k].job # j
Unsent(j) == \A k \in DOMAIN req : req[k].job = j => req[k].sent = 0
Available(k) == k \in DOMAIN req /\ req[k].job = "none" /\ req[k].sent = 0

Tabled ==
  /\ IsFiniteSet(DOMAIN req)
  /\ \A k \in DOMAIN req : Asked(req[k])
  /\ job = [j \in Jobs |-> job[j]] /\ \A j \in Jobs : JobRow(job[j])
  /\ remote = [j \in Jobs |-> remote[j]] /\ \A j \in Jobs : RemoteRow(remote[j])
  /\ \A j \in Jobs : job[j] = NoJob => Unheld(j)

(* What the call that is made next may rely on.                              *)
Ready(c) ==
  /\ c[1] = "reserve" => Unheld(c[2]) /\ job[c[2]] # NoJob
  /\ (c[1] \in {"createBatch", "release"} \/ (c[1] = "failJob" /\ c[3] = "blocked")) => Unsent(c[2])

Grouped == \A i \in 1..Len(todo) : \A k \in Group(todo[i]) : Available(k)

Handover ==
  /\ Structured /\ Tabled /\ Grouped
  /\ todo # <<>> => Ready(todo[1])

LEMMA TabledFinite ==
  ASSUME Handover
  PROVE  Listing /\ Finite
BY DEF Handover, Structured, Tabled, Finite, RemoteRow

LEMMA Advanced ==
  ASSUME Handover, Tabled', NEW s, NEW m, Resumed(s, m),
         \A i \in 1..Len(s) : Fits(s[i]),
         \A i \in 1..Len(s) : i # 1 => s[i][1] \notin Urgent,
         \A i \in 1..Len(s) : s[i][1] \in Askers =>
            Ungrouped /\ \A l \in (i + 1)..Len(s) : s[l][1] # "build",
         \A i \in 1..Len(s) : \/ Group(s[i]) = {} \/ Ungrouped
                              \/ todo # <<>> /\ Group(s[i]) \subseteq Group(Head(todo)),
         \A i, l \in 1..Len(s) : i # l => Group(s[i]) \cap Group(s[l]) = {},
         \A i \in 1..Len(s) : \A k \in Group(s[i]) : Available(k)',
         \A i \in 1..Len(todo) : i # 1 => \A k \in Group(todo[i]) : Available(k)',
         s # <<>> => Ready(s[1])'
  PROVE  Handover'
<1> DEFINE n == Len(s)
           o == Len(todo)
           At(i) == i - n + m - 1
<1>1. Structured'
  BY StructureKept DEF Handover
<1>2. n \in Nat /\ o \in Nat /\ m \in 1..(o + 1) /\ (todo # <<>> => m # 1)
      /\ Len(todo') = n + o + 1 - m /\ Sequenced(s)
  BY LenProperties DEF Handover, Structured, Listing, Sequenced, Resumed
<1>3. (todo = <<>> => o = 0) /\ (o # 0 => m # 1)
  BY <1>2, Tuples
<1>4. ASSUME NEW i \in 1..Len(todo')
      PROVE  \/ i \in 1..n /\ todo'[i] = s[i]
             \/ i > n /\ At(i) \in 1..o /\ At(i) # 1 /\ todo'[i] = todo[At(i)]
  <2>1. todo'[i] = IF i <= n THEN s[i] ELSE todo[At(i)]
    BY DEF Resumed
  <2>2. CASE i <= n
    BY <1>2, <2>1, <2>2
  <2>3. CASE ~(i <= n)
    <3>1. At(i) \in 1..o /\ At(i) # 1
      BY <1>2, <1>3, <2>3
    <3> QED
      BY <1>2, <2>1, <2>3, <3>1
  <2> QED
    BY <2>2, <2>3
<1>5. ASSUME NEW i \in 1..Len(todo'), NEW k \in Group(todo'[i])
      PROVE  Available(k)'
  BY <1>4, <1>5
<1>6. Grouped'
  <2>1. \A c : Group(c)' = Group(c)
    BY DEF Group
  <2> QED
    BY <1>5, <2>1 DEF Grouped
<1>7. ASSUME todo' # <<>>
      PROVE  Ready(todo[1])'
  <2>1. 1 \in 1..Len(todo')
    <3>1. Sequenced(todo')
      BY DEF Resumed
    <3>2. Len(todo') \in Nat \ {0}
      BY <1>7, <3>1, Rest
    <3> QED
      BY <3>2
  <2>2. CASE 1 \in 1..n /\ todo'[1] = s[1]
    <3>1. s # <<>>
      BY <1>2, <2>2, Tuples
    <3> QED
      BY <2>2, <3>1 DEF Ready
  <2>3. CASE At(1) \in 1..o /\ At(1) # 1 /\ todo'[1] = todo[At(1)]
    <3>1. todo'[1][1] \notin Urgent
      BY <2>3 DEF Handover, Structured, Ordered
    <3> QED
      BY <3>1 DEF Ready, Urgent
  <2> QED
    BY <1>4, <2>1, <2>2, <2>3
<1> QED
  BY <1>1, <1>6, <1>7 DEF Handover

(* Steps that answer requests, move jobs and queue new attempts.            *)
KeptRow(r, old) ==
  /\ r = [status |-> r.status, job |-> old.job, jev |-> r.jev, out |-> r.out, sent |-> old.sent]
  /\ r.status = "queued" => old.status = "queued"
NewRow(r) == r = [status |-> "queued", job |-> "none", jev |-> r.jev, out |-> r.out, sent |-> 0]

MildRequests ==
  /\ DOMAIN req \subseteq DOMAIN req' /\ IsFiniteSet(DOMAIN req')
  /\ \A k \in DOMAIN req' : NewRow(req'[k]) \/ (k \in DOMAIN req /\ KeptRow(req'[k], req[k]))
MildJobs ==
  /\ job' = [j \in Jobs |-> job'[j]]
  /\ \A j \in Jobs : JobRow(job'[j]) /\ (job'[j] = NoJob => job[j] = NoJob)
MildRemotes == remote' = [j \in Jobs |-> remote'[j]] /\ \A j \in Jobs : RemoteRow(remote'[j])

LEMMA MildTables ==
  ASSUME Bounded, Tabled, MildRequests, MildJobs, MildRemotes
  PROVE  Tabled' /\ \A k : Available(k) => Available(k)'
<1>1. ASSUME NEW k \in DOMAIN req'
      PROVE  Asked(req'[k]) /\ (Available(k) => req'[k].job = "none" /\ req'[k].sent = 0)
  <2>1. CASE NewRow(req'[k])
    BY <2>1 DEF NewRow, Asked
  <2>2. CASE k \in DOMAIN req /\ KeptRow(req'[k], req[k])
    <3>1. Asked(req[k])
      BY <2>2 DEF Tabled
    <3>2. req'[k].job = req[k].job /\ req'[k].sent = req[k].sent
      BY <2>2 DEF KeptRow
    <3>3. Asked(req'[k])
      BY <2>2, <3>1, <3>2 DEF Asked, KeptRow
    <3> QED
      BY <3>2, <3>3 DEF Available
  <2> QED
    BY <2>1, <2>2 DEF MildRequests
<1>2. \A k : Available(k) => Available(k)'
  BY <1>1 DEF Available, MildRequests
<1>3. ASSUME NEW j \in Jobs, job'[j] = NoJob, NEW k \in DOMAIN req'
      PROVE  req'[k].job # j
  <2>1. Unheld(j) /\ j # "none"
    BY <1>3 DEF MildJobs, Tabled, Bounded
  <2>2. CASE NewRow(req'[k])
    BY <2>1, <2>2 DEF NewRow
  <2>3. CASE k \in DOMAIN req /\ KeptRow(req'[k], req[k])
    <3>1. req'[k].job = req[k].job
      BY <2>3 DEF KeptRow
    <3> QED
      BY <2>1, <2>3, <3>1 DEF Unheld
  <2> QED
    BY <2>2, <2>3 DEF MildRequests
<1>4. Tabled'
  BY <1>1, <1>3 DEF Tabled, Unheld, MildRequests, MildJobs, MildRemotes, Asked, JobRow, RemoteRow, NoJob
<1> QED
  BY <1>2, <1>4

LEMMA SameRows ==
  ASSUME Tabled
  PROVE  /\ UNCHANGED req => MildRequests
         /\ UNCHANGED job => MildJobs
         /\ UNCHANGED remote => MildRemotes
<1>1. ASSUME NEW k \in DOMAIN req
      PROVE  KeptRow(req[k], req[k])
  BY DEF Tabled, Asked, KeptRow
<1> QED
  BY <1>1 DEF Tabled, MildRequests, MildJobs, MildRemotes

(* Calls that have no part in a submission.                                 *)
Light(s) ==
  /\ Sequenced(s)
  /\ \A i \in 1..Len(s) : Fits(s[i]) /\ s[i][1] \notin Submitting

LEMMA PlainIsLight ==
  ASSUME NEW s, Plain(s)
  PROVE  Light(s)
BY DEF Plain, PlainCall, Light

LEMMA LightAsked ==
  ASSUME Bounded, Handover, MildRequests, MildJobs, MildRemotes,
         NEW s, NEW m, Light(s), Resumed(s, m)
  PROVE  Handover'
<1>1. Tabled' /\ \A k : Available(k) => Available(k)'
  BY MildTables DEF Handover
<1>2. ASSUME NEW i \in 1..Len(s)
      PROVE  Fits(s[i]) /\ s[i][1] \notin Urgent \cup Askers /\ Group(s[i]) = {} /\ s[i][1] \notin {"build", "reserve"}
  BY DEF Light, Submitting, Urgent, Askers, Group
<1>3. s # <<>> => Ready(s[1])'
  <2>1. ASSUME s # <<>>
        PROVE  s[1][1] \notin Urgent
    <3>1. Sequenced(s)
      BY DEF Light
    <3>2. Len(s) \in Nat \ {0}
      BY <2>1, <3>1, Rest
    <3> QED
      BY <1>2, <3>2
  <2> QED
    BY <2>1 DEF Ready, Urgent
<1>4. \A i \in 1..Len(todo) : \A k \in Group(todo[i]) : Available(k)'
  BY <1>1 DEF Handover, Grouped
<1> QED
  BY <1>1, <1>2, <1>3, <1>4, Advanced

LEMMA JobSet ==
  ASSUME Tabled, NEW j \in Jobs, NEW x, JobRow(x), x # NoJob, SetJob(j, x)
  PROVE  MildJobs
BY DEF Tabled, MildJobs, SetJob

LEMMA Renamed ==
  ASSUME Tabled, NEW j \in Jobs, NEW status, status # "none", NEW x,
         \/ x = [job[j] EXCEPT !.status = status]
         \/ x = [job[j] EXCEPT !.status = status, !.old = FALSE]
         \/ x = [job[j] EXCEPT !.batch = TRUE, !.status = status]
  PROVE  JobRow(x) /\ x # NoJob
<1>1. PICK a, b, c, d : job[j] = [status |-> a, jev |-> b, batch |-> c, old |-> d]
  BY DEF Tabled, JobRow
<1>2. ASSUME NEW r, NEW y, r = [status |-> a, jev |-> b, batch |-> c, old |-> d],
             y = [r EXCEPT !.status = status]
      PROVE  y = [status |-> status, jev |-> b, batch |-> c, old |-> d]
  BY <1>2
<1>3. ASSUME NEW r, NEW y, r = [status |-> a, jev |-> b, batch |-> c, old |-> d],
             y = [r EXCEPT !.status = status, !.old = FALSE]
      PROVE  y = [status |-> status, jev |-> b, batch |-> c, old |-> FALSE]
  BY <1>3
<1>4. ASSUME NEW r, NEW y, r = [status |-> a, jev |-> b, batch |-> c, old |-> d],
             y = [r EXCEPT !.batch = TRUE, !.status = status]
      PROVE  y = [status |-> status, jev |-> b, batch |-> TRUE, old |-> d]
  BY <1>4
<1>5. \E p, q, z : x = [status |-> status, jev |-> p, batch |-> q, old |-> z]
  BY <1>1, <1>2, <1>3, <1>4
<1> QED
  BY <1>5 DEF JobRow, NoJob

(* Requests that are answered keep their job.                               *)
LEMMA Rewritten ==
  ASSUME Tabled, NEW keys,
         DOMAIN req' = DOMAIN req,
         \A k \in DOMAIN req : IF k \in keys THEN KeptRow(req'[k], req[k]) ELSE req'[k] = req[k]
  PROVE  MildRequests
<1>1. ASSUME NEW k \in DOMAIN req
      PROVE  KeptRow(req[k], req[k])
  BY DEF Tabled, Asked, KeptRow
<1> QED
  BY <1>1 DEF Tabled, MildRequests

LEMMA AnsweredRow ==
  ASSUME Tabled, NEW k \in DOMAIN req, NEW out, NEW status, status # "queued", NEW x,
         \/ x = [req[k] EXCEPT !.status = status]
         \/ x = [req[k] EXCEPT !.out = out, !.status = status]
         \/ x = [req[k] EXCEPT !.status = status, !.out = out]
         \/ x = [req[k] EXCEPT !.jev = TRUE]
         \/ x = [req[k] EXCEPT !.jev = TRUE, !.status = status]
  PROVE  KeptRow(x, req[k])
<1>1. PICK a, b, c, d, e : req[k] = [status |-> a, job |-> b, jev |-> c, out |-> d, sent |-> e]
  BY DEF Tabled, Asked
<1>2. ASSUME NEW r, r = [status |-> a, job |-> b, jev |-> c, out |-> d, sent |-> e], NEW y, y = [r EXCEPT !.status = status]
      PROVE  y = [status |-> status, job |-> b, jev |-> c, out |-> d, sent |-> e]
  BY <1>2
<1>3. ASSUME NEW r, r = [status |-> a, job |-> b, jev |-> c, out |-> d, sent |-> e], NEW y,
             y = [r EXCEPT !.out = out, !.status = status]
      PROVE  y = [status |-> status, job |-> b, jev |-> c, out |-> out, sent |-> e]
  BY <1>3
<1>4. ASSUME NEW r, r = [status |-> a, job |-> b, jev |-> c, out |-> d, sent |-> e], NEW y,
             y = [r EXCEPT !.status = status, !.out = out]
      PROVE  y = [status |-> status, job |-> b, jev |-> c, out |-> out, sent |-> e]
  BY <1>4
<1>5. ASSUME NEW r, r = [status |-> a, job |-> b, jev |-> c, out |-> d, sent |-> e], NEW y, y = [r EXCEPT !.jev = TRUE]
      PROVE  y = [status |-> a, job |-> b, jev |-> TRUE, out |-> d, sent |-> e]
  BY <1>5
<1>6. ASSUME NEW r, r = [status |-> a, job |-> b, jev |-> c, out |-> d, sent |-> e], NEW y,
             y = [r EXCEPT !.jev = TRUE, !.status = status]
      PROVE  y = [status |-> status, job |-> b, jev |-> TRUE, out |-> d, sent |-> e]
  BY <1>6
<1>7. ASSUME NEW p, NEW q, NEW z, x = [status |-> p, job |-> b, jev |-> q, out |-> z, sent |-> e],
             p = status \/ p = a
      PROVE  KeptRow(x, req[k])
  BY <1>1, <1>7 DEF KeptRow
<1>8. CASE x = [req[k] EXCEPT !.status = status]
  BY <1>1, <1>2, <1>7, <1>8
<1>9. CASE x = [req[k] EXCEPT !.out = out, !.status = status]
  BY <1>1, <1>3, <1>7, <1>9
<1>10. CASE x = [req[k] EXCEPT !.status = status, !.out = out]
  BY <1>1, <1>4, <1>7, <1>10
<1>11. CASE x = [req[k] EXCEPT !.jev = TRUE]
  BY <1>1, <1>5, <1>7, <1>11
<1>12. CASE x = [req[k] EXCEPT !.jev = TRUE, !.status = status]
  BY <1>1, <1>6, <1>7, <1>12
<1> QED
  BY <1>8, <1>9, <1>10, <1>11, <1>12

LEMMA MildAnswers ==
  ASSUME Tabled, MarkSubmitted \/ Record \/ JevInterrupted \/ JevSubmit \/ FailRequests \/ Enqueue
  PROVE  MildRequests
<1>1. ASSUME NEW k \in DOMAIN req, NEW out, NEW status, status # "queued"
      PROVE  /\ KeptRow([req[k] EXCEPT !.status = status], req[k])
             /\ KeptRow([req[k] EXCEPT !.out = out, !.status = status], req[k])
             /\ KeptRow([req[k] EXCEPT !.status = status, !.out = out], req[k])
             /\ KeptRow([req[k] EXCEPT !.jev = TRUE], req[k])
             /\ KeptRow([req[k] EXCEPT !.jev = TRUE, !.status = status], req[k])
  BY <1>1, AnsweredRow
<1>2. CASE MarkSubmitted
  <2>1. req' = [k \in DOMAIN req |-> IF k \in KeysOf(About, {"queued"})
                                       THEN [req[k] EXCEPT !.status = "submitted"] ELSE req[k]]
    BY <1>2 DEF MarkSubmitted, SetRequests, Submitted
  <2> QED
    BY <1>1, <2>1, Rewritten
<1>3. CASE Record
  <2> DEFINE status == IF With \in Errors THEN "failed" ELSE "succeeded"
  <2>1. req' = [k \in DOMAIN req |-> IF k \in {About} THEN [req[k] EXCEPT !.out = With, !.status = status] ELSE req[k]]
    BY <1>3 DEF Record, SetRequests
  <2>2. status # "queued"
    OBVIOUS
  <2> HIDE DEF status
  <2>3. \A k \in DOMAIN req : KeptRow([req[k] EXCEPT !.out = With, !.status = status], req[k])
    BY <1>1, <2>2
  <2>4. DOMAIN req' = DOMAIN req
        /\ \A k \in DOMAIN req : IF k \in {About} THEN KeptRow(req'[k], req[k]) ELSE req'[k] = req[k]
    BY <2>1, <2>3
  <2> QED
    BY <2>4, Rewritten
<1>4. CASE JevInterrupted
  <2>1. req' = [k \in DOMAIN req |-> IF k \in {About} THEN [req[k] EXCEPT !.jev = TRUE] ELSE req[k]]
    BY <1>4 DEF JevInterrupted, SetRequests
  <2>2. \A k \in DOMAIN req : KeptRow([req[k] EXCEPT !.jev = TRUE], req[k])
    <3>1. ASSUME NEW k \in DOMAIN req, NEW out, NEW status, status # "queued"
          PROVE  KeptRow([req[k] EXCEPT !.jev = TRUE], req[k])
      BY <3>1, AnsweredRow
    <3>2. "failed" # "queued"
      OBVIOUS
    <3> QED
      BY <3>1, <3>2
  <2> QED
    BY <2>1, <2>2, Rewritten
<1>5. CASE JevSubmit
  <2>1. req' = [k \in DOMAIN req |-> IF k \in KeysOf(About, {"queued"})
                                       THEN [req[k] EXCEPT !.jev = TRUE, !.status = "submitted"] ELSE req[k]]
    BY <1>5 DEF JevSubmit, SetRequests
  <2> QED
    BY <1>1, <2>1, Rewritten
<1>6. CASE FailRequests
  <2>1. req' = [k \in DOMAIN req |-> IF k \in KeysOf(About, {"queued"})
                                       THEN [req[k] EXCEPT !.status = "failed", !.out = With] ELSE req[k]]
    BY <1>6 DEF FailRequests, SetRequests
  <2> QED
    BY <1>1, <2>1, Rewritten
<1>7. CASE Enqueue
  <2>1. CASE UNCHANGED req
    BY <2>1, SameRows
  <2>2. CASE req' # req
    <3>1. PICK x : req' = [k \in DOMAIN req \cup {x} |->
                             IF k = x THEN [status |-> "queued", job |-> "none", jev |-> FALSE,
                                            out |-> "none", sent |-> 0]
                             ELSE req[k]]
      BY <1>7, <2>2 DEF Enqueue
    <3>2. IsFiniteSet(DOMAIN req \cup {x})
      BY FS_AddElement DEF Tabled
    <3>3. \A k \in DOMAIN req : KeptRow(req[k], req[k])
      BY DEF Tabled, Asked, KeptRow
    <3>4. DOMAIN req' = DOMAIN req \cup {x}
      BY <3>1
    <3>5. NewRow(req'[x]) /\ \A k \in DOMAIN req : k # x => req'[k] = req[k]
      BY <3>1 DEF NewRow
    <3>6. ASSUME NEW k \in DOMAIN req'
          PROVE  NewRow(req'[k]) \/ (k \in DOMAIN req /\ KeptRow(req'[k], req[k]))
      BY <3>3, <3>4, <3>5
    <3> QED
      BY <3>2, <3>4, <3>6 DEF MildRequests
  <2> QED
    BY <2>1, <2>2
<1> QED
  BY <1>2, <1>3, <1>4, <1>5, <1>6, <1>7

LEMMA MildMoves ==
  ASSUME Handover,
         RetrieveRunning \/ JevClaim \/ JevStart \/ JevDone \/ Persist
  PROVE  MildJobs
<1>1. About \in Jobs
  BY JobCalled DEF Handover, Structured, RetrieveRunning, JevClaim, JevStart, JevDone, Persist, Do, JobCalls
<1>2. Tabled
  BY DEF Handover
<1>3. \E x : JobRow(x) /\ x # NoJob /\ SetJob(About, x)
  BY <1>1, <1>2, Renamed DEF RetrieveRunning, JevClaim, JevStart, JevDone, Persist
<1> QED
  BY <1>1, <1>2, <1>3, JobSet

LEMMA LinesFinite ==
  ASSUME NEW keys, IsFiniteSet(keys), NEW lines \in LineSets(keys)
  PROVE  IsFiniteSet(DOMAIN lines)
<1>1. PICK some \in SUBSET keys : lines \in Results(some)
  BY DEF LineSets
<1>2. DOMAIN lines = some
  BY <1>1 DEF Results
<1> QED
  BY <1>2, FS_Subset

LEMMA MildEnd ==
  ASSUME Tabled, NEW j \in Jobs, RetrieveEnded(j)
  PROVE  MildJobs /\ MildRemotes
<1>1. MildRemotes
  <2>1. CASE UNCHANGED remote
    BY <2>1, SameRows
  <2>2. CASE remote' # remote
    <3>0. PICK end \in BatchEnds :
             \E error \in IF end = "failed" THEN LineErrors \ {"blocked"} ELSE {"retryable"},
                lines \in IF end = "completed" THEN LineSets(remote[j].keys) ELSE {<<>>} :
               remote' = [remote EXCEPT ![j] = [@ EXCEPT !.end = end, !.lines = lines, !.error = error]]
      BY <2>2 DEF RetrieveEnded
    <3>1. PICK error, lines :
             /\ lines \in IF end = "completed" THEN LineSets(remote[j].keys) ELSE {<<>>}
             /\ remote' = [remote EXCEPT ![j] = [@ EXCEPT !.end = end, !.lines = lines, !.error = error]]
      BY <3>0
    <3>2. RemoteRow(remote[j])
      BY DEF Tabled
    <3>3. IsFiniteSet(DOMAIN lines)
      <4>1. CASE lines \in LineSets(remote[j].keys)
        BY <3>2, <4>1, LinesFinite DEF RemoteRow
      <4>2. CASE lines = <<>>
        <5>1. DOMAIN lines = {}
          BY <4>2
        <5> QED
          BY <5>1, FS_EmptySet
      <4> QED
        BY <3>1, <4>1, <4>2
    <3> DEFINE x == [remote[j] EXCEPT !.end = end, !.lines = lines, !.error = error]
    <3>4. RemoteRow(x)
      <4>1. PICK a, b, c, d : remote[j] = [keys |-> a, end |-> b, lines |-> c, error |-> d] /\ IsFiniteSet(a)
        BY <3>2 DEF RemoteRow
      <4>2. ASSUME NEW r, r = [keys |-> a, end |-> b, lines |-> c, error |-> d], NEW y,
                   y = [r EXCEPT !.end = end, !.lines = lines, !.error = error]
            PROVE  y = [keys |-> a, end |-> end, lines |-> lines, error |-> error]
        BY <4>2
      <4>3. x = [keys |-> a, end |-> end, lines |-> lines, error |-> error]
        BY <4>1, <4>2
      <4>4. x.keys = a /\ x.lines = lines
        BY <4>3
      <4> QED
        BY <3>3, <4>1, <4>3, <4>4 DEF RemoteRow
    <3>5. remote' = [remote EXCEPT ![j] = x]
      BY <3>1
    <3> HIDE DEF x
    <3> QED
      BY <3>4, <3>5 DEF MildRemotes, Tabled
  <2> QED
    BY <2>1, <2>2
<1>2. MildJobs
  <2>1. PICK status : status # "none" /\ SetJob(j, [job[j] EXCEPT !.status = status])
    BY DEF RetrieveEnded
  <2> QED
    BY <2>1, Renamed, JobSet
<1> QED
  BY <1>1, <1>2

-----------------------------------------------------------------------------
(* The steps of a submission.                                               *)

LEMMA HeadCalled ==
  ASSUME Handover, todo # <<>>
  PROVE  /\ Head(todo) = todo[1] /\ 1 \in 1..Len(todo) /\ Ready(todo[1])
         /\ \A k \in Group(Head(todo)) : Available(k)
<1>1. Head(todo) = todo[1] /\ Len(todo) \in Nat \ {0}
  BY Rest DEF Handover, Structured, Listing
<1> QED
  BY <1>1 DEF Handover, Grouped

LEMMA AskedBegins ==
  ASSUME Bounded, Handover, StartPass
  PROVE  Handover'
<1> DEFINE names == <<"reconcile", "poll", "seed", "resume", "submit", "reconcileTerminal">>
           s == [i \in 1..6 |-> Call(names[i], "none", "none")]
<1>1. todo = <<>> /\ todo' = s /\ UNCHANGED <<req, job, remote>>
  BY DEF StartPass, tables
<1>2. Sequenced(s) /\ Len(s) = 6
  <2>1. DOMAIN s = 1..6 /\ s = [i \in 1..6 |-> s[i]]
    OBVIOUS
  <2> QED
    BY <2>1, Listed
<1>3. ASSUME NEW i \in 1..6
      PROVE  /\ Fits(s[i]) /\ s[i][1] \notin Urgent /\ Group(s[i]) = {}
             /\ s[i][1] \notin {"build", "reserve", "createBatch", "failJob", "release"}
  <2>1. s[i] = Call(names[i], "none", "none")
    OBVIOUS
  <2>2. names[i] \in {"reconcile", "poll", "seed", "resume", "submit", "reconcileTerminal"}
    <3>1. i = 1 \/ i = 2 \/ i = 3 \/ i = 4 \/ i = 5 \/ i = 6
      OBVIOUS
    <3> QED
      BY <3>1
  <2> HIDE DEF s, names
  <2> QED
    BY <2>1, <2>2 DEF Call, Fits, JobCalls, Urgent, Group
<1> HIDE DEF s
<1>4. Resumed(s, Len(todo) + 1)
  BY <1>1, <1>2, TabledFinite, ResumedOnly
<1>5. MildRequests /\ MildJobs /\ MildRemotes
  BY <1>1, SameRows DEF Handover
<1>6. Tabled'
  BY <1>5, MildTables DEF Handover
<1>7. Ready(s[1])'
  <2>1. \A i \in 1..6 : Ready(s[i])'
    BY <1>1, <1>3 DEF Ready
  <2> QED
    BY <2>1
<1>8. Len(todo) = 0 /\ Ungrouped
  BY <1>1, Tuples DEF Ungrouped
<1>9. /\ \A i \in 1..Len(s) : Fits(s[i])
      /\ \A i \in 1..Len(s) : i # 1 => s[i][1] \notin Urgent
      /\ \A i \in 1..Len(s) : s[i][1] \in Askers => Ungrouped
      /\ \A i \in 1..Len(s) : \A l \in (i + 1)..Len(s) : s[l][1] # "build"
      /\ \A i \in 1..Len(s) : Group(s[i]) = {}
  BY <1>2, <1>3, <1>8
<1>10. \A i \in 1..Len(todo) : i # 1 => \A k \in Group(todo[i]) : Available(k)'
  BY <1>8
<1> QED
  BY <1>4, <1>6, <1>7, <1>9, <1>10, Advanced

LEMMA AskedSubmit ==
  ASSUME Bounded, Handover, Submit
  PROVE  Handover'
<1>1. PICK s : /\ todo # <<>> /\ todo' = s \o Tail(todo) /\ Head(todo)[1] = "submit"
               /\ \/ s = <<>>
                  \/ s = <<Call("jevRecover", "none", "none"), Call("jevSelect", "none", "none"),
                           Call("select", "none", "none")>>
  BY DEF Submit, Do, Then
<1>2. Sequenced(s) /\ Len(s) \in {0, 3}
  BY <1>1, Tuples
<1>3. Ungrouped
  BY <1>1 DEF Ungrouped, Askers
<1>4. ASSUME NEW i \in 1..Len(s)
      PROVE  /\ Fits(s[i]) /\ s[i][1] \notin Urgent /\ Group(s[i]) = {} /\ s[i][1] # "build"
             /\ s[i][1] \in {"jevRecover", "jevSelect", "select"}
  <2>1. CASE s = <<>>
    BY <2>1
  <2>2. CASE s = <<Call("jevRecover", "none", "none"), Call("jevSelect", "none", "none"),
                   Call("select", "none", "none")>>
    <3>1. i = 1 \/ i = 2 \/ i = 3
      BY <1>2
    <3> QED
      BY <2>2, <3>1 DEF Call, Fits, JobCalls, Urgent, Group
  <2> QED
    BY <1>1, <2>1, <2>2
<1>5. Resumed(s, 2)
  BY <1>1, <1>2, TabledFinite, ResumedNext
<1>6. Tabled'
  <2>1. ASSUME NEW k \in DOMAIN req
        PROVE  /\ Asked(req'[k]) /\ req'[k].job \notin Dead
               /\ req'[k].job = req[k].job \/ req'[k].job = "none"
    <3>1. Asked(req[k]) /\ "none" \notin Dead
      BY DEF Handover, Tabled, Bounded, Dead
    <3>2. CASE req[k].job \in Dead
      <4>1. req[k].status # "queued"
        BY <3>2 DEF Dead, KeysOf, OpenStatuses
      <4>2. req'[k] = [req[k] EXCEPT !.job = "none"]
        BY <3>2 DEF Submit
      <4>3. PICK a, b, c, d, e : req[k] = [status |-> a, job |-> b, jev |-> c, out |-> d, sent |-> e]
        BY <3>1 DEF Asked
      <4>4. req'[k] = [status |-> a, job |-> "none", jev |-> c, out |-> d, sent |-> e]
        BY <4>2, <4>3
      <4> QED
        BY <3>1, <4>1, <4>3, <4>4 DEF Asked
    <3>3. CASE req[k].job \notin Dead
      BY <3>1, <3>3 DEF Submit
    <3> QED
      BY <3>2, <3>3
  <2>2. ASSUME NEW j \in Jobs, job'[j] = NoJob, NEW k \in DOMAIN req
        PROVE  req'[k].job # j
    <3>1. CASE j \in Dead
      BY <2>1, <3>1
    <3>2. CASE j \notin Dead
      <4>1. job[j] = NoJob /\ j # "none"
        BY <2>2, <3>2 DEF Submit, Bounded
      <4>2. req[k].job # j
        BY <4>1 DEF Handover, Tabled, Unheld
      <4> QED
        BY <2>1, <4>1, <4>2
    <3> QED
      BY <3>1, <3>2
  <2>3. DOMAIN req' = DOMAIN req
    BY DEF Submit
  <2>4. JobRow(NoJob) /\ RemoteRow(NoRemote)
    BY FS_EmptySet DEF JobRow, RemoteRow, NoJob, NoRemote
  <2>5. job' = [j \in Jobs |-> job'[j]] /\ \A j \in Jobs : JobRow(job'[j])
    BY <2>4 DEF Submit, Handover, Tabled
  <2>6. remote' = [j \in Jobs |-> remote'[j]] /\ \A j \in Jobs : RemoteRow(remote'[j])
    BY <2>4 DEF Submit, Handover, Tabled
  <2>7. IsFiniteSet(DOMAIN req')
    BY <2>3 DEF Handover, Tabled
  <2> QED
    BY <2>1, <2>2, <2>3, <2>5, <2>6, <2>7 DEF Tabled, Unheld, Asked, JobRow, RemoteRow, NoJob
<1>7. s # <<>> => Ready(s[1])'
  <2>1. s # <<>> => 1 \in 1..Len(s)
    BY <1>2, Rest
  <2> QED
    BY <1>4, <2>1 DEF Ready
<1>8. \A i \in 1..Len(todo) : i # 1 => Group(todo[i]) = {}
  BY <1>3, Waiting DEF Handover
<1>9. \A i \in 1..Len(s) : \A l \in (i + 1)..Len(s) : l \in 1..Len(s)
  BY <1>2
<1>10. /\ \A i \in 1..Len(s) : Fits(s[i])
       /\ \A i \in 1..Len(s) : i # 1 => s[i][1] \notin Urgent
       /\ \A i \in 1..Len(s) : s[i][1] \in Askers => Ungrouped
       /\ \A i \in 1..Len(s) : \A l \in (i + 1)..Len(s) : s[l][1] # "build"
       /\ \A i \in 1..Len(s) : Group(s[i]) = {}
  BY <1>3, <1>4, <1>9
<1>11. \A i \in 1..Len(todo) : i # 1 => \A k \in Group(todo[i]) : Available(k)'
  BY <1>8
<1> QED
  BY <1>5, <1>6, <1>7, <1>10, <1>11, Advanced

LEMMA AskedSelect ==
  ASSUME Bounded, Handover, JevSelect \/ Select
  PROVE  Handover'
<1>1. todo # <<>> /\ Head(todo)[1] \in Askers /\ Ungrouped /\ UNCHANGED <<req, job, remote>>
  BY DEF JevSelect, Select, Do, Askers, Ungrouped, tables
<1>2. MildRequests /\ MildJobs /\ MildRemotes
  BY <1>1, SameRows DEF Handover
<1>3. Tabled' /\ \A k : Available(k) => Available(k)'
  BY <1>2, MildTables DEF Handover
<1>4. ASSUME NEW k \in DOMAIN req, req[k].status = "queued", req[k].job = "none"
      PROVE  Available(k)'
  BY <1>3, <1>4 DEF Handover, Tabled, Asked, Available
<1> DEFINE Builds(s) ==
             /\ Sequenced(s)
             /\ \A i \in 1..Len(s) : s[i][1] = "build"
             /\ \A i \in 1..Len(s) : \A k \in s[i][2] : Available(k)'
             /\ \A i, l \in 1..Len(s) : i # l => s[i][2] \cap s[l][2] = {}
<1>5. PICK s : Builds(s) /\ todo' = s \o Tail(todo)
  <2>1. CASE JevSelect
    <3> DEFINE keys == {k \in DOMAIN req :
                    /\ k[2] = "capability" /\ req[k].status = "queued" /\ req[k].job = "none"
                    /\ item[k[1]].stage = "capability" /\ item[k[1]].status = "running"
                    /\ ~JevAsked(k[1])}
    <3>1. \A k \in keys : Available(k)'
      BY <1>4
    <3>2. todo' = (IF JevEnabled /\ keys # {} THEN <<Call("build", keys, "jev")>> ELSE <<>>) \o Tail(todo)
      BY <2>1 DEF JevSelect, Then
    <3> HIDE DEF keys
    <3>3. CASE todo' = <<>> \o Tail(todo)
      <4>1. Builds(<<>>)
        BY Tuples
      <4> HIDE DEF Builds
      <4> QED
        BY <3>3, <4>1
    <3>4. CASE todo' = <<Call("build", keys, "jev")>> \o Tail(todo)
      <4> DEFINE s == <<Call("build", keys, "jev")>>
      <4>1. Sequenced(s) /\ Len(s) = 1
        BY Tuples
      <4>2. \A i \in 1..Len(s) : s[i] = Call("build", keys, "jev")
        BY <4>1
      <4>3. \A i, l \in 1..Len(s) : i = l
        BY <4>1
      <4>4. Builds(s)
        BY <3>1, <4>1, <4>2, <4>3 DEF Call
      <4> HIDE DEF Builds
      <4> QED
        BY <3>4, <4>4
    <3> QED
      BY <3>2, <3>3, <3>4
  <2>2. CASE Select
    <3> DEFINE keys == {k \in DOMAIN req :
                    /\ req[k].status = "queued" /\ req[k].job = "none"
                    /\ JevEnabled /\ k[2] = "capability" => JevAsked(k[1])}
               groups == {{k \in keys : k[2] = stage} : stage \in {k[2] : k \in keys}}
               n == Cardinality(groups)
               s == Queue("build", groups)
    <3>1. \A k \in keys : Available(k)'
      BY <1>4
    <3>2. IsFiniteSet(keys)
      BY FS_Subset DEF Handover, Tabled
    <3>3. todo' = s \o Tail(todo)
      BY <2>2 DEF Select, Then
    <3> HIDE DEF keys
    <3>4. groups \subseteq SUBSET keys /\ IsFiniteSet(SUBSET keys)
      BY <3>2, FS_SUBSET
    <3>5. IsFiniteSet(groups)
      BY <3>4, FS_Subset
    <3>6. \A g, h \in groups : g # h => g \cap h = {}
      OBVIOUS
    <3>7. \A g \in groups : \A k \in g : Available(k)'
      BY <3>1
    <3> HIDE DEF groups
    <3>8. n \in Nat /\ SetToSeq(groups) \in [1..n -> groups]
          /\ \A i, l \in 1..n : SetToSeq(groups)[i] = SetToSeq(groups)[l] => i = l
      BY <3>5, SetListed
    <3>9. DOMAIN s = 1..n /\ s = [i \in 1..n |-> s[i]]
          /\ \A i \in 1..n : s[i] = Call("build", SetToSeq(groups)[i], "none")
      BY DEF Queue
    <3>10. Sequenced(s) /\ Len(s) = n
      BY <3>8, <3>9, Listed
    <3>11. \A i \in 1..n : s[i][1] = "build" /\ s[i][2] = SetToSeq(groups)[i] /\ s[i][2] \in groups
      BY <3>8, <3>9 DEF Call
    <3> HIDE DEF s, n
    <3>12. Builds(s)
      BY <3>6, <3>7, <3>8, <3>10, <3>11
    <3> HIDE DEF Builds
    <3> QED
      BY <3>3, <3>12
  <2> QED
    BY <2>1, <2>2
<1>6. ASSUME NEW i \in 1..Len(s)
      PROVE  /\ Fits(s[i]) /\ s[i][1] \notin Urgent \cup Askers /\ Group(s[i]) = s[i][2]
  BY <1>5 DEF Fits, JobCalls, Urgent, Askers, Group
<1>7. Resumed(s, 2)
  BY <1>1, <1>5, TabledFinite, ResumedNext
<1>8. s # <<>> => Ready(s[1])'
  <2>1. s # <<>> => 1 \in 1..Len(s)
    BY <1>5, Rest
  <2> QED
    BY <1>6, <2>1 DEF Ready, Urgent
<1>9. \A i \in 1..Len(todo) : \A k \in Group(todo[i]) : Available(k)'
  BY <1>3 DEF Handover, Grouped
<1> QED
  BY <1>1, <1>3, <1>5, <1>6, <1>7, <1>8, <1>9, Advanced

LEMMA OneCall ==
  ASSUME Bounded, Handover, Tabled', todo # <<>>, NEW c, todo' = <<c>> \o Tail(todo),
         Fits(c), c[1] \notin Askers,
         Group(c) = {} \/ Group(c) \subseteq Group(Head(todo)),
         \A k \in Group(c) : Available(k)',
         \A i \in 1..Len(todo) : i # 1 => \A k \in Group(todo[i]) : Available(k)',
         Ready(c)'
  PROVE  Handover'
<1> DEFINE s == <<c>>
<1>1. Sequenced(s) /\ Len(s) = 1 /\ s[1] = c
  BY Tuples
<1>2. todo' = s \o Tail(todo)
  OBVIOUS
<1> HIDE DEF s
<1>3. Resumed(s, 2)
  BY <1>1, <1>2, TabledFinite, ResumedNext
<1>4. \A i \in 1..Len(s) : i = 1 /\ s[i] = c
  BY <1>1
<1>5. Ready(s[1])'
  BY <1>1 DEF Ready
<1> QED
  BY <1>1, <1>3, <1>4, <1>5, Advanced

LEMMA AskedBuild ==
  ASSUME Bounded, Handover, Build
  PROVE  Handover'
<1>1. todo # <<>> /\ Head(todo)[1] = "build" /\ UNCHANGED <<req, remote>>
  BY DEF Build, Do
<1>2. CASE Free = {}
  <2>1. Plain(<<>>) /\ todo' = <<>> \o Tail(todo) /\ UNCHANGED job
    BY <1>2, PlainTuples DEF Build, Skip, Then
  <2>2. Resumed(<<>>, 2)
    BY <1>1, <2>1, TabledFinite, ResumedNext, Tuples
  <2> QED
    BY <1>1, <2>1, <2>2, SameRows, LightAsked, PlainIsLight DEF Handover
<1>3. CASE Free # {}
  <2>1. PICK j \in Free : /\ SetJob(j, [NoJob EXCEPT !.status = "building", !.jev = With = "jev"])
                          /\ todo' = <<Call("reserve", j, About)>> \o Tail(todo)
    BY <1>3 DEF Build, Then
  <2>2. j \in Jobs /\ job[j] = NoJob
    BY DEF Free
  <2>0. PICK x : x = [NoJob EXCEPT !.status = "building", !.jev = With = "jev"]
    OBVIOUS
  <2>3. \E jev : x = [status |-> "building", jev |-> jev, batch |-> FALSE, old |-> FALSE]
    <3>1. ASSUME NEW r, r = [status |-> "none", jev |-> FALSE, batch |-> FALSE, old |-> FALSE], NEW jev,
                 NEW y, y = [r EXCEPT !.status = "building", !.jev = jev]
          PROVE  y = [status |-> "building", jev |-> jev, batch |-> FALSE, old |-> FALSE]
      BY <3>1
    <3>2. PICK jev : jev = (With = "jev")
      OBVIOUS
    <3>3. x = [NoJob EXCEPT !.status = "building", !.jev = jev]
      BY <2>0, <3>2
    <3> QED
      BY <3>1, <3>3 DEF NoJob
  <2>4. JobRow(x) /\ x # NoJob
    BY <2>3 DEF JobRow, NoJob
  <2>5. job' = [job EXCEPT ![j] = x]
    BY <2>0, <2>1 DEF SetJob
  <2>6. MildJobs /\ job'[j] # NoJob
    BY <2>2, <2>4, <2>5 DEF Handover, Tabled, MildJobs
  <2>7. Tabled' /\ \A k : Available(k) => Available(k)'
    BY <1>1, <2>6, SameRows, MildTables DEF Handover
  <2>8. Unheld(j)'
    BY <1>1, <2>2 DEF Handover, Tabled, Unheld
  <2>9. PICK c : c = Call("reserve", j, About)
    OBVIOUS
  <2>10. todo' = <<c>> \o Tail(todo)
    BY <2>1, <2>9
  <2>11. Ready(c)'
    BY <2>6, <2>8, <2>9 DEF Ready, Call
  <2>12. Fits(c) /\ c[1] \notin Askers
    BY <2>2, <2>9 DEF Fits, Askers, Call
  <2>13. Group(c) = Group(Head(todo))
    BY <1>1, <2>9 DEF Group, About, Call
  <2>14. \A k \in Group(c) : Available(k)'
    BY <1>1, <2>7, <2>13, HeadCalled
  <2>15. \A i \in 1..Len(todo) : \A k \in Group(todo[i]) : Available(k)'
    BY <2>7 DEF Handover, Grouped
  <2> QED
    BY <1>1, <2>7, <2>10, <2>11, <2>12, <2>13, <2>14, <2>15, OneCall
<1> QED
  BY <1>2, <1>3

LEMMA AskedReserve ==
  ASSUME Bounded, Handover, Reserve
  PROVE  Handover'
<1> DEFINE c == Head(todo)
<1>0. PICK j : j = About
  OBVIOUS
<1>1. todo # <<>> /\ c[1] = "reserve" /\ c = todo[1] /\ 1 \in 1..Len(todo) /\ UNCHANGED <<job, remote>>
  BY HeadCalled DEF Reserve, Do
<1>2. j \in Jobs /\ Unheld(j) /\ job[j] # NoJob /\ j # "none"
  <2>1. j \in Jobs
    BY <1>0, <1>1, JobCalled DEF Handover, Structured, JobCalls
  <2>2. c[2] = j /\ Ready(c)
    BY <1>0, <1>1, HeadCalled DEF About
  <2> HIDE DEF c
  <2> QED
    BY <1>1, <2>1, <2>2 DEF Ready, Bounded
<1>3. Group(c) = With /\ \A k \in With : Available(k)
  BY <1>1, HeadCalled DEF Group, With
<1>4. CASE UNCHANGED req
  <2>1. PICK name \in {"jevStart", "createBatch", "failJob"} : todo' = <<Call(name, j, "none")>> \o Tail(todo)
    BY <1>0 DEF Reserve, Then
  <2>2. PICK d : d = Call(name, j, "none")
    OBVIOUS
  <2>3. Tabled' /\ \A k : Available(k) => Available(k)'
    BY <1>1, <1>4, SameRows, MildTables DEF Handover
  <2>4. Ready(d)'
    <3>1. Unheld(j)'
      BY <1>2, <1>4 DEF Unheld
    <3>2. Unsent(j)'
      BY <3>1 DEF Unheld, Unsent
    <3> QED
      BY <2>2, <3>2 DEF Ready, Call
  <2>5. Fits(d) /\ d[1] \notin Askers /\ Group(d) = {}
    BY <1>2, <2>2 DEF Fits, Askers, Group, Call
  <2>6. \A i \in 1..Len(todo) : \A k \in Group(todo[i]) : Available(k)'
    BY <2>3 DEF Handover, Grouped
  <2> QED
    BY <1>1, <2>1, <2>2, <2>3, <2>4, <2>5, <2>6, OneCall
<1>5. CASE req' # req
  <2>1. req' = [k \in DOMAIN req |-> IF k \in With THEN [req[k] EXCEPT !.job = j] ELSE req[k]]
    BY <1>0, <1>5 DEF Reserve, SetRequests
  <2>2. PICK name \in {"jevStart", "createBatch"} : todo' = <<Call(name, j, "none")>> \o Tail(todo)
    BY <1>0, <1>5 DEF Reserve, Then
  <2>9. PICK d : d = Call(name, j, "none")
    OBVIOUS
  <2>3. ASSUME NEW k \in With
        PROVE  k \in DOMAIN req /\ Asked(req'[k]) /\ req'[k].job = j /\ req'[k].sent = 0
    <3>1. k \in DOMAIN req /\ req[k].sent = 0 /\ Asked(req[k])
      BY <1>3 DEF Available, Handover, Tabled
    <3>2. req'[k] = [req[k] EXCEPT !.job = j]
      BY <2>1, <3>1
    <3>3. PICK a, b, p, d1, e : req[k] = [status |-> a, job |-> b, jev |-> p, out |-> d1, sent |-> e]
      BY <3>1 DEF Asked
    <3>4. req'[k] = [status |-> a, job |-> j, jev |-> p, out |-> d1, sent |-> e]
      BY <3>2, <3>3
    <3> QED
      BY <1>2, <3>1, <3>3, <3>4 DEF Asked
  <2>4. DOMAIN req' = DOMAIN req /\ \A k \in DOMAIN req : k \notin With => req'[k] = req[k]
    BY <2>1
  <2>5. Tabled'
    <3>1. \A k \in DOMAIN req : Asked(req'[k])
      BY <2>3, <2>4 DEF Handover, Tabled
    <3>2. ASSUME NEW l \in Jobs, job[l] = NoJob, NEW k \in DOMAIN req
          PROVE  req'[k].job # l
      <4>1. l # j /\ req[k].job # l
        BY <1>2, <3>2 DEF Handover, Tabled, Unheld
      <4> QED
        BY <2>3, <2>4, <4>1
    <3> QED
      BY <1>1, <2>4, <3>1, <3>2 DEF Handover, Tabled, Unheld, Asked, JobRow, RemoteRow, NoJob
  <2>6. Ready(d)'
    <3>1. ASSUME NEW k \in DOMAIN req, req'[k].job = j
          PROVE  req'[k].sent = 0
      BY <1>2, <2>3, <2>4, <3>1 DEF Unheld
    <3> QED
      BY <2>4, <2>9, <3>1 DEF Ready, Unsent, Call
  <2>7. Fits(d) /\ d[1] \notin Askers /\ Group(d) = {}
    BY <1>2, <2>9 DEF Fits, Askers, Group, Call
  <2>8. ASSUME NEW i \in 1..Len(todo), i # 1, NEW k \in Group(todo[i])
        PROVE  Available(k)'
    <3>1. k \notin With
      BY <1>1, <1>3, <2>8 DEF Handover, Structured, Apart
    <3>2. Available(k)
      BY DEF Handover, Grouped
    <3> QED
      BY <2>4, <3>1, <3>2 DEF Available
  <2> QED
    BY <1>1, <2>2, <2>5, <2>6, <2>7, <2>8, <2>9, OneCall
<1> QED
  BY <1>4, <1>5

LEMMA AskedFailJob ==
  ASSUME Bounded, Handover, FailJob
  PROVE  Handover'
<1>0. PICK j : j = About
  OBVIOUS
<1>1. /\ todo # <<>> /\ Head(todo)[1] = "failJob" /\ UNCHANGED <<req, remote>>
      /\ SetJob(j, [job[j] EXCEPT !.status = "failed"])
  BY <1>0 DEF FailJob, Do
<1>2. j \in Jobs
  BY <1>0, <1>1, JobCalled DEF Handover, Structured, JobCalls
<1>3. With = "blocked" => Unsent(j)
  BY <1>0, <1>1, HeadCalled DEF Ready, About, With
<1>4. MildJobs
  BY <1>1, <1>2, Renamed, JobSet DEF Handover
<1>5. Tabled' /\ \A k : Available(k) => Available(k)'
  BY <1>1, <1>4, SameRows, MildTables DEF Handover
<1>6. CASE With = "none"
  <2>1. Plain(<<>>) /\ todo' = <<>> \o Tail(todo)
    BY <1>6, PlainTuples DEF FailJob, Then
  <2>2. Resumed(<<>>, 2)
    BY <1>1, <2>1, TabledFinite, ResumedNext, Tuples
  <2> QED
    BY <1>1, <1>4, <2>1, <2>2, SameRows, LightAsked, PlainIsLight DEF Handover
<1>7. CASE With # "none"
  <2>1. PICK d : d = IF With = "blocked" THEN Call("release", j, "none") ELSE Call("failRequests", j, With)
    OBVIOUS
  <2>2. todo' = <<d>> \o Tail(todo)
    BY <1>0, <1>7, <2>1 DEF FailJob, Then
  <2>3. Unsent(j) => Unsent(j)'
    BY <1>1 DEF Unsent
  <2>4. Ready(d)' /\ Fits(d) /\ d[1] \notin Askers /\ Group(d) = {}
    <3>1. CASE With = "blocked"
      BY <1>2, <1>3, <2>1, <2>3, <3>1 DEF Ready, Call, Fits, Askers, Group
    <3>2. CASE With # "blocked"
      BY <1>2, <2>1, <3>2 DEF Ready, Call, Fits, Askers, Group
    <3> QED
      BY <3>1, <3>2
  <2>5. \A i \in 1..Len(todo) : \A k \in Group(todo[i]) : Available(k)'
    BY <1>5 DEF Handover, Grouped
  <2> QED
    BY <1>1, <1>5, <2>2, <2>4, <2>5, OneCall
<1> QED
  BY <1>6, <1>7

LEMMA AskedCreate ==
  ASSUME Bounded, Handover, CreateBatch
  PROVE  Handover'
<1> DEFINE j == About
           keys == KeysOf(j, {"queued"})
<1>1. todo # <<>> /\ Head(todo)[1] = "createBatch" /\ UNCHANGED job
  BY DEF CreateBatch, Do
<1>2. j \in Jobs /\ j # "none"
  BY <1>1, JobCalled DEF Handover, Structured, JobCalls, Bounded
<1>3. Unsent(j)
  BY <1>1, HeadCalled DEF Ready, About
<1>4. PICK d : /\ todo' = <<d>> \o Tail(todo) /\ d[2] = j
               /\ d[1] = "persist" \/ (d[1] = "failJob" /\ (d[3] = "retryable" \/ UNCHANGED <<remote, req>>))
               /\ \/ UNCHANGED <<remote, req>>
                  \/ /\ remote' = [remote EXCEPT ![j].keys = keys]
                     /\ req' = [k \in DOMAIN req |-> IF k \in keys THEN [req[k] EXCEPT !.sent = @ + 1] ELSE req[k]]
  BY DEF CreateBatch, Then, Call, SetRequests
<1>5. IsFiniteSet(keys)
  BY TabledFinite, FiniteKeys
<1>6. \A k \in keys : k \in DOMAIN req /\ req[k].job = j /\ req[k].sent = 0
  BY <1>3 DEF KeysOf, Unsent
<1> HIDE DEF j, keys
<1>7. Fits(d) /\ d[1] \notin Askers /\ Group(d) = {}
  BY <1>2, <1>4 DEF Fits, Askers, Group
<1>8. CASE UNCHANGED <<remote, req>>
  <2>1. Tabled' /\ \A k : Available(k) => Available(k)'
    BY <1>1, <1>8, SameRows, MildTables DEF Handover
  <2>2. Ready(d)'
    BY <1>3, <1>4, <1>8 DEF Ready, Unsent
  <2>3. \A i \in 1..Len(todo) : \A k \in Group(todo[i]) : Available(k)'
    BY <2>1 DEF Handover, Grouped
  <2> QED
    BY <1>1, <1>4, <1>7, <2>1, <2>2, <2>3, OneCall
<1>9. CASE ~(UNCHANGED <<remote, req>>)
  <2>1. /\ remote' = [remote EXCEPT ![j].keys = keys]
        /\ req' = [k \in DOMAIN req |-> IF k \in keys THEN [req[k] EXCEPT !.sent = @ + 1] ELSE req[k]]
        /\ d[1] = "persist" \/ (d[1] = "failJob" /\ d[3] = "retryable")
    BY <1>4, <1>9
  <2>2. ASSUME NEW k \in keys
        PROVE  k \in DOMAIN req /\ Asked(req'[k]) /\ req'[k].job = j
    <3>1. k \in DOMAIN req /\ req[k].sent = 0 /\ req[k].job = j /\ Asked(req[k])
      BY <1>6 DEF Handover, Tabled
    <3>2. req'[k] = [req[k] EXCEPT !.sent = req[k].sent + 1]
      BY <2>1, <3>1
    <3>3. PICK a, b, p, d1, e : req[k] = [status |-> a, job |-> b, jev |-> p, out |-> d1, sent |-> e]
      BY <3>1 DEF Asked
    <3>4. req[k].sent + 1 = 1
      BY <3>1
    <3>5. req'[k] = [status |-> a, job |-> b, jev |-> p, out |-> d1, sent |-> 1]
      BY <3>2, <3>3, <3>4
    <3> QED
      BY <1>2, <3>1, <3>3, <3>5 DEF Asked
  <2>3. DOMAIN req' = DOMAIN req /\ \A k \in DOMAIN req : k \notin keys => req'[k] = req[k]
    BY <2>1
  <2>4. \A k \in DOMAIN req : req'[k].job = req[k].job
    BY <1>6, <2>2, <2>3
  <2>5. remote' = [l \in Jobs |-> remote'[l]] /\ \A l \in Jobs : RemoteRow(remote'[l])
    <3>1. RemoteRow(remote[j])
      BY <1>2 DEF Handover, Tabled
    <3>2. PICK a, b, p, q : remote[j] = [keys |-> a, end |-> b, lines |-> p, error |-> q] /\ IsFiniteSet(DOMAIN p)
      BY <3>1 DEF RemoteRow
    <3> DEFINE x == [remote[j] EXCEPT !.keys = keys]
    <3>3. x = [keys |-> keys, end |-> b, lines |-> p, error |-> q]
      BY <3>2
    <3>4. remote' = [remote EXCEPT ![j] = x]
      BY <2>1
    <3> HIDE DEF x
    <3>5. RemoteRow(x)
      BY <1>5, <3>2, <3>3 DEF RemoteRow
    <3> QED
      BY <3>4, <3>5 DEF Handover, Tabled
  <2>6. Tabled'
    <3>1. \A k \in DOMAIN req : Asked(req'[k])
      BY <2>2, <2>3 DEF Handover, Tabled
    <3>2. \A l \in Jobs : job[l] = NoJob => \A k \in DOMAIN req : req'[k].job # l
      BY <2>4 DEF Handover, Tabled, Unheld
    <3> QED
      BY <1>1, <2>3, <2>5, <3>1, <3>2 DEF Handover, Tabled, Unheld, Asked, JobRow, RemoteRow, NoJob
  <2>7. Ready(d)'
    BY <2>1 DEF Ready
  <2>8. ASSUME NEW i \in 1..Len(todo), NEW k \in Group(todo[i])
        PROVE  Available(k)'
    <3>1. Available(k)
      BY DEF Handover, Grouped
    <3>2. k \notin keys
      BY <1>2, <1>6, <3>1 DEF Available
    <3> QED
      BY <2>3, <3>1, <3>2 DEF Available
  <2> QED
    BY <1>1, <1>4, <1>7, <2>6, <2>7, <2>8, OneCall
<1> QED
  BY <1>8, <1>9

LEMMA AskedRelease ==
  ASSUME Bounded, Handover, Release
  PROVE  Handover'
<1> DEFINE j == About
           keys == KeysOf(j, {"queued"})
           s == <<Call("reconcileTerminal", "none", "none")>>
<1>1. /\ todo # <<>> /\ Head(todo)[1] = "release" /\ UNCHANGED <<job, remote>> /\ todo' = s
      /\ req' = [k \in DOMAIN req |-> IF k \in keys THEN [req[k] EXCEPT !.job = "none"] ELSE req[k]]
  BY DEF Release, Do, SetRequests
<1>2. Unsent(j)
  BY <1>1, HeadCalled DEF Ready, About
<1>3. \A k \in keys : k \in DOMAIN req /\ req[k].sent = 0
  BY <1>2 DEF KeysOf, Unsent
<1>4. Plain(s)
  BY PlainCalls, PlainTuples DEF Submitting, Writing, JobCalls
<1> HIDE DEF j, keys, s
<1>5. ASSUME NEW k \in DOMAIN req
      PROVE  /\ Asked(req'[k]) /\ (req'[k].job = req[k].job \/ req'[k].job = "none")
             /\ Available(k) => Available(k)'
  <2>0. DOMAIN req' = DOMAIN req /\ Asked(req[k])
    BY <1>1 DEF Handover, Tabled
  <2>1. CASE k \in keys
    <3>1. req'[k] = [req[k] EXCEPT !.job = "none"] /\ req[k].sent = 0
      BY <1>1, <1>3, <2>1
    <3>2. PICK a, b, p, d, e : req[k] = [status |-> a, job |-> b, jev |-> p, out |-> d, sent |-> e]
      BY <2>0 DEF Asked
    <3>3. req'[k] = [status |-> a, job |-> "none", jev |-> p, out |-> d, sent |-> e]
      BY <3>1, <3>2
    <3> QED
      BY <2>0, <3>1, <3>2, <3>3 DEF Asked, Available
  <2>2. CASE k \notin keys
    BY <1>1, <2>0, <2>2 DEF Available
  <2> QED
    BY <2>1, <2>2
<1>6. Tabled'
  <2>1. DOMAIN req' = DOMAIN req
    BY <1>1
  <2>2. \A l \in Jobs : job[l] = NoJob => \A k \in DOMAIN req : req'[k].job # l
    BY <1>5 DEF Handover, Tabled, Unheld, Bounded
  <2> QED
    BY <1>1, <1>5, <2>1, <2>2 DEF Handover, Tabled, Unheld, Asked, JobRow, RemoteRow, NoJob
<1>7. Sequenced(s) /\ Len(s) = 1 /\ Resumed(s, Len(todo) + 1) /\ s[1] = Call("reconcileTerminal", "none", "none")
  <2>1. Sequenced(s) /\ Len(s) = 1 /\ s[1] = Call("reconcileTerminal", "none", "none")
    BY Tuples DEF s
  <2> QED
    BY <1>1, <2>1, TabledFinite, ResumedOnly
<1>8. \A i \in 1..Len(s) : /\ i = 1 /\ Fits(s[i]) /\ s[i][1] \notin Urgent \cup Askers
                           /\ Group(s[i]) = {} /\ s[i][1] = "reconcileTerminal"
  BY <1>7 DEF Call, Fits, JobCalls, Urgent, Askers, Group
<1>9. Ready(s[1])'
  BY <1>7, <1>8 DEF Ready, Urgent
<1>10. \A i \in 1..Len(todo) : \A k \in Group(todo[i]) : Available(k)'
  BY <1>5 DEF Handover, Grouped, Available
<1> QED
  BY <1>6, <1>7, <1>8, <1>9, <1>10, Advanced

LEMMA QuietAsked ==
  ASSUME Bounded, Handover, Quietly, MildRequests, MildJobs, MildRemotes
  PROVE  Handover'
<1>1. PICK s : todo # <<>> /\ Plain(s) /\ todo' = s \o Tail(todo)
  BY DEF Quietly
<1>2. Light(s) /\ Sequenced(s)
  BY <1>1, PlainIsLight DEF Plain
<1>3. Resumed(s, 2)
  BY <1>1, <1>2, TabledFinite, ResumedNext
<1> QED
  BY <1>2, <1>3, LightAsked

LEMMA AskedWrites ==
  ASSUME Bounded, Handover, ReadManual \/ Route \/ ReconcileTerminalTools
  PROVE  Handover'
<1>1. todo # <<>> /\ UNCHANGED <<req, job, remote>>
  BY DEF ReadManual, Route, ReconcileTerminalTools, Do, tables
<1>2. MildRequests /\ MildJobs /\ MildRemotes
  BY <1>1, SameRows DEF Handover
<1>3. PICK c, d, s : /\ todo' = s \o Tail(todo) /\ (s = <<>> \/ s = <<c>> \/ s = <<c, d>>)
                     /\ c[1] \in Writing /\ d[1] \in Writing
  <2>1. CASE ReadManual
    <3> DEFINE write == PrimaryWrite(ManualPrimaries(assign[About]) # {})
               c == Call("retire", About, With)
               d == Call("upsertPrimary", About, <<With, write>>)
    <3>1. todo' = ((IF write.primary THEN <<c>> ELSE <<>>) \o <<d>>) \o Tail(todo)
      BY <2>1 DEF ReadManual, Then
    <3>2. c[1] \in Writing /\ d[1] \in Writing
      BY DEF Call, Writing
    <3> HIDE DEF c, d, write
    <3>3. <<c>> \o <<d>> = <<c, d>>
      BY Coupled
    <3>4. <<>> \o <<d>> = <<d>>
      <4>1. <<d>> \in Seq({d})
        OBVIOUS
      <4> QED
        BY <4>1, ConcatEmptySeq
    <3> QED
      BY <3>1, <3>2, <3>3, <3>4
  <2>2. CASE Route \/ ReconcileTerminalTools
    <3>1. PICK t, c : todo' = <<>> \o Tail(todo) \/ (c = Call("moveTools", t, "none") /\ todo' = <<c>> \o Tail(todo))
      BY <2>2 DEF Route, ReconcileTerminalTools, Then
    <3>2. PICK e : e[1] \in Writing
      <4>1. Call("moveTools", "none", "none")[1] \in Writing
        BY DEF Call, Writing
      <4> QED
        BY <4>1
    <3>3. c = Call("moveTools", t, "none") => c[1] \in Writing
      BY DEF Call, Writing
    <3> QED
      BY <3>1, <3>2, <3>3
  <2> QED
    BY <2>1, <2>2
<1>4. Sequenced(s) /\ Len(s) \in 0..2 /\ \A i \in 1..Len(s) : s[i] = c \/ s[i] = d
  <2>1. CASE s = <<>>
    BY <2>1, Tuples
  <2>2. CASE s = <<c>>
    BY <2>2, Tuples
  <2>3. CASE s = <<c, d>>
    <3>1. Sequenced(s) /\ Len(s) = 2
      BY <2>3, Tuples
    <3>2. s[1] = c /\ s[2] = d
      BY <2>3
    <3> QED
      BY <3>1, <3>2
  <2> QED
    BY <1>3, <2>1, <2>2, <2>3
<1>5. Light(s)
  BY <1>3, <1>4 DEF Light, Writing, Fits, JobCalls, Submitting
<1>6. Resumed(s, 2)
  BY <1>1, <1>3, <1>4, TabledFinite, ResumedNext
<1> QED
  BY <1>2, <1>5, <1>6, LightAsked

(* Steps that leave requests, jobs and batches alone.                       *)
LEMMA AskedElsewhere ==
  ASSUME Bounded, Handover,
         \/ Reconcile \/ Poll \/ Lines \/ Unreturned \/ Fallback \/ EndOfPolledJob
         \/ Seed \/ SeedRow \/ CreateItem \/ SourceFailed \/ RetrySource \/ EndOfSeedRow
         \/ ResumeRetries \/ JevRecover \/ JevAnswer \/ Apply \/ React \/ SetKind \/ SaveProfile
         \/ Decide \/ HandleFailure \/ Enter \/ Finalize \/ InsertRun \/ CheckpointRun
         \/ WriteAssignment \/ SetRunStatus \/ Finish \/ MoveTools \/ PersistFails \/ MarkFails
  PROVE  Handover'
<1>1. Quietly
  BY TabledFinite, QuietStatements, QuietCalls, QuietReactions, QuietResults, QuietItems, QuietSeeding,
     QuietJobs
<1>2. UNCHANGED <<req, job, remote>>
  BY DEF Reconcile, Poll, Lines, Unreturned, Fallback, EndOfPolledJob, Seed, SeedRow, CreateItem, SourceFailed,
         RetrySource, EndOfSeedRow, ResumeRetries, JevRecover, JevAnswer, Apply, React, SetKind, SaveProfile,
         Decide, HandleFailure, Enter, Finalize, InsertRun, CheckpointRun, WriteAssignment, SetRunStatus,
         Finish, MoveTools, PersistFails, MarkFails, tables
<1> QED
  BY <1>1, <1>2, SameRows, QuietAsked DEF Handover

LEMMA AskedTables ==
  ASSUME Bounded, Handover,
         \/ MarkSubmitted \/ Record \/ JevInterrupted \/ JevSubmit \/ FailRequests \/ Enqueue
         \/ RetrieveRunning \/ JevClaim \/ JevStart \/ JevDone \/ Persist
         \/ \E j \in Jobs : RetrieveEnded(j)
  PROVE  Handover'
<1>1. Quietly
  BY TabledFinite, QuietStatements, QuietCalls, QuietResults, QuietJobs, QuietEnd
<1>2. CASE MarkSubmitted \/ Record \/ JevInterrupted \/ JevSubmit \/ FailRequests \/ Enqueue
  <2>1. UNCHANGED <<job, remote>>
    BY <1>2 DEF MarkSubmitted, Record, JevInterrupted, JevSubmit, FailRequests, Enqueue
  <2> QED
    BY <1>1, <1>2, <2>1, MildAnswers, SameRows, QuietAsked DEF Handover
<1>3. CASE RetrieveRunning \/ JevClaim \/ JevStart \/ JevDone \/ Persist
  <2>1. UNCHANGED <<req, remote>>
    BY <1>3 DEF RetrieveRunning, JevClaim, JevStart, JevDone, Persist
  <2> QED
    BY <1>1, <1>3, <2>1, MildMoves, SameRows, QuietAsked DEF Handover
<1>4. ASSUME NEW j \in Jobs, RetrieveEnded(j)
      PROVE  Handover'
  <2>1. UNCHANGED req
    BY <1>4 DEF RetrieveEnded
  <2> QED
    BY <1>1, <1>4, <2>1, MildEnd, SameRows, QuietAsked DEF Handover
<1> QED
  BY <1>2, <1>3, <1>4

LEMMA AskedStops ==
  ASSUME Bounded, Handover, StopPass \/ CallFails
  PROVE  Handover'
<1>1. UNCHANGED <<req, job, remote>>
  BY DEF StopPass, CallFails, tables
<1>2. PICK s, m : Plain(s) /\ Resumed(s, m)
  <2>1. CASE StopPass
    BY <2>1, TabledFinite, ResumedOnly, PlainTuples, Tuples DEF StopPass
  <2>2. CASE CallFails
    BY <2>2, TabledFinite, Interrupted
  <2> QED
    BY <2>1, <2>2
<1> QED
  BY <1>1, <1>2, SameRows, PlainIsLight, LightAsked DEF Handover

LEMMA AskedOutside ==
  ASSUME Bounded, Handover,
         \/ UNCHANGED <<req, job, remote, todo>>
         \/ \E j \in Jobs : HourPasses(j)
  PROVE  Handover'
<1>1. CASE UNCHANGED <<req, job, remote, todo>>
  BY <1>1 DEF Handover, Structured, Listing, Ordered, Apart, Tabled, Unheld, Grouped, Available, Ready, Unsent,
              Fits, Asked, JobRow, RemoteRow, Group
<1>2. ASSUME NEW j \in Jobs, HourPasses(j)
      PROVE  Handover'
  <2>1. todo = <<>> /\ UNCHANGED <<req, remote, todo>> /\ SetJob(j, [job[j] EXCEPT !.old = TRUE])
        /\ job[j].status # "none"
    BY <1>2 DEF HourPasses
  <2>2. PICK x : x = [job[j] EXCEPT !.old = TRUE]
    OBVIOUS
  <2>3. PICK a, b, c, d : job[j] = [status |-> a, jev |-> b, batch |-> c, old |-> d]
    BY DEF Handover, Tabled, JobRow
  <2>4. x = [status |-> a, jev |-> b, batch |-> c, old |-> TRUE]
    <3>1. ASSUME NEW r, r = [status |-> a, jev |-> b, batch |-> c, old |-> d], NEW y, y = [r EXCEPT !.old = TRUE]
          PROVE  y = [status |-> a, jev |-> b, batch |-> c, old |-> TRUE]
      BY <3>1
    <3> QED
      BY <2>2, <2>3, <3>1
  <2>5. JobRow(x) /\ x # NoJob
    BY <2>1, <2>3, <2>4 DEF JobRow, NoJob
  <2>6. MildJobs
    BY <2>1, <2>2, <2>5, JobSet DEF Handover
  <2>7. Tabled'
    BY <2>1, <2>6, SameRows, MildTables DEF Handover
  <2>8. Len(todo) = 0
    BY <2>1, Tuples
  <2> QED
    BY <2>1, <2>7, <2>8 DEF Handover, Structured, Listing, Ordered, Apart, Grouped, Fits
<1> QED
  BY <1>1, <1>2

LEMMA AskedStep ==
  ASSUME Bounded, Handover, [Next]_vars
  PROVE  Handover'
<1>1. CASE PassStep
  BY <1>1, AskedBegins, AskedSubmit, AskedSelect, AskedBuild, AskedReserve, AskedFailJob, AskedCreate,
     AskedRelease, AskedWrites, AskedElsewhere, AskedTables DEF PassStep
<1>2. CASE StopPass \/ CallFails
  BY <1>2, AskedStops
<1>3. CASE PersistFails \/ MarkFails
  BY <1>3, AskedElsewhere
<1>4. ASSUME NEW t \in Tools,
             \/ RetryFallsDue(t) \/ ToolPublished(t)
             \/ \E m \in Markets : VerifyPrimary(t, m)
             \/ \E kind \in {"product", "non_product"} : SetKindByHand(t, kind)
      PROVE  Handover'
  <2>1. UNCHANGED <<req, job, remote, todo>>
    BY <1>4 DEF RetryFallsDue, ToolPublished, VerifyPrimary, SetKindByHand
  <2> QED
    BY <2>1, AskedOutside
<1>5. ASSUME NEW j \in Jobs, HourPasses(j)
      PROVE  Handover'
  BY <1>5, AskedOutside
<1>6. CASE UNCHANGED vars
  BY <1>6, AskedOutside DEF vars
<1> QED
  BY <1>1, <1>2, <1>3, <1>4, <1>5, <1>6 DEF Next

LEMMA AskedInit ==
  ASSUME Bounded, Init
  PROVE  Handover
<1>1. req = <<>> /\ todo = <<>> /\ job = [j \in Jobs |-> NoJob] /\ remote = [j \in Jobs |-> NoRemote]
  BY DEF Init
<1>2. DOMAIN req = {} /\ Sequenced(todo) /\ Len(todo) = 0
  BY <1>1, Tuples
<1>3. JobRow(NoJob) /\ RemoteRow(NoRemote)
  BY FS_EmptySet DEF JobRow, RemoteRow, NoJob, NoRemote
<1>4. Tabled
  BY <1>1, <1>2, <1>3, FS_EmptySet DEF Tabled, Unheld
<1>5. Structured
  BY <1>2 DEF Structured, Listing, Ordered, Apart
<1> QED
  BY <1>1, <1>2, <1>4, <1>5 DEF Handover, Grouped

(* A request is handed to the provider as a batch line at most once, however *)
(* often the process stops or a checkpoint fails.                            *)
THEOREM NoRequestAskedTwice ==
  ASSUME Bounded
  PROVE  Spec => []AskedOnce
<1>1. Handover => AskedOnce
  BY DEF Handover, Tabled, Asked, AskedOnce
<1>2. Init => Handover
  BY AskedInit
<1>3. Handover /\ [Next]_vars => Handover'
  BY AskedStep
<1> QED
  BY <1>1, <1>2, <1>3, PTL DEF Spec

-----------------------------------------------------------------------------
(* The rows of the assignments.                                             *)

AssignedRow(r) == r = [source |-> r.source, status |-> r.status, primary |-> r.primary, run |-> r.run]
AssignedRows(rows) == rows = [x \in Terms |-> rows[x]] /\ \A x \in Terms : AssignedRow(rows[x])
OnlyPrimary(rows, term) == \A m \in Markets : rows[m].primary => m = term
SomeOnly(rows) == \A m, n \in Markets : rows[m].primary /\ rows[n].primary => m = n

LEMMA RetiredRow ==
  ASSUME NEW r, AssignedRow(r), NEW status
  PROVE  LET new == [r EXCEPT !.primary = FALSE, !.status = status]
         IN  AssignedRow(new) /\ new.primary = FALSE
<1>1. PICK a, b, c, d : r = [source |-> a, status |-> b, primary |-> c, run |-> d]
  BY DEF AssignedRow
<1>2. PICK new : new = [r EXCEPT !.primary = FALSE, !.status = status]
  OBVIOUS
<1>3. new = [source |-> a, status |-> status, primary |-> FALSE, run |-> d]
  BY <1>1, <1>2
<1> QED
  BY <1>2, <1>3 DEF AssignedRow

LEMMA Retiring ==
  ASSUME NEW rows, AssignedRows(rows), NEW term, NEW new, new = RetireOtherPrimaries(rows, term)
  PROVE  /\ AssignedRows(new) /\ OnlyPrimary(new, term)
         /\ \A m \in Markets : new[m].primary => rows[m].primary
         /\ SomeOnly(rows) => SomeOnly(new)
<1>1. ASSUME NEW x \in Terms
      PROVE  /\ AssignedRow(new[x])
             /\ (x \in Markets /\ new[x].primary) => (x = term /\ rows[x].primary)
  <2>1. CASE x \in Markets \ {term} /\ rows[x].primary
    <3>1. PICK status : status = IF rows[x].status \in AutoStatuses THEN "superseded" ELSE rows[x].status
      OBVIOUS
    <3>2. PICK y : y = [rows[x] EXCEPT !.primary = FALSE, !.status = status]
      OBVIOUS
    <3>3. new[x] = y
      BY <2>1, <3>1, <3>2 DEF RetireOtherPrimaries
    <3>4. AssignedRow(rows[x])
      BY DEF AssignedRows
    <3>5. AssignedRow(y) /\ y.primary = FALSE
      BY <3>2, <3>4, RetiredRow
    <3> QED
      BY <3>3, <3>5
  <2>2. CASE ~(x \in Markets \ {term} /\ rows[x].primary)
    <3>1. new[x] = rows[x]
      BY <2>2 DEF RetireOtherPrimaries
    <3> QED
      BY <2>2, <3>1 DEF AssignedRows
  <2> QED
    BY <2>1, <2>2
<1>2. new = [x \in Terms |-> new[x]]
  BY DEF RetireOtherPrimaries
<1>3. Markets \subseteq Terms
  BY DEF Terms
<1> QED
  BY <1>1, <1>2, <1>3 DEF AssignedRows, OnlyPrimary, SomeOnly

LEMMA Upserting ==
  ASSUME NEW rows, AssignedRows(rows), NEW term, NEW primary, NEW status, NEW run,
         NEW new, new = UpsertAssignment(rows, term, primary, status, run)
  PROVE  /\ AssignedRows(new) /\ ManualPrimaries(new) = ManualPrimaries(rows)
         /\ (SomeOnly(rows) /\ (~primary \/ OnlyPrimary(rows, term))) => SomeOnly(new)
<1>1. CASE new = rows
  BY <1>1
<1>2. CASE new # rows
  <2>1. /\ rows[term].source # "manual"
        /\ new = [rows EXCEPT ![term] = [source |-> "auto", status |-> status, primary |-> primary, run |-> run]]
    BY <1>2 DEF UpsertAssignment
  <2>2. \A x \in Terms : x # term => new[x] = rows[x]
    BY <2>1 DEF AssignedRows
  <2>3. term \in Terms => new[term] = [source |-> "auto", status |-> status, primary |-> primary, run |-> run]
    BY <2>1 DEF AssignedRows
  <2>4. new = [x \in Terms |-> new[x]]
    BY <2>1 DEF AssignedRows
  <2>5. AssignedRows(new)
    BY <2>2, <2>3, <2>4 DEF AssignedRows, AssignedRow
  <2>6. Markets \subseteq Terms
    BY DEF Terms
  <2>7. ManualPrimaries(new) = ManualPrimaries(rows)
    <3>1. ASSUME NEW m \in Markets
          PROVE  (m \in ManualPrimaries(new)) = (m \in ManualPrimaries(rows))
      <4>1. CASE m = term
        <5>1. new[m].source = "auto"
          BY <2>3, <2>6, <4>1
        <5> QED
          BY <2>1, <4>1, <5>1 DEF ManualPrimaries
      <4>2. CASE m # term
        BY <2>2, <2>6, <4>2 DEF ManualPrimaries
      <4> QED
        BY <4>1, <4>2
    <3> QED
      BY <3>1 DEF ManualPrimaries
  <2>8. ASSUME SomeOnly(rows), ~primary \/ OnlyPrimary(rows, term), NEW m \in Markets, NEW n \in Markets,
               new[m].primary, new[n].primary
        PROVE  m = n
    <3>1. ASSUME NEW x \in Markets, new[x].primary
          PROVE  (x = term /\ primary) \/ (x # term /\ rows[x].primary)
      <4>1. CASE x = term
        <5>1. new[x].primary = primary
          BY <2>3, <2>6, <4>1
        <5> QED
          BY <3>1, <4>1, <5>1
      <4>2. CASE x # term
        BY <2>2, <2>6, <3>1, <4>2
      <4> QED
        BY <4>1, <4>2
    <3> QED
      BY <2>8, <3>1 DEF SomeOnly, OnlyPrimary
  <2> QED
    BY <2>5, <2>7, <2>8 DEF SomeOnly
<1> QED
  BY <1>1, <1>2

LEMMA Superseding ==
  ASSUME NEW rows, AssignedRows(rows), NEW terms, NEW run, NEW new, new = SupersedeAuto(rows, terms, run)
  PROVE  /\ AssignedRows(new) /\ ManualPrimaries(new) = ManualPrimaries(rows)
         /\ SomeOnly(rows) => SomeOnly(new)
<1>1. ASSUME NEW x \in Terms
      PROVE  /\ AssignedRow(new[x])
             /\ new[x] = rows[x] \/ (rows[x].source = "auto" /\ new[x].source = "auto" /\ new[x].primary = FALSE)
  <2>1. AssignedRow(rows[x])
    BY DEF AssignedRows
  <2>2. CASE x \in terms /\ rows[x].source = "auto" /\ rows[x].status \in AutoStatuses /\ rows[x].run # run
    <3>1. PICK y : y = [rows[x] EXCEPT !.status = "superseded", !.primary = FALSE]
      OBVIOUS
    <3>2. new[x] = y
      BY <2>2, <3>1 DEF SupersedeAuto
    <3>3. AssignedRow(y) /\ y.source = rows[x].source /\ y.primary = FALSE
      <4>1. PICK a, b, c, d : rows[x] = [source |-> a, status |-> b, primary |-> c, run |-> d]
        BY <2>1 DEF AssignedRow
      <4>2. ASSUME NEW r, r = [source |-> a, status |-> b, primary |-> c, run |-> d],
                   NEW z, z = [r EXCEPT !.status = "superseded", !.primary = FALSE]
            PROVE  z = [source |-> a, status |-> "superseded", primary |-> FALSE, run |-> d]
        BY <4>2
      <4>3. y = [source |-> a, status |-> "superseded", primary |-> FALSE, run |-> d]
        BY <3>1, <4>1, <4>2
      <4> QED
        BY <4>1, <4>3 DEF AssignedRow
    <3> QED
      BY <2>2, <3>2, <3>3
  <2>3. CASE ~(x \in terms /\ rows[x].source = "auto" /\ rows[x].status \in AutoStatuses /\ rows[x].run # run)
    BY <2>1, <2>3 DEF SupersedeAuto
  <2> QED
    BY <2>2, <2>3
<1>2. new = [x \in Terms |-> new[x]]
  BY DEF SupersedeAuto
<1>3. Markets \subseteq Terms
  BY DEF Terms
<1>4. ManualPrimaries(new) = ManualPrimaries(rows)
  BY <1>1, <1>3 DEF ManualPrimaries
<1>5. SomeOnly(rows) => SomeOnly(new)
  BY <1>1, <1>3 DEF SomeOnly
<1> QED
  BY <1>1, <1>2, <1>4, <1>5 DEF AssignedRows

LEMMA Verifying ==
  ASSUME NEW rows, AssignedRows(rows), NEW term \in Markets, NEW new, new = VerifyManually(rows, term)
  PROVE  AssignedRows(new) /\ SomeOnly(new)
<1>1. PICK retired : retired = RetireOtherPrimaries(rows, term)
  OBVIOUS
<1>2. AssignedRows(retired) /\ OnlyPrimary(retired, term)
  BY <1>1, Retiring
<1>3. new = [retired EXCEPT ![term] = [source |-> "manual", status |-> "verified", primary |-> TRUE, run |-> 0]]
  BY <1>1 DEF VerifyManually
<1>4. term \in Terms /\ Markets \subseteq Terms
  BY DEF Terms
<1>5. /\ \A x \in Terms : x # term => new[x] = retired[x]
      /\ new[term] = [source |-> "manual", status |-> "verified", primary |-> TRUE, run |-> 0]
      /\ new = [x \in Terms |-> new[x]]
  BY <1>2, <1>3, <1>4 DEF AssignedRows
<1>6. AssignedRows(new)
  BY <1>2, <1>5 DEF AssignedRows, AssignedRow
<1>7. \A m \in Markets : new[m].primary => m = term
  BY <1>2, <1>4, <1>5 DEF OnlyPrimary
<1> QED
  BY <1>6, <1>7 DEF SomeOnly

-----------------------------------------------------------------------------
(* What a pass writes about a tool: the other primaries are retired, the     *)
(* next call, just before the primary is written, and tools move at once.    *)

Matching(c, d) == c[1] = "retire" /\ d[2] = c[2] /\ d[3][1] = c[3]

Sited ==
  \A i \in 1..Len(todo) :
    /\ todo[i][1] \in {"retire", "moveTools"} => i = 1
    /\ todo[i][1] = "upsertPrimary" => i = 1 \/ (i = 2 /\ Matching(todo[1], todo[2]))

Retires(c) == c[1] = "retire" /\ c[2] \in Tools => ManualPrimaries(assign[c[2]]) = {}
Upserts(c) == c[1] = "upsertPrimary" /\ c[2] \in Tools /\ c[3][2].primary => OnlyPrimary(assign[c[2]], c[3][1])
Moves(c) ==
  c[1] = "moveTools" =>
    \A t \in Tools : t \in DOMAIN c[2] /\ c[2][t] = "rejected" => tool[t].kind = "non_product"

ToolRow(x) == x = [status |-> x.status, manual |-> x.manual, kind |-> x.kind]

(* The rows of the tools.                                                    *)
ToolRows == tool = [t \in Tools |-> tool[t]] /\ \A t \in Tools : ToolRow(tool[t])
AssignRows ==
  /\ assign = [t \in Tools |-> assign[t]]
  /\ \A t \in Tools : AssignedRows(assign[t]) /\ SomeOnly(assign[t])

Decided ==
  /\ Handover /\ Sited /\ ToolRows /\ AssignRows
  /\ todo # <<>> => Retires(todo[1]) /\ Upserts(todo[1]) /\ Moves(todo[1])

Mute(s) == Sequenced(s) /\ \A i \in 1..Len(s) : s[i][1] \notin Writing
Silent(c) == c[1] \notin Writing

LEMMA PlainIsMute ==
  ASSUME NEW s, Plain(s)
  PROVE  Mute(s)
BY DEF Plain, PlainCall, Mute

(* Calls that write nothing take the place of the head.                      *)
LEMMA Quieted ==
  ASSUME Listing, Sited, NEW s, NEW m, Mute(s), Resumed(s, m),
         m \in 1..Len(todo) => todo[m][1] # "upsertPrimary"
  PROVE  Sited' /\ (todo' # <<>> => Silent(todo'[1]))
<1> DEFINE n == Len(s)
           o == Len(todo)
           At(i) == i - n + m - 1
<1>1. n \in Nat /\ o \in Nat /\ m \in 1..(o + 1) /\ (todo # <<>> => m # 1)
      /\ Len(todo') = n + o + 1 - m
  BY LenProperties DEF Listing, Sequenced, Mute, Resumed
<1>2. o # 0 => m # 1
  BY <1>1, Tuples
<1>3. ASSUME NEW i \in 1..Len(todo')
      PROVE  Silent(todo'[i])
  <2>1. todo'[i] = IF i <= n THEN s[i] ELSE todo[At(i)]
    BY DEF Resumed
  <2>2. CASE i <= n
    BY <1>1, <2>1, <2>2 DEF Mute, Silent
  <2>3. CASE ~(i <= n)
    <3>1. At(i) \in 1..o /\ At(i) # 1 /\ (At(i) = 2 => m = 2)
      BY <1>1, <1>2, <2>3
    <3>2. todo[At(i)][1] \notin {"retire", "moveTools"}
      BY <3>1 DEF Sited
    <3>3. todo[At(i)][1] = "upsertPrimary" => At(i) = 2
      BY <3>1 DEF Sited
    <3>4. At(i) = 2 => todo[At(i)][1] # "upsertPrimary"
      BY <3>1
    <3> HIDE DEF At
    <3> QED
      BY <2>1, <2>3, <3>2, <3>3, <3>4 DEF Silent, Writing
  <2> QED
    BY <2>2, <2>3
<1>4. Sited'
  BY <1>3 DEF Sited, Silent, Writing
<1>5. ASSUME todo' # <<>>
      PROVE  1 \in 1..Len(todo')
  <2>1. Sequenced(todo')
    BY DEF Resumed
  <2>2. Len(todo') \in Nat \ {0}
    BY <1>5, <2>1, Rest
  <2> QED
    BY <2>2
<1> QED
  BY <1>3, <1>4, <1>5

LEMMA QuietedNext ==
  ASSUME Listing, Sited, NEW s, Mute(s), todo # <<>>, todo' = s \o Tail(todo), Head(todo)[1] # "retire"
  PROVE  Sited' /\ (todo' # <<>> => Silent(todo'[1]))
<1>1. Resumed(s, 2)
  BY ResumedNext DEF Mute
<1>2. Head(todo) = todo[1]
  BY Rest DEF Listing
<1>3. 2 \in 1..Len(todo) => todo[2][1] # "upsertPrimary"
  BY <1>2 DEF Sited, Matching
<1> QED
  BY <1>1, <1>3, Quieted

(* The steps that do not decide about a tool.                                *)
Elsewhere ==
  \/ StartPass \/ Reconcile \/ Poll \/ MarkSubmitted \/ RetrieveRunning
  \/ (\E j \in Jobs : RetrieveEnded(j))
  \/ Lines \/ Unreturned \/ Fallback \/ EndOfPolledJob
  \/ Seed \/ SeedRow \/ CreateItem \/ SourceFailed \/ RetrySource \/ EndOfSeedRow
  \/ ResumeRetries
  \/ Submit \/ JevRecover \/ JevClaim \/ JevInterrupted \/ JevSelect \/ JevStart \/ JevSubmit
  \/ JevAnswer \/ JevDone \/ Select \/ Build \/ Reserve \/ FailJob \/ CreateBatch \/ Persist
  \/ Release \/ FailRequests
  \/ Apply \/ Record \/ React \/ SaveProfile \/ Decide \/ HandleFailure
  \/ Enqueue \/ Enter \/ Finalize \/ InsertRun \/ CheckpointRun
  \/ SetRunStatus \/ Finish
  \/ StopPass \/ CallFails \/ PersistFails \/ MarkFails

LEMMA MuteTuples ==
  /\ Mute(<<>>)
  /\ \A c : c[1] \notin Writing => Mute(<<c>>)
<1>1. Mute(<<>>)
  BY Tuples DEF Mute
<1>2. ASSUME NEW c, c[1] \notin Writing
      PROVE  Mute(<<c>>)
  BY <1>2, Tuples DEF Mute
<1> QED
  BY <1>1, <1>2

LEMMA MuteSubmission ==
  ASSUME Bounded, Handover,
         Submit \/ JevSelect \/ Select \/ Build \/ Reserve \/ FailJob \/ CreateBatch
  PROVE  \E s : Mute(s) /\ todo # <<>> /\ todo' = s \o Tail(todo) /\ Head(todo)[1] # "retire"
<1>1. todo # <<>> /\ Head(todo)[1] # "retire"
  BY DEF Submit, JevSelect, Select, Build, Reserve, FailJob, CreateBatch, Do
<1>2. CASE Submit
  <2> DEFINE s == <<Call("jevRecover", "none", "none"), Call("jevSelect", "none", "none"),
                    Call("select", "none", "none")>>
  <2>1. todo' = <<>> \o Tail(todo) \/ todo' = s \o Tail(todo)
    BY <1>2 DEF Submit, Then
  <2>2. Mute(s)
    <3>1. Sequenced(s) /\ Len(s) = 3
      BY Tuples
    <3>2. \A i \in 1..3 : s[i][1] \notin Writing
      <4>1. s[1][1] \notin Writing /\ s[2][1] \notin Writing /\ s[3][1] \notin Writing
        BY DEF Call, Writing
      <4>2. \A i \in 1..3 : i = 1 \/ i = 2 \/ i = 3
        OBVIOUS
      <4> QED
        BY <4>1, <4>2
    <3> QED
      BY <3>1, <3>2 DEF Mute
  <2> HIDE DEF s
  <2> QED
    BY <1>1, <2>1, <2>2, MuteTuples
<1>3. CASE JevSelect
  <2>1. PICK keys : \/ todo' = <<>> \o Tail(todo)
                    \/ todo' = <<Call("build", keys, "jev")>> \o Tail(todo)
    BY <1>3 DEF JevSelect, Then
  <2>2. Mute(<<Call("build", keys, "jev")>>)
    BY MuteTuples DEF Call, Writing
  <2> QED
    BY <1>1, <2>1, <2>2, MuteTuples
<1>4. CASE Select
  <2> DEFINE keys == {k \in DOMAIN req :
                    /\ req[k].status = "queued" /\ req[k].job = "none"
                    /\ JevEnabled /\ k[2] = "capability" => JevAsked(k[1])}
             groups == {{k \in keys : k[2] = stage} : stage \in {k[2] : k \in keys}}
             n == Cardinality(groups)
             s == Queue("build", groups)
  <2>1. IsFiniteSet(keys)
    BY FS_Subset DEF Handover, Tabled
  <2>2. todo' = s \o Tail(todo)
    BY <1>4 DEF Select, Then
  <2> HIDE DEF keys
  <2>3. groups \subseteq SUBSET keys /\ IsFiniteSet(SUBSET keys)
    BY <2>1, FS_SUBSET
  <2>4. IsFiniteSet(groups)
    BY <2>3, FS_Subset
  <2> HIDE DEF groups
  <2>5. n \in Nat
    BY <2>4, SetListed
  <2>6. DOMAIN s = 1..n /\ s = [i \in 1..n |-> s[i]] /\ \A i \in 1..n : s[i][1] = "build"
    BY DEF Queue, Call
  <2>7. Mute(s)
    BY <2>5, <2>6, Listed DEF Mute, Writing
  <2> HIDE DEF s
  <2> QED
    BY <1>1, <2>2, <2>7
<1>5. CASE Build \/ Reserve \/ FailJob \/ CreateBatch
  <2>1. PICK name, about, with :
           /\ \/ todo' = <<>> \o Tail(todo)
              \/ todo' = <<Call(name, about, with)>> \o Tail(todo)
           /\ name \notin Writing
    <3>1. CASE Build
      <4>1. \E j : \/ todo' = <<>> \o Tail(todo)
                   \/ todo' = <<Call("reserve", j, About)>> \o Tail(todo)
        BY <3>1 DEF Build, Skip, Then
      <4> QED
        BY <4>1 DEF Writing
    <3>2. CASE Reserve
      <4>1. \E name \in {"jevStart", "createBatch", "failJob"} : todo' = <<Call(name, About, "none")>> \o Tail(todo)
        BY <3>2 DEF Reserve, Then
      <4> QED
        BY <4>1 DEF Writing
    <3>3. CASE FailJob
      <4>1. \/ todo' = <<>> \o Tail(todo)
            \/ todo' = <<Call("release", About, "none")>> \o Tail(todo)
            \/ todo' = <<Call("failRequests", About, With)>> \o Tail(todo)
        BY <3>3 DEF FailJob, Then
      <4> QED
        BY <4>1 DEF Writing
    <3>4. CASE CreateBatch
      <4>1. \/ todo' = <<Call("persist", About, "none")>> \o Tail(todo)
            \/ \E error : todo' = <<Call("failJob", About, error)>> \o Tail(todo)
        BY <3>4 DEF CreateBatch, Then
      <4> QED
        BY <4>1 DEF Writing
    <3> QED
      BY <1>5, <3>1, <3>2, <3>3, <3>4
  <2>2. Mute(<<Call(name, about, with)>>)
    BY <2>1, MuteTuples DEF Call
  <2> QED
    BY <1>1, <2>1, <2>2, MuteTuples
<1> QED
  BY <1>2, <1>3, <1>4, <1>5

LEMMA SilentElsewhere ==
  ASSUME Bounded, Handover, Sited, Elsewhere
  PROVE  Sited' /\ (todo' # <<>> => Silent(todo'[1]))
<1> USE TabledFinite
<1>1. CASE StartPass
  <2> DEFINE names == <<"reconcile", "poll", "seed", "resume", "submit", "reconcileTerminal">>
             s == [i \in 1..6 |-> Call(names[i], "none", "none")]
  <2>1. todo = <<>> /\ todo' = s
    BY <1>1 DEF StartPass
  <2>2. Sequenced(s) /\ Len(s) = 6
    <3>1. DOMAIN s = 1..6 /\ s = [i \in 1..6 |-> s[i]]
      OBVIOUS
    <3> QED
      BY <3>1, Listed
  <2>3. ASSUME NEW i \in 1..6
        PROVE  s[i][1] \notin Writing
    <3>1. s[i] = Call(names[i], "none", "none")
      OBVIOUS
    <3>2. names[i] \in {"reconcile", "poll", "seed", "resume", "submit", "reconcileTerminal"}
      <4>1. i = 1 \/ i = 2 \/ i = 3 \/ i = 4 \/ i = 5 \/ i = 6
        OBVIOUS
      <4> QED
        BY <4>1
    <3> HIDE DEF s, names
    <3> QED
      BY <3>1, <3>2 DEF Call, Writing
  <2> HIDE DEF s
  <2>4. Mute(s)
    BY <2>2, <2>3 DEF Mute
  <2>5. Resumed(s, Len(todo) + 1) /\ Len(todo) = 0
    BY <2>1, <2>2, ResumedOnly, Tuples
  <2> QED
    BY <2>4, <2>5, Quieted
<1>2. CASE StopPass \/ Release
  <2>1. todo' = <<>> \/ todo' = <<Call("reconcileTerminal", "none", "none")>>
    BY <1>2 DEF StopPass, Release
  <2>2. PICK s : Mute(s) /\ todo' = s
    BY <2>1, MuteTuples DEF Call, Writing
  <2>3. Resumed(s, Len(todo) + 1) /\ Len(todo) \in Nat
    BY <2>2, ResumedOnly, LenProperties DEF Mute, Listing, Sequenced
  <2> QED
    BY <2>2, <2>3, Quieted
<1>3. CASE CallFails
  <2>1. PICK s, m : Plain(s) /\ Resumed(s, m) /\ (m \in 1..Len(todo) => m # 2 \/ IsMarker(todo[m]))
    BY <1>3, Interrupted
  <2>2. ASSUME m \in 1..Len(todo)
        PROVE  todo[m][1] # "upsertPrimary"
    <3>1. todo # <<>> /\ m # 1
      <4>1. todo # <<>>
        BY <2>2, Tuples
      <4> QED
        BY <2>1, <4>1 DEF Resumed
    <3> QED
      BY <2>1, <2>2, <3>1 DEF Sited, IsMarker
  <2> QED
    BY <2>1, <2>2, PlainIsMute, Quieted
<1>4. CASE Submit \/ JevSelect \/ Select \/ Build \/ Reserve \/ FailJob \/ CreateBatch
  BY <1>4, MuteSubmission, QuietedNext
<1>5. CASE \/ Reconcile \/ Poll \/ MarkSubmitted \/ RetrieveRunning
           \/ (\E j \in Jobs : RetrieveEnded(j))
           \/ Lines \/ Unreturned \/ Fallback \/ EndOfPolledJob
           \/ Seed \/ SeedRow \/ CreateItem \/ SourceFailed \/ RetrySource \/ EndOfSeedRow
           \/ ResumeRetries
           \/ JevRecover \/ JevClaim \/ JevInterrupted \/ JevStart \/ JevSubmit
           \/ JevAnswer \/ JevDone \/ Persist \/ FailRequests
           \/ Apply \/ Record \/ React \/ SaveProfile \/ Decide \/ HandleFailure
           \/ Enqueue \/ Enter \/ Finalize \/ InsertRun \/ CheckpointRun
           \/ SetRunStatus \/ Finish \/ PersistFails \/ MarkFails
  <2>1. Quietly
    BY <1>5, QuietStatements, QuietCalls, QuietReactions, QuietResults, QuietItems, QuietSeeding,
       QuietJobs, QuietEnd
  <2>2. Head(todo)[1] # "retire"
    BY <1>5 DEF Reconcile, Poll, MarkSubmitted, RetrieveRunning, RetrieveEnded, Lines, Unreturned, Fallback,
         EndOfPolledJob, Seed, SeedRow, CreateItem, SourceFailed, RetrySource, EndOfSeedRow, ResumeRetries,
         JevRecover, JevClaim, JevInterrupted, JevStart, JevSubmit, JevAnswer, JevDone, Persist, FailRequests,
         Apply, Record, React, SaveProfile, Decide, HandleFailure, Enqueue, Enter, Finalize, InsertRun,
         CheckpointRun, SetRunStatus, Finish, PersistFails, MarkFails, Do
  <2> QED
    BY <2>1, <2>2, PlainIsMute, QuietedNext DEF Quietly
<1> QED
  BY <1>1, <1>2, <1>3, <1>4, <1>5 DEF Elsewhere

LEMMA KeptElsewhere ==
  ASSUME Elsewhere
  PROVE  UNCHANGED <<assign, tool>>
<1>1. CASE \/ StartPass \/ Reconcile \/ Poll \/ MarkSubmitted \/ RetrieveRunning
           \/ (\E j \in Jobs : RetrieveEnded(j))
           \/ Lines \/ Unreturned \/ Fallback \/ EndOfPolledJob
           \/ Seed \/ SeedRow \/ CreateItem \/ SourceFailed \/ RetrySource \/ EndOfSeedRow
           \/ ResumeRetries
  BY <1>1 DEF StartPass, Reconcile, Poll, MarkSubmitted, RetrieveRunning, RetrieveEnded, Lines, Unreturned, Fallback,
              EndOfPolledJob, Seed, SeedRow, CreateItem, SourceFailed, RetrySource, EndOfSeedRow, ResumeRetries, tables
<1>2. CASE \/ Submit \/ JevRecover \/ JevClaim \/ JevInterrupted \/ JevSelect \/ JevStart \/ JevSubmit
           \/ JevAnswer \/ JevDone \/ Select \/ Build \/ Reserve \/ FailJob \/ CreateBatch \/ Persist
           \/ Release \/ FailRequests
  BY <1>2 DEF Submit, JevRecover, JevClaim, JevInterrupted, JevSelect, JevStart, JevSubmit, JevAnswer, JevDone,
              Select, Build, Reserve, FailJob, CreateBatch, Persist, Release, FailRequests, tables
<1>3. CASE \/ Apply \/ Record \/ React \/ SaveProfile \/ Decide \/ HandleFailure
           \/ Enqueue \/ Enter \/ Finalize \/ InsertRun \/ CheckpointRun
           \/ SetRunStatus \/ Finish
           \/ StopPass \/ CallFails \/ PersistFails \/ MarkFails
  BY <1>3 DEF Apply, Record, React, SaveProfile, Decide, HandleFailure, Enqueue, Enter, Finalize, InsertRun,
              CheckpointRun, SetRunStatus, Finish, StopPass, CallFails, PersistFails, MarkFails, tables
<1> QED
  BY <1>1, <1>2, <1>3 DEF Elsewhere

(* Every step of the specification, by what it decides.                      *)
Deciding == SetKind \/ ReconcileTerminalTools \/ ReadManual \/ WriteAssignment \/ Route \/ MoveTools

Outside ==
  \/ \E t \in Tools : \/ RetryFallsDue(t) \/ ToolPublished(t)
                     \/ \E m \in Markets : VerifyPrimary(t, m)
                     \/ \E kind \in {"product", "non_product"} : SetKindByHand(t, kind)
  \/ \E j \in Jobs : HourPasses(j)

LEMMA EveryStep ==
  [Next]_vars <=> Elsewhere \/ Deciding \/ Outside \/ UNCHANGED vars
<1>1. Next <=> PassStep \/ StopPass \/ CallFails \/ PersistFails \/ MarkFails \/ Outside
  BY DEF Next, Outside
<1>2. PassStep \/ StopPass \/ CallFails \/ PersistFails \/ MarkFails <=> Elsewhere \/ Deciding
  BY DEF PassStep, Elsewhere, Deciding
<1> QED
  BY <1>1, <1>2

-----------------------------------------------------------------------------
(* The rows of the tools.                                                    *)

LEMMA ToolField ==
  ASSUME NEW x, ToolRow(x), NEW v
  PROVE  /\ ToolRow([x EXCEPT !.kind = v]) /\ [x EXCEPT !.kind = v].status = x.status
         /\ ToolRow([x EXCEPT !.status = v]) /\ [x EXCEPT !.status = v].kind = x.kind
         /\ [x EXCEPT !.status = v].status = v
<1>1. PICK a, b, c : x = [status |-> a, manual |-> b, kind |-> c]
  BY DEF ToolRow
<1>2. ASSUME NEW r, r = [status |-> a, manual |-> b, kind |-> c], NEW y, y = [r EXCEPT !.kind = v]
      PROVE  y = [status |-> a, manual |-> b, kind |-> v]
  BY <1>2
<1>3. ASSUME NEW r, r = [status |-> a, manual |-> b, kind |-> c], NEW y, y = [r EXCEPT !.status = v]
      PROVE  y = [status |-> v, manual |-> b, kind |-> c]
  BY <1>3
<1>4. PICK y, z : y = [x EXCEPT !.kind = v] /\ z = [x EXCEPT !.status = v]
  OBVIOUS
<1>5. y = [status |-> a, manual |-> b, kind |-> v] /\ z = [status |-> v, manual |-> b, kind |-> c]
  BY <1>1, <1>2, <1>3, <1>4
<1> QED
  BY <1>1, <1>4, <1>5 DEF ToolRow

LEMMA ToolByHand ==
  ASSUME ToolRows, NEW t \in Tools, NEW kind, SetKindByHand(t, kind)
  PROVE  ToolRows' /\ \A u \in Tools : tool'[u].status = tool[u].status
<1>1. PICK y : y = [tool[t] EXCEPT !.kind = kind, !.manual = TRUE]
  OBVIOUS
<1>2. tool' = [tool EXCEPT ![t] = y]
  BY <1>1 DEF SetKindByHand, ToolRows
<1>3. PICK a, b, c : tool[t] = [status |-> a, manual |-> b, kind |-> c]
  BY DEF ToolRows, ToolRow
<1>4. ASSUME NEW r, r = [status |-> a, manual |-> b, kind |-> c], NEW z, z = [r EXCEPT !.kind = kind, !.manual = TRUE]
      PROVE  z = [status |-> a, manual |-> TRUE, kind |-> kind]
  BY <1>4
<1>5. y = [status |-> a, manual |-> TRUE, kind |-> kind]
  BY <1>1, <1>3, <1>4
<1>6. ToolRow(y) /\ y.status = tool[t].status
  BY <1>3, <1>5 DEF ToolRow
<1>7. /\ tool' = [u \in Tools |-> tool'[u]]
      /\ \A u \in Tools : tool'[u] = IF u = t THEN y ELSE tool[u]
  BY <1>2 DEF ToolRows
<1> QED
  BY <1>6, <1>7 DEF ToolRows

LEMMA ToolSteps ==
  ASSUME ToolRows, [Next]_vars
  PROVE  /\ ToolRows'
         /\ \A t \in Tools : \/ tool'[t].status = tool[t].status
                             \/ tool'[t].status = "published"
                             \/ /\ MoveTools /\ tool[t].status = "pending_enrich"
                                /\ t \in DOMAIN About /\ tool'[t].status = About[t]
<1>1. CASE UNCHANGED tool
  BY <1>1 DEF ToolRows
<1>2. CASE SetKind /\ tool' # tool
  <2>1. PICK about, kind : tool' = [tool EXCEPT ![about].kind = kind]
    BY <1>2 DEF SetKind
  <2>2. PICK y : y = [tool[about] EXCEPT !.kind = kind]
    OBVIOUS
  <2>3. /\ tool' = [u \in Tools |-> tool'[u]]
        /\ \A u \in Tools : tool'[u] = IF u = about THEN y ELSE tool[u]
    BY <2>1, <2>2 DEF ToolRows
  <2>4. about \in Tools => ToolRow(y) /\ y.status = tool[about].status
    BY <2>2, ToolField DEF ToolRows
  <2> QED
    BY <2>3, <2>4 DEF ToolRows
<1>3. CASE MoveTools
  <2>1. PICK targets : targets = About
    OBVIOUS
  <2>2. /\ tool' = [u \in Tools |-> tool'[u]]
        /\ \A u \in Tools : tool'[u] = IF u \in DOMAIN targets /\ tool[u].status = "pending_enrich"
                                         THEN [tool[u] EXCEPT !.status = targets[u]] ELSE tool[u]
    BY <1>3, <2>1 DEF MoveTools, Moved
  <2>3. ASSUME NEW u \in Tools
        PROVE  /\ ToolRow(tool'[u])
               /\ \/ tool'[u].status = tool[u].status
                  \/ /\ tool[u].status = "pending_enrich" /\ u \in DOMAIN targets
                     /\ tool'[u].status = targets[u]
    <3>1. PICK y : y = [tool[u] EXCEPT !.status = targets[u]]
      OBVIOUS
    <3>2. ToolRow(tool[u])
      BY DEF ToolRows
    <3>3. ToolRow(y) /\ y.status = targets[u]
      BY <3>1, <3>2, ToolField
    <3> QED
      BY <2>2, <3>1, <3>2, <3>3
  <2> QED
    BY <1>3, <2>1, <2>2, <2>3 DEF ToolRows
<1>4. ASSUME NEW t \in Tools, ToolPublished(t)
      PROVE  ToolRows' /\ \A u \in Tools : tool'[u].status = tool[u].status \/ tool'[u].status = "published"
  <2>1. PICK y : y = [tool[t] EXCEPT !.status = "published"]
    OBVIOUS
  <2>2. /\ tool' = [u \in Tools |-> tool'[u]]
        /\ \A u \in Tools : tool'[u] = IF u = t THEN y ELSE tool[u]
    BY <1>4, <2>1 DEF ToolPublished, ToolRows
  <2>3. ToolRow(y) /\ y.status = "published"
    BY <2>1, ToolField DEF ToolRows
  <2> QED
    BY <2>2, <2>3 DEF ToolRows
<1>5. ASSUME NEW t \in Tools, NEW kind, SetKindByHand(t, kind)
      PROVE  ToolRows' /\ \A u \in Tools : tool'[u].status = tool[u].status
  BY <1>5, ToolByHand
<1>6. \/ UNCHANGED tool
      \/ SetKind \/ MoveTools
      \/ \E t \in Tools : ToolPublished(t)
      \/ \E t \in Tools, kind \in {"product", "non_product"} : SetKindByHand(t, kind)
  <2>1. CASE Elsewhere
    BY <2>1, KeptElsewhere
  <2>2. CASE Deciding
    BY <2>2 DEF Deciding, ReconcileTerminalTools, ReadManual, WriteAssignment, Route, tables
  <2>3. CASE Outside
    BY <2>3 DEF Outside, RetryFallsDue, VerifyPrimary, HourPasses
  <2>4. CASE UNCHANGED vars
    BY <2>4 DEF vars
  <2> QED
    BY <2>1, <2>2, <2>3, <2>4, EveryStep
<1> QED
  BY <1>1, <1>2, <1>3, <1>4, <1>5, <1>6

LEMMA ToolsBegin ==
  ASSUME Init
  PROVE  ToolRows
BY DEF Init, ToolRows, ToolRow

(* The pipeline moves a tool out of pending_enrich only; what was published  *)
(* meanwhile stays published.                                                *)
THEOREM PublishedToolsStay ==
  Spec => PublishedStays
<1>1. Init => ToolRows
  BY ToolsBegin
<1>2. ToolRows /\ [Next]_vars => ToolRows'
  BY ToolSteps
<1>3. ToolRows /\ [Next]_vars => [NoneUnpublished]_tool
  <2>1. ASSUME ToolRows, [Next]_vars
        PROVE  NoneUnpublished
    BY <2>1, ToolSteps DEF NoneUnpublished
  <2> QED
    BY <2>1
<1> QED
  BY <1>1, <1>2, <1>3, PTL DEF Spec, PublishedStays

-----------------------------------------------------------------------------
(* The rows of the assignments, step by step.                                *)

LEMMA StepTaken ==
  ASSUME Bounded, Decided, [Next]_vars
  PROVE  Handover' /\ ToolRows'
BY AskedStep, ToolSteps DEF Decided

(* The rows of one tool are replaced.                                        *)
LEMMA RowsReplaced ==
  ASSUME AssignRows, NEW t, NEW rows, SetAssign(t, rows),
         t \in Tools => AssignedRows(rows) /\ SomeOnly(rows)
  PROVE  /\ AssignRows'
         /\ \A u \in Tools : assign'[u] = IF u = t THEN rows ELSE assign[u]
<1>1. /\ assign' = [u \in Tools |-> assign'[u]]
      /\ \A u \in Tools : assign'[u] = IF u = t THEN rows ELSE assign[u]
  BY DEF SetAssign, AssignRows
<1> QED
  BY <1>1 DEF AssignRows

(* Nothing that writes is called next.                                       *)
LEMMA SilentIsIdle ==
  ASSUME todo' # <<>> => Silent(todo'[1])
  PROVE  (todo # <<>> => Retires(todo[1]) /\ Upserts(todo[1]) /\ Moves(todo[1]))'
BY DEF Silent, Writing, Retires, Upserts, Moves

LEMMA DecidedElsewhere ==
  ASSUME Bounded, Decided, [Next]_vars, Elsewhere
  PROVE  Decided'
<1>1. Handover' /\ ToolRows'
  BY StepTaken
<1>2. Sited' /\ (todo' # <<>> => Silent(todo'[1]))
  BY SilentElsewhere DEF Decided
<1>3. AssignRows'
  BY KeptElsewhere DEF Decided, AssignRows
<1> QED
  BY <1>1, <1>2, <1>3, SilentIsIdle DEF Decided

LEMMA DecidedTools ==
  ASSUME Bounded, Decided, [Next]_vars, SetKind \/ MoveTools
  PROVE  Decided'
<1>1. Handover' /\ ToolRows'
  BY StepTaken
<1>2. Quietly /\ Head(todo)[1] # "retire" /\ UNCHANGED assign
  BY QuietStatements DEF SetKind, MoveTools, Do
<1>3. Sited' /\ (todo' # <<>> => Silent(todo'[1]))
  BY <1>2, TabledFinite, PlainIsMute, QuietedNext DEF Quietly, Decided
<1>4. AssignRows'
  BY <1>2 DEF Decided, AssignRows
<1> QED
  BY <1>1, <1>3, <1>4, SilentIsIdle DEF Decided

(* A skipped tool that is no product is rejected.                            *)
LEMMA OnlyNonProducts ==
  ASSUME NEW status, NEW kind, TerminalToolStatus(status, kind) = "rejected"
  PROVE  kind = "non_product"
BY DEF TerminalToolStatus

(* The head gives way to at most one call.                                   *)
LEMMA SitedBehind ==
  ASSUME Listing, Sited, todo # <<>>, Head(todo)[1] # "retire", NEW c,
         todo' = <<c>> \o Tail(todo)
  PROVE  Sited' /\ todo'[1] = c
<1>1. Resumed(<<c>>, 2) /\ Len(<<c>>) = 1 /\ <<c>>[1] = c
  BY Tuples, ResumedNext
<1>2. Head(todo) = todo[1] /\ Len(todo) \in Nat \ {0}
  BY Rest DEF Listing
<1>3. /\ Len(todo') = Len(todo)
      /\ \A i \in 1..Len(todo) : todo'[i] = IF i <= 1 THEN c ELSE todo[i]
  <2>1. Len(todo') = 1 + Len(todo) + 1 - 2
    BY <1>1 DEF Resumed
  <2>2. Len(todo') = Len(todo)
    BY <1>2, <2>1
  <2>3. ASSUME NEW i \in 1..Len(todo)
        PROVE  todo'[i] = IF i <= 1 THEN c ELSE todo[i]
    <3>1. todo'[i] = IF i <= 1 THEN <<c>>[i] ELSE todo[i - 1 + 2 - 1]
      BY <1>1, <2>2 DEF Resumed
    <3>2. CASE i <= 1
      <4>1. i = 1
        BY <1>2, <3>2
      <4> QED
        BY <1>1, <3>1, <4>1
    <3>3. CASE ~(i <= 1)
      <4>1. i - 1 + 2 - 1 = i
        BY <1>2
      <4> QED
        BY <3>1, <3>3, <4>1
    <3> QED
      BY <3>2, <3>3
  <2> QED
    BY <2>2, <2>3
<1>4. ASSUME NEW i \in 1..Len(todo')
      PROVE  /\ todo'[i][1] \in {"retire", "moveTools"} => i = 1
             /\ todo'[i][1] = "upsertPrimary" => i = 1
  <2>1. CASE i = 1
    BY <2>1
  <2>2. CASE i # 1
    <3>1. todo'[i] = todo[i] /\ i \in 1..Len(todo)
      BY <1>2, <1>3, <2>2
    <3>2. todo[i][1] \notin {"retire", "moveTools"}
      BY <2>2, <3>1 DEF Sited
    <3>3. todo[i][1] # "upsertPrimary"
      BY <1>2, <2>2, <3>1 DEF Sited, Matching
    <3> QED
      BY <3>1, <3>2, <3>3
  <2> QED
    BY <2>1, <2>2
<1>5. Sited'
  BY <1>4 DEF Sited
<1>6. todo'[1] = c
  BY <1>2, <1>3
<1> QED
  BY <1>5, <1>6

LEMMA DecidedRoutes ==
  ASSUME Bounded, Decided, [Next]_vars, Route \/ ReconcileTerminalTools
  PROVE  Decided'
<1>1. Handover' /\ ToolRows'
  BY StepTaken
<1>2. todo # <<>> /\ Head(todo)[1] # "retire" /\ UNCHANGED <<assign, tool>> /\ Listing /\ Sited
  BY TabledFinite DEF Route, ReconcileTerminalTools, Do, tables, Decided
<1>3. AssignRows'
  BY <1>2 DEF Decided, AssignRows
<1>4. PICK targets :
        /\ \/ todo' = <<>> \o Tail(todo)
           \/ todo' = <<Call("moveTools", targets, "none")>> \o Tail(todo)
        /\ \A t \in Tools : t \in DOMAIN targets /\ targets[t] = "rejected" => tool[t].kind = "non_product"
  <2>1. CASE Route
    <3> DEFINE about == About
               target == TerminalToolStatus(With, tool[about].kind)
               targets == [t \in {about} |-> target]
    <3>1. \/ todo' = <<>> \o Tail(todo)
          \/ todo' = <<Call("moveTools", targets, "none")>> \o Tail(todo)
      BY <2>1 DEF Route, Then
    <3>2. ASSUME NEW t \in Tools, t \in DOMAIN targets, targets[t] = "rejected"
          PROVE  tool[t].kind = "non_product"
      BY <3>2, OnlyNonProducts
    <3> QED
      BY <3>1, <3>2
  <2>2. CASE ReconcileTerminalTools
    <3> DEFINE left == {t \in Tools : /\ tool[t].status = "pending_enrich"
                                      /\ item[t].status \in ReviewStatuses
                                      /\ item[t].stage = "complete"}
               targets == [t \in left |-> TerminalToolStatus(item[t].status, tool[t].kind)]
    <3>1. \/ todo' = <<>> \o Tail(todo)
          \/ todo' = <<Call("moveTools", targets, "none")>> \o Tail(todo)
      BY <2>2 DEF ReconcileTerminalTools, Then
    <3>2. ASSUME NEW t \in Tools, t \in DOMAIN targets, targets[t] = "rejected"
          PROVE  tool[t].kind = "non_product"
      <4>1. targets[t] = TerminalToolStatus(item[t].status, tool[t].kind)
        BY <3>2
      <4> QED
        BY <3>2, <4>1, OnlyNonProducts
    <3> HIDE DEF targets
    <3> QED
      BY <3>1, <3>2
  <2> QED
    BY <2>1, <2>2
<1>5. CASE todo' = <<>> \o Tail(todo)
  BY <1>1, <1>2, <1>3, <1>5, MuteTuples, QuietedNext, SilentIsIdle DEF Decided
<1>6. CASE todo' = <<Call("moveTools", targets, "none")>> \o Tail(todo)
  <2>1. PICK c : c = Call("moveTools", targets, "none")
    OBVIOUS
  <2>2. Sited' /\ todo'[1] = c
    BY <1>2, <1>6, <2>1, SitedBehind
  <2>3. c[1] = "moveTools" /\ c[2] = targets
    BY <2>1 DEF Call
  <2>4. (Retires(todo[1]) /\ Upserts(todo[1]) /\ Moves(todo[1]))'
    BY <1>2, <1>4, <2>2, <2>3 DEF Retires, Upserts, Moves
  <2> QED
    BY <1>1, <1>3, <2>2, <2>4 DEF Decided
<1> QED
  BY <1>4, <1>5, <1>6

(* The primary is written when no human owns it, and then the others are     *)
(* retired just before.                                                      *)
LEMMA SitedCoupled ==
  ASSUME Listing, Sited, todo # <<>>, Head(todo)[1] # "retire", NEW c, NEW d,
         c[1] = "retire", d[1] = "upsertPrimary", Matching(c, d),
         todo' = <<c, d>> \o Tail(todo)
  PROVE  Sited' /\ todo'[1] = c
<1>1. PICK s : s = <<c, d>>
  OBVIOUS
<1>2. Resumed(s, 2) /\ Len(s) = 2 /\ s[1] = c /\ s[2] = d
  BY <1>1, Tuples, ResumedNext
<1>3. Head(todo) = todo[1] /\ Len(todo) \in Nat \ {0}
  BY Rest DEF Listing
<1>4. /\ Len(todo') = Len(todo) + 1
      /\ \A i \in 1..Len(todo') : todo'[i] = IF i <= 2 THEN s[i] ELSE todo[i - 1]
  <2>1. Len(todo') = 2 + Len(todo) + 1 - 2
    BY <1>2 DEF Resumed
  <2>2. \A i \in 1..Len(todo') : todo'[i] = IF i <= 2 THEN s[i] ELSE todo[i - 2 + 2 - 1]
    BY <1>2 DEF Resumed
  <2>3. \A i \in 1..Len(todo') : i - 2 + 2 - 1 = i - 1
    BY <1>3
  <2> QED
    BY <1>3, <2>1, <2>2, <2>3
<1>5. todo'[1] = c /\ todo'[2] = d
  BY <1>2, <1>3, <1>4
<1>6. ASSUME NEW i \in 1..Len(todo')
      PROVE  /\ todo'[i][1] \in {"retire", "moveTools"} => i = 1
             /\ todo'[i][1] = "upsertPrimary" => i = 2
  <2>1. CASE i = 1 \/ i = 2
    BY <1>5, <2>1
  <2>2. CASE ~(i = 1 \/ i = 2)
    <3>1. todo'[i] = todo[i - 1] /\ i - 1 \in 2..Len(todo) /\ i - 1 \in 1..Len(todo)
      BY <1>3, <1>4, <2>2
    <3>2. todo[i - 1][1] \notin {"retire", "moveTools"}
      BY <3>1 DEF Sited
    <3>3. todo[i - 1][1] # "upsertPrimary"
      BY <1>3, <3>1 DEF Sited, Matching
    <3> QED
      BY <3>1, <3>2, <3>3
  <2> QED
    BY <2>1, <2>2
<1>7. Sited'
  BY <1>5, <1>6 DEF Sited
<1> QED
  BY <1>5, <1>7

LEMMA DecidedReads ==
  ASSUME Bounded, Decided, [Next]_vars, ReadManual
  PROVE  Decided'
<1>1. Handover' /\ ToolRows'
  BY StepTaken
<1>2. todo # <<>> /\ Head(todo)[1] # "retire" /\ UNCHANGED <<assign, tool>> /\ Listing /\ Sited
  BY TabledFinite DEF ReadManual, Do, tables, Decided
<1>3. AssignRows'
  BY <1>2 DEF Decided, AssignRows
<1>4. PICK a, term, write, c, d :
        /\ write = PrimaryWrite(ManualPrimaries(assign[a]) # {})
        /\ c = Call("retire", a, term) /\ d = Call("upsertPrimary", a, <<term, write>>)
        /\ todo' = ((IF write.primary THEN <<c>> ELSE <<>>) \o <<d>>) \o Tail(todo)
  BY DEF ReadManual, Then
<1>5. /\ c[1] = "retire" /\ c[2] = a /\ c[3] = term
      /\ d[1] = "upsertPrimary" /\ d[2] = a /\ d[3][1] = term /\ d[3][2] = write
  BY <1>4 DEF Call
<1>6. CASE ManualPrimaries(assign[a]) # {}
  <2>1. write.primary = FALSE
    BY <1>4, <1>6 DEF PrimaryWrite
  <2>2. <<>> \o <<d>> = <<d>>
    <3>1. <<d>> \in Seq({d})
      OBVIOUS
    <3> QED
      BY <3>1, ConcatEmptySeq
  <2>3. todo' = <<d>> \o Tail(todo)
    BY <1>4, <2>1, <2>2
  <2>4. Sited' /\ todo'[1] = d
    BY <1>2, <2>3, SitedBehind
  <2>5. (Retires(todo[1]) /\ Upserts(todo[1]) /\ Moves(todo[1]))'
    BY <1>5, <2>1, <2>4 DEF Retires, Upserts, Moves
  <2> QED
    BY <1>1, <1>3, <2>4, <2>5 DEF Decided
<1>7. CASE ManualPrimaries(assign[a]) = {}
  <2>1. write.primary = TRUE
    BY <1>4, <1>7 DEF PrimaryWrite
  <2>2. <<c>> \o <<d>> = <<c, d>>
    BY Coupled
  <2>3. todo' = <<c, d>> \o Tail(todo)
    BY <1>4, <2>1, <2>2
  <2>4. Matching(c, d)
    BY <1>5 DEF Matching
  <2>5. Sited' /\ todo'[1] = c
    BY <1>2, <1>5, <2>3, <2>4, SitedCoupled
  <2>6. (Retires(todo[1]) /\ Upserts(todo[1]) /\ Moves(todo[1]))'
    BY <1>2, <1>5, <1>7, <2>5 DEF Retires, Upserts, Moves
  <2> QED
    BY <1>1, <1>3, <2>5, <2>6 DEF Decided
<1> QED
  BY <1>6, <1>7

(* The rows that a statement leaves, and the primary a human verified.       *)
LEMMA RowsWritten ==
  ASSUME Bounded, Decided, WriteAssignment
  PROVE  /\ AssignRows'
         /\ \A t \in Tools : \/ ManualPrimaries(assign'[t]) = ManualPrimaries(assign[t])
                             \/ ManualPrimaries(assign[t]) = {}
         /\ Do("retire") /\ About \in Tools => OnlyPrimary(assign'[About], With)
<1>1. todo # <<>>
  BY DEF WriteAssignment, Do
<1>2. Head(todo) = todo[1] /\ Retires(Head(todo)) /\ Upserts(Head(todo)) /\ AssignRows
  BY <1>1, HeadCalled DEF Decided
<1>3. PICK t, with, run : t = About /\ with = With /\ run = item[t].run
  OBVIOUS
<1>4. t \in Tools => AssignedRows(assign[t]) /\ SomeOnly(assign[t])
  BY <1>2 DEF AssignRows
<1>5. PICK rows :
        /\ SetAssign(t, rows)
        /\ t \in Tools =>
             /\ AssignedRows(rows) /\ SomeOnly(rows)
             /\ ManualPrimaries(rows) = ManualPrimaries(assign[t]) \/ ManualPrimaries(assign[t]) = {}
             /\ Do("retire") => OnlyPrimary(rows, with)
  <2>1. CASE Do("retire")
    <3>1. PICK rows : rows = RetireOtherPrimaries(assign[t], with)
      OBVIOUS
    <3>2. SetAssign(t, rows)
      BY <1>3, <2>1, <3>1 DEF WriteAssignment, Do
    <3>3. t \in Tools => AssignedRows(rows) /\ SomeOnly(rows) /\ OnlyPrimary(rows, with)
      BY <1>4, <3>1, Retiring
    <3>4. t \in Tools => ManualPrimaries(assign[t]) = {}
      BY <1>2, <1>3, <2>1 DEF Retires, Do, About
    <3> QED
      BY <3>2, <3>3, <3>4
  <2>2. CASE Do("upsertPrimary")
    <3>1. PICK term, primary, status, rows :
            /\ term = with[1] /\ primary = with[2].primary /\ status = with[2].status
            /\ rows = UpsertAssignment(assign[t], term, primary, status, run)
      OBVIOUS
    <3>2. SetAssign(t, rows)
      BY <1>3, <2>2, <3>1 DEF WriteAssignment, Do
    <3>3. t \in Tools => (~primary \/ OnlyPrimary(assign[t], term))
      BY <1>2, <1>3, <2>2, <3>1 DEF Upserts, Do, About, With
    <3>4. t \in Tools => AssignedRows(rows) /\ SomeOnly(rows) /\ ManualPrimaries(rows) = ManualPrimaries(assign[t])
      BY <1>4, <3>1, <3>3, Upserting
    <3>5. ~Do("retire")
      BY <2>2 DEF Do
    <3> QED
      BY <3>2, <3>4, <3>5
  <2>3. CASE Do("upsertCapability")
    <3>1. PICK primary, status, rows :
            /\ primary = FALSE /\ status = "provisional"
            /\ rows = UpsertAssignment(assign[t], with, primary, status, run)
      OBVIOUS
    <3>2. SetAssign(t, rows)
      BY <1>3, <2>3, <3>1 DEF WriteAssignment, Do
    <3>3. ~primary
      BY <3>1
    <3>4. t \in Tools => AssignedRows(rows) /\ SomeOnly(rows) /\ ManualPrimaries(rows) = ManualPrimaries(assign[t])
      BY <1>4, <3>1, <3>3, Upserting
    <3>5. ~Do("retire")
      BY <2>3 DEF Do
    <3> QED
      BY <3>2, <3>4, <3>5
  <2>4. CASE Do("supersede")
    <3>1. PICK rows : rows = SupersedeAuto(assign[t], with, run)
      OBVIOUS
    <3>2. SetAssign(t, rows)
      BY <1>3, <2>4, <3>1 DEF WriteAssignment, Do
    <3>3. t \in Tools => AssignedRows(rows) /\ SomeOnly(rows) /\ ManualPrimaries(rows) = ManualPrimaries(assign[t])
      BY <1>4, <3>1, Superseding
    <3>4. ~Do("retire")
      BY <2>4 DEF Do
    <3> QED
      BY <3>2, <3>3, <3>4
  <2> QED
    BY <2>1, <2>2, <2>3, <2>4 DEF WriteAssignment
<1>6. /\ AssignRows'
      /\ \A u \in Tools : assign'[u] = IF u = t THEN rows ELSE assign[u]
  BY <1>2, <1>5, RowsReplaced
<1> QED
  BY <1>3, <1>5, <1>6

LEMMA DecidedWrites ==
  ASSUME Bounded, Decided, [Next]_vars, WriteAssignment
  PROVE  Decided'
<1>1. Handover' /\ ToolRows' /\ AssignRows'
  BY StepTaken, RowsWritten
<1>2. todo # <<>> /\ todo' = <<>> \o Tail(todo) /\ Listing /\ Sited
  BY TabledFinite DEF WriteAssignment, Skip, Then, Do, Decided
<1>3. CASE ~Do("retire")
  <2>1. Head(todo)[1] # "retire"
    BY <1>2, <1>3 DEF Do
  <2> QED
    BY <1>1, <1>2, <2>1, MuteTuples, QuietedNext, SilentIsIdle DEF Decided
<1>4. CASE Do("retire")
  <2>1. Resumed(<<>>, 2) /\ Len(<<>>) = 0
    BY <1>2, Tuples, ResumedNext
  <2>2. Head(todo) = todo[1] /\ Len(todo) \in Nat \ {0}
    BY <1>2, Rest DEF Listing
  <2>3. Len(todo') = Len(todo) - 1 /\ \A i \in 1..Len(todo') : todo'[i] = todo[i + 1]
    <3>1. Len(todo') = 0 + Len(todo) + 1 - 2
      BY <2>1 DEF Resumed
    <3>2. \A i \in 1..Len(todo') : todo'[i] = IF i <= 0 THEN <<>>[i] ELSE todo[i - 0 + 2 - 1]
      BY <2>1 DEF Resumed
    <3>3. \A i \in 1..Len(todo') : i - 0 + 2 - 1 = i + 1 /\ ~(i <= 0)
      BY <2>2
    <3> QED
      BY <2>2, <3>1, <3>2, <3>3
  <2>4. ASSUME NEW i \in 1..Len(todo')
        PROVE  /\ todo'[i][1] \notin {"retire", "moveTools"}
               /\ todo'[i][1] = "upsertPrimary" => i = 1 /\ Matching(todo[1], todo'[1])
    <3>1. todo'[i] = todo[i + 1] /\ i + 1 \in 2..Len(todo) /\ i + 1 \in 1..Len(todo)
      BY <2>2, <2>3
    <3>2. todo[i + 1][1] \notin {"retire", "moveTools"}
      <4>1. i + 1 # 1
        BY <2>2
      <4> QED
        BY <1>2, <3>1, <4>1 DEF Sited
    <3>3. todo[i + 1][1] = "upsertPrimary" => i + 1 = 2 /\ Matching(todo[1], todo[2])
      BY <3>1, <1>2 DEF Sited
    <3>4. i + 1 = 2 => i = 1
      BY <2>2
    <3> QED
      BY <3>1, <3>2, <3>3, <3>4
  <2>5. Sited'
    BY <2>4 DEF Sited
  <2>6. ASSUME todo' # <<>>
        PROVE  Retires(todo[1])' /\ Moves(todo[1])' /\ Upserts(todo[1])'
    <3>1. 1 \in 1..Len(todo')
      <4>1. Sequenced(todo')
        BY <2>1 DEF Resumed
      <4>2. Len(todo') \in Nat \ {0}
        BY <2>6, <4>1, Rest
      <4> QED
        BY <4>2
    <3>2. todo'[1][1] \notin {"retire", "moveTools"}
      BY <2>4, <3>1
    <3>3. ASSUME todo'[1][1] = "upsertPrimary", todo'[1][2] \in Tools
          PROVE  OnlyPrimary(assign'[todo'[1][2]], todo'[1][3][1])
      <4>1. Matching(todo[1], todo'[1])
        BY <2>4, <3>1, <3>3
      <4>2. todo'[1][2] = About /\ todo'[1][3][1] = With
        BY <2>2, <4>1 DEF Matching, About, With
      <4> QED
        BY <1>4, <3>3, <4>2, RowsWritten
    <3> QED
      BY <3>2, <3>3 DEF Retires, Moves, Upserts
  <2> QED
    BY <1>1, <2>5, <2>6 DEF Decided
<1> QED
  BY <1>3, <1>4

(* Reviewers act between two passes.                                         *)
LEMMA DecidedReviews ==
  ASSUME Bounded, Decided, [Next]_vars, todo = <<>>, UNCHANGED todo, NEW t \in Tools,
         \/ \E m \in Markets : VerifyPrimary(t, m)
         \/ \E kind \in {"product", "non_product"} : SetKindByHand(t, kind)
  PROVE  Decided'
<1>1. Handover' /\ ToolRows'
  BY StepTaken
<1>2. Len(todo) = 0
  BY Tuples
<1>3. Sited'
  BY <1>2 DEF Sited
<1>4. AssignRows'
  <2>1. CASE \E kind \in {"product", "non_product"} : SetKindByHand(t, kind)
    BY <2>1 DEF SetKindByHand, Decided, AssignRows
  <2>2. ASSUME NEW m \in Markets, VerifyPrimary(t, m)
        PROVE  AssignRows'
    <3>1. PICK rows : rows = VerifyManually(assign[t], m)
      OBVIOUS
    <3>2. SetAssign(t, rows)
      BY <2>2, <3>1 DEF VerifyPrimary
    <3>3. AssignedRows(rows) /\ SomeOnly(rows)
      BY <3>1, Verifying DEF Decided, AssignRows
    <3> QED
      BY <3>2, <3>3, RowsReplaced DEF Decided
  <2> QED
    BY <2>1, <2>2
<1> QED
  BY <1>1, <1>3, <1>4 DEF Decided

LEMMA DecidedOutside ==
  ASSUME Bounded, ~ReviewDuringPass, Decided, [Next]_vars, Outside \/ UNCHANGED vars
  PROVE  Decided'
<1>1. Handover' /\ ToolRows'
  BY StepTaken
<1>2. ASSUME UNCHANGED <<assign, todo>>, \A u \in Tools : tool'[u].kind = tool[u].kind
      PROVE  Decided'
  <2>1. Sited' /\ AssignRows'
    BY <1>2 DEF Decided, Sited, Matching, AssignRows
  <2>2. (todo # <<>> => Retires(todo[1]) /\ Upserts(todo[1]) /\ Moves(todo[1]))'
    BY <1>2 DEF Decided, Retires, Upserts, Moves
  <2> QED
    BY <1>1, <2>1, <2>2 DEF Decided
<1>3. CASE UNCHANGED vars
  BY <1>2, <1>3 DEF vars
<1>4. ASSUME NEW t \in Tools, RetryFallsDue(t)
      PROVE  Decided'
  BY <1>2, <1>4 DEF RetryFallsDue
<1>5. ASSUME NEW j \in Jobs, HourPasses(j)
      PROVE  Decided'
  BY <1>2, <1>5 DEF HourPasses
<1>6. ASSUME NEW t \in Tools, ToolPublished(t)
      PROVE  Decided'
  <2>1. PICK y : y = [tool[t] EXCEPT !.status = "published"]
    OBVIOUS
  <2>2. \A u \in Tools : tool'[u] = IF u = t THEN y ELSE tool[u]
    BY <1>6, <2>1 DEF ToolPublished, Decided, ToolRows
  <2>3. y.kind = tool[t].kind
    BY <2>1, ToolField DEF Decided, ToolRows
  <2>4. UNCHANGED <<assign, todo>>
    BY <1>6 DEF ToolPublished
  <2> QED
    BY <1>2, <2>2, <2>3, <2>4
<1>7. ASSUME NEW t \in Tools,
             \/ \E m \in Markets : VerifyPrimary(t, m)
             \/ \E kind \in {"product", "non_product"} : SetKindByHand(t, kind)
      PROVE  Decided'
  <2>1. todo = <<>> /\ UNCHANGED todo
    BY <1>7 DEF VerifyPrimary, SetKindByHand
  <2> QED
    BY <1>7, <2>1, DecidedReviews
<1> QED
  BY <1>3, <1>4, <1>5, <1>6, <1>7 DEF Outside

LEMMA DecidedStep ==
  ASSUME Bounded, ~ReviewDuringPass, Decided, [Next]_vars
  PROVE  Decided'
BY EveryStep, DecidedElsewhere, DecidedTools, DecidedRoutes, DecidedReads, DecidedWrites, DecidedOutside
   DEF Deciding

(* A tool enters with no assignment or with one older primary.               *)
LEMMA OlderRows ==
  ASSUME NEW first, NEW status, NEW rows,
         rows = [NoRows EXCEPT ![first] =
                   [source |-> "auto", status |-> status, primary |-> TRUE, run |-> 0]]
  PROVE  AssignedRows(rows) /\ SomeOnly(rows)
<1>1. NoRows = [x \in Terms |-> NoRow] /\ NoRow.primary = FALSE /\ AssignedRow(NoRow)
  BY DEF NoRows, NoRow, AssignedRow
<1>2. PICK r : r = [source |-> "auto", status |-> status, primary |-> TRUE, run |-> 0]
  OBVIOUS
<1>3. /\ rows = [x \in Terms |-> rows[x]]
      /\ \A x \in Terms : rows[x] = IF x = first THEN r ELSE NoRow
  BY <1>1, <1>2
<1>4. AssignedRow(r)
  BY <1>2 DEF AssignedRow
<1>5. Markets \subseteq Terms
  BY DEF Terms
<1>6. SomeOnly(rows)
  BY <1>1, <1>3, <1>5 DEF SomeOnly
<1> QED
  BY <1>1, <1>3, <1>4, <1>6 DEF AssignedRows

LEMMA DecidedInit ==
  ASSUME Bounded, Init
  PROVE  Decided
<1>1. todo = <<>> /\ Len(todo) = 0 /\ Handover /\ ToolRows
  BY AskedInit, ToolsBegin, Tuples DEF Init
<1>2. Sited
  BY <1>1 DEF Sited
<1>3. AssignedRows(NoRows) /\ SomeOnly(NoRows)
  <2>1. NoRows = [x \in Terms |-> NoRow] /\ NoRow.primary = FALSE /\ AssignedRow(NoRow)
    BY DEF NoRows, NoRow, AssignedRow
  <2>2. Markets \subseteq Terms
    BY DEF Terms
  <2> QED
    BY <2>1, <2>2 DEF AssignedRows, SomeOnly
<1>4. AssignRows
  <2> DEFINE first == CHOOSE m \in Markets : TRUE
             Older(status) == [NoRows EXCEPT ![first] =
                                 [source |-> "auto", status |-> status, primary |-> TRUE, run |-> 0]]
  <2>1. assign = [t \in Tools |-> CASE t \in Backfill -> Older("auto_accepted")
                                    [] t \in Demoted -> Older("provisional")
                                    [] OTHER -> NoRows]
    BY DEF Init
  <2>2. ASSUME NEW status
        PROVE  AssignedRows(Older(status)) /\ SomeOnly(Older(status))
    BY OlderRows
  <2> HIDE DEF Older
  <2>3. \A t \in Tools : assign[t] \in {Older("auto_accepted"), Older("provisional"), NoRows}
    BY <2>1
  <2>4. assign = [t \in Tools |-> assign[t]]
    BY <2>1
  <2> QED
    BY <1>3, <2>2, <2>3, <2>4 DEF AssignRows
<1> QED
  BY <1>1, <1>2, <1>4 DEF Decided

LEMMA AtMostOne ==
  ASSUME NEW S, \A m, n \in S : m = n
  PROVE  Cardinality(S) <= 1
<1>1. CASE S = {}
  <2>1. Cardinality(S) = 0
    BY <1>1, FS_EmptySet
  <2> QED
    BY <2>1
<1>2. CASE S # {}
  <2>1. PICK m : S = {m}
    BY <1>2
  <2>2. Cardinality(S) = 1
    BY <2>1, FS_Singleton
  <2> QED
    BY <2>2
<1> QED
  BY <1>1, <1>2

(* A tool never has two primary markets, whatever statement the process      *)
(* stops after, if nobody reviews it in the middle of a pass.                *)
THEOREM PrimariesStaySingle ==
  ASSUME Bounded, ~ReviewDuringPass
  PROVE  Spec => []OnePrimary
<1>1. Decided => OnePrimary
  <2>1. ASSUME Decided, NEW t \in Tools
        PROVE  Cardinality({m \in Markets : assign[t][m].primary}) <= 1
    <3>1. \A m, n \in {m \in Markets : assign[t][m].primary} : m = n
      BY <2>1 DEF Decided, AssignRows, SomeOnly
    <3> QED
      BY <3>1, AtMostOne
  <2> QED
    BY <2>1 DEF OnePrimary
<1>2. Init => Decided
  BY DecidedInit
<1>3. Decided /\ [Next]_vars => Decided'
  BY DecidedStep
<1> QED
  BY <1>1, <1>2, <1>3, PTL DEF Spec

(* Once a human verified a primary market it stays the primary: the pipeline *)
(* asks before it retires the others, and nobody answers in between.         *)
THEOREM VerifiedPrimariesStay ==
  ASSUME Bounded, ~ReviewDuringPass
  PROVE  Spec => ManualWins
<1>1. Init => Decided
  BY DecidedInit
<1>2. Decided /\ [Next]_vars => Decided'
  BY DecidedStep
<1>3. Decided /\ [Next]_vars => [HumanLockKept]_assign
  <2> SUFFICES ASSUME Decided, [Next]_vars, assign' # assign
               PROVE  HumanLockKept
    OBVIOUS
  <2>1. CASE WriteAssignment
    BY <2>1, RowsWritten DEF HumanLockKept
  <2>2. ASSUME NEW t \in Tools, NEW m \in Markets, VerifyPrimary(t, m)
        PROVE  HumanLockKept
    <3>1. ManualPrimaries(assign[t]) = {} /\ \A u \in Tools : u # t => assign'[u] = assign[u]
      BY <2>2 DEF VerifyPrimary, SetAssign, Decided, AssignRows
    <3> QED
      BY <3>1 DEF HumanLockKept
  <2>3. CASE Deciding /\ ~WriteAssignment
    BY <2>3 DEF Deciding, SetKind, ReconcileTerminalTools, ReadManual, Route, MoveTools, tables
  <2>4. CASE Outside /\ ~(\E t \in Tools, m \in Markets : VerifyPrimary(t, m))
    BY <2>4 DEF Outside, RetryFallsDue, ToolPublished, SetKindByHand, HourPasses
  <2>5. CASE Elsewhere \/ UNCHANGED vars
    BY <2>5, KeptElsewhere DEF vars
  <2> QED
    BY <2>1, <2>2, <2>3, <2>4, <2>5, EveryStep
<1> QED
  BY <1>1, <1>2, <1>3, PTL DEF Spec, ManualWins

(* A tool that a human declared to be a product is not rejected: the kind is *)
(* read before the tool moves, and it does not change in between.            *)
THEOREM HumanProductsStay ==
  ASSUME Bounded, ~ReviewDuringPass
  PROVE  Spec => HumanProductKept
<1>1. Init => Decided
  BY DecidedInit
<1>2. Decided /\ [Next]_vars => Decided'
  BY DecidedStep
<1>3. Decided /\ [Next]_vars => [NoneRejectedAgainstHuman]_tool
  <2>1. ASSUME Decided, [Next]_vars, NEW t \in Tools, tool[t].kind = "product"
        PROVE  tool'[t].status # "rejected" \/ tool[t].status = "rejected"
    <3>1. CASE MoveTools /\ t \in DOMAIN About /\ tool'[t].status = About[t]
      <4>1. todo # <<>> /\ Head(todo)[1] = "moveTools"
        BY <3>1 DEF MoveTools, Do
      <4>2. Moves(Head(todo))
        BY <2>1, <4>1, HeadCalled DEF Decided
      <4>3. About[t] # "rejected"
        BY <2>1, <3>1, <4>1, <4>2 DEF Moves, About
      <4> QED
        BY <3>1, <4>3
    <3>2. CASE tool'[t].status = tool[t].status \/ tool'[t].status = "published"
      BY <3>2
    <3> QED
      BY <2>1, <3>1, <3>2, ToolSteps DEF Decided
  <2> QED
    BY <2>1 DEF NoneRejectedAgainstHuman
<1> QED
  BY <1>1, <1>2, <1>3, PTL DEF Spec, HumanProductKept

-----------------------------------------------------------------------------
(* The closing of an item.  What a pass still has to do keeps a shape: a     *)
(* closing is a chain of calls about one tool, each link directly behind the *)
(* one it relies on, and `Good` says of every link what is written when it   *)
(* comes to be made.  `Requests` and `Items` say the same of the tables, so  *)
(* that an item that is taken up by a later pass finds what it needs.        *)

(* The calls, by what their second field is.                                 *)
KeyCalls == {"apply", "record", "react", "fail", "jevAnswer", "jevInterrupted"}
FullCalls == {"saveProfile", "afterProfile", "afterLeaf", "sourceFailed", "retrySource", "seeded"}

(* The calls that ask the model, and the links of a closing.                 *)
Begins == {"enqueue", "create", "seedRow"}
Links == {"insertRun", "checkpointRun", "readManual", "retire", "upsertPrimary", "upsertCapability",
          "supersede", "setRun"}
ToolCalls == FullCalls \cup Begins \cup Links \cup {"enter", "finish", "route", "setKind", "finalize"}

(* Closing an item as succeeded is the last link; a call that asks waits     *)
(* behind calls after which no item has succeeded.                           *)
Succeeds(c) == c[1] = "finish" /\ c[3] = "succeeded"
Chained(c) == c[1] \in Links \/ Succeeds(c)
Waits(c) == c[1] \in Begins \cup {"fail"}

(* What may be true of a tool's item.                                        *)
NotSucceeded(t) == item[t].status # "succeeded"
Uncapable(t) == item[t].cap \notin Capabilities
Unasked(t) == \A k \in DOMAIN req : k[1] = t => req[k].status \notin OpenStatuses

(* What a call is about.                                                     *)
Legal(c) ==
  /\ c[1] \in KeyCalls => c[2] \in DOMAIN req
  /\ c[1] \in ToolCalls => c[2] \in Tools
  /\ c[1] \in {"enqueue", "enter"} => c[3] \in Stages /\ (CapabilityOnly(c[2]) => c[3] = "capability")
  /\ c[1] \in FullCalls => ~CapabilityOnly(c[2])
  /\ c[1] = "create" /\ CapabilityOnly(c[2]) => c[3][1] = "stored"
  /\ c[1] = "finish" => c[3] \in TerminalStatuses
  /\ c[1] = "fail" /\ CapabilityOnly(c[2][1]) => NotSucceeded(c[2][1])
  /\ c[1] \in Begins /\ CapabilityOnly(c[2]) => NotSucceeded(c[2])
  /\ c[1] \in {"create", "seedRow"} /\ CapabilityOnly(c[2]) => Uncapable(c[2])

(* Calls after which no item has succeeded that had not before.              *)
CalmNames == Begins \cup Links \cup {"fail", "enter", "seeded", "sourceFailed", "retrySource", "route", "moveTools"}
Calm(c) ==
  \/ c[1] \in CalmNames
  \/ c[1] = "finish" /\ c[3] # "succeeded"
  \/ c[1] = "finalize" /\ (c[3] = "error" \/ (CapabilityOnly(c[2]) /\ Uncapable(c[2])))

(* The call p stands before the call c in the closing of an item.            *)
Linked(p, c) ==
  /\ c[1] \notin {"insertRun", "retire"}
  /\ c[1] = "checkpointRun" => p[1] = "insertRun"
  /\ c[1] = "readManual" => p[1] = "checkpointRun"
  /\ c[1] = "upsertPrimary" => p[1] = "retire" /\ c[3][2].primary
  /\ c[1] = "upsertCapability" => \/ p[1] \in {"readManual", "upsertPrimary"}
                                  \/ CapabilityOnly(c[2]) /\ p[1] = "checkpointRun"
  /\ c[1] = "supersede" => \/ p[1] = "upsertCapability"
                           \/ p[1] \in {"readManual", "upsertPrimary"} /\ Uncapable(c[2])
  /\ c[1] = "setRun" => p[1] = "supersede"
  /\ Succeeds(c) => p[1] = "setRun" /\ p[3] = "succeeded"

(* What is written is what the item holds.                                   *)
Named(c) ==
  /\ c[1] \in {"readManual", "retire"} =>
       ~CapabilityOnly(c[2]) /\ c[3] = item[c[2]].leaf /\ item[c[2]].leaf \in Markets
  /\ c[1] = "upsertPrimary" =>
       /\ ~CapabilityOnly(c[2]) /\ c[3][1] = item[c[2]].leaf /\ item[c[2]].leaf \in Markets
       /\ c[3][2] \in {PrimaryWrite(TRUE), PrimaryWrite(FALSE)}
  /\ c[1] = "upsertCapability" => c[3] = item[c[2]].cap /\ item[c[2]].cap \in Capabilities
  /\ Succeeds(c) /\ CapabilityOnly(c[2]) => Unasked(c[2])

(* The run of the item exists; its primary is chosen, or a human chose; its  *)
(* capability is given; all of it and the run says so.                       *)
Opened(t) == item[t].run \in 1..Len(runs[t])
Chosen(t) ==
  \/ CapabilityOnly(t)
  \/ ManualPrimaries(assign[t]) # {}
  \/ /\ item[t].leaf \in Markets
     /\ assign[t][item[t].leaf].primary /\ assign[t][item[t].leaf].run = item[t].run
     /\ OnlyPrimary(assign[t], item[t].leaf)
Given(t) == item[t].cap \in Capabilities => assign[t][item[t].cap].run = item[t].run
Inscribed(t) == Opened(t) /\ Chosen(t) /\ Given(t) /\ runs[t][item[t].run] = "succeeded"

(* What is written when the closing has come to the call c.                  *)
Reached(c) ==
  Chained(c) =>
    /\ NotSucceeded(c[2])
    /\ c[1] = "checkpointRun" => Len(runs[c[2]]) > 0
    /\ c[1] \notin {"insertRun", "checkpointRun"} => Opened(c[2])
    /\ c[1] = "upsertPrimary" => (c[3][2].primary <=> ManualPrimaries(assign[c[2]]) = {})
    /\ c[1] = "retire" => ManualPrimaries(assign[c[2]]) = {}
    /\ c[1] \in {"upsertCapability", "supersede", "setRun", "finish"} => Chosen(c[2])
    /\ c[1] \in {"supersede", "setRun", "finish"} => Given(c[2])
    /\ c[1] = "finish" => Inscribed(c[2])

(* What a call that is made next relies on.                                  *)
Foremost(c) ==
  /\ c[1] \in {"record", "react"} => Current(c[2])
  /\ c[1] = "react" /\ c[3] \notin Errors => req[c[2]].status = "succeeded"
  /\ c[1] = "finalize" /\ CapabilityOnly(c[2]) =>
       NotSucceeded(c[2]) /\ (c[3] = "error" \/ Uncapable(c[2]) \/ Unasked(c[2]))

(* The order of the calls.                                                   *)
Placed(q) ==
  \A i \in 1..Len(q) :
    /\ q[i][1] \in {"record", "finalize", "afterLeaf"} => i = 1
    /\ q[i][1] = "react" => i = 1 \/ (i = 2 /\ q[1] = Call("record", q[2][2], q[2][3]))
Tame(q) == \A i \in 1..Len(q) : Waits(q[i]) => \A l \in 1..(i - 1) : Calm(q[l])
Strung(q) ==
  \A i \in 1..Len(q) : Chained(q[i]) =>
    /\ q[i][2] = q[1][2]
    /\ \A l \in 1..(i - 1) : Chained(q[l])
    /\ i # 1 => Linked(q[i - 1], q[i])
Lawful(q) == \A i \in 1..Len(q) : Legal(q[i]) /\ Named(q[i])
Fronted(q) == q # <<>> => Reached(q[1]) /\ Foremost(q[1])

Good(q) == Sequenced(q) /\ Placed(q) /\ Tame(q) /\ Strung(q) /\ Lawful(q) /\ Fronted(q)

(* The requests: an older attempt of a stage has failed.                     *)
Requests ==
  /\ \A k \in DOMAIN req : /\ k \in Tools \X Stages \X (Nat \ {0})
                           /\ CapabilityOnly(k[1]) => k[2] = "capability"
                           /\ req[k].status \in OpenStatuses \cup {"succeeded", "failed"}
  /\ \A k, l \in DOMAIN req : k[1] = l[1] /\ k[2] = l[2] /\ k[3] < l[3] => req[k].status = "failed"
  /\ \A j \in Jobs : remote[j].keys \subseteq DOMAIN req /\ DOMAIN remote[j].lines \subseteq DOMAIN req

(* The item of a tool, its assignments and their form.                       *)
Booked(t) ==
  /\ item[t].status \in TerminalStatuses \cup {"none", "pending", "running"}
  /\ item[t].stage \in Stages \cup {"complete"}
  /\ item[t].retry \in {"none", "source", "model"}
  /\ item[t].run \in 0..Len(runs[t])
  /\ item[t].status = "none" => item[t].stage = "profile" /\ Uncapable(t)
  /\ item[t].retry = "model" => item[t].stage \in Stages /\ (CapabilityOnly(t) => item[t].stage = "capability")
  /\ item[t].retry = "source" => ~CapabilityOnly(t)
  /\ item[t].status = "succeeded" =>
       item[t].stage = "complete" /\ Inscribed(t) /\ (CapabilityOnly(t) => Unasked(t))

Filed(t) ==
  /\ assign[t] \in [Terms -> [source : {"none", "auto", "manual"},
                              status : AutoStatuses \cup {"none", "verified", "superseded"},
                              primary : BOOLEAN, run : 0..Len(runs[t])]]
  /\ \A x \in Terms : assign[t][x].source = "manual" => x \in ManualPrimaries(assign[t])

ItemRow(x) ==
  x = [status |-> x.status, stage |-> x.stage, retry |-> x.retry, tries |-> x.tries, due |-> x.due,
       text |-> x.text, profile |-> x.profile, l1 |-> x.l1, leaf |-> x.leaf, cap |-> x.cap,
       run |-> x.run, judged |-> x.judged]
Items ==
  /\ item = [t \in Tools |-> item[t]] /\ runs = [t \in Tools |-> runs[t]]
  /\ \A t \in Tools : ItemRow(item[t]) /\ Sequenced(runs[t]) /\ Booked(t) /\ Filed(t)

Succeeding == Good(todo) /\ Requests /\ Items

-----------------------------------------------------------------------------
(* The calls that follow, and those that wait behind them.                   *)

Later(c) == \E i \in 2..Len(todo) : todo[i] = c

LEMMA FinalizeIsFirst ==
  ASSUME Placed(todo), NEW c, Later(c)
  PROVE  c[1] \notin {"record", "finalize", "afterLeaf"} /\ (Calm(c) => Calm(c)')
BY DEF Placed, Later, Calm

LEMMA UnchainedIsNamed ==
  ASSUME NEW c, ~Chained(c)
  PROVE  Named(c) /\ Named(c)'
BY DEF Chained, Named, Links, Succeeds

LEMMA Behind ==
  ASSUME Sequenced(todo), NEW s, NEW m, Resumed(s, m), NEW i \in 1..Len(todo')
  PROVE  /\ Len(s) \in Nat
         /\ \/ i \in 1..Len(s) /\ todo'[i] = s[i]
            \/ /\ i > Len(s) /\ i - Len(s) + m - 1 \in m..Len(todo) /\ i - Len(s) + m - 1 \in 2..Len(todo)
               /\ todo'[i] = todo[i - Len(s) + m - 1]
<1> DEFINE n == Len(s)
           o == Len(todo)
           a == i - n + m - 1
<1>1. n \in Nat /\ o \in Nat /\ m \in 1..(o + 1) /\ (todo # <<>> => m # 1)
      /\ Len(todo') = n + o + 1 - m /\ Sequenced(s)
  BY LenProperties DEF Sequenced, Resumed
<1>2. (todo = <<>> => o = 0) /\ (o # 0 => m # 1)
  BY <1>1, Tuples
<1>3. todo'[i] = IF i <= n THEN s[i] ELSE todo[a]
  BY DEF Resumed
<1>4. CASE i <= n
  BY <1>1, <1>3, <1>4
<1>5. CASE ~(i <= n)
  <2>1. i > n /\ a \in m..o /\ a \in 2..o
    BY <1>1, <1>2, <1>5
  <2> QED
    BY <1>1, <1>3, <1>5, <2>1
<1> QED
  BY <1>4, <1>5

LEMMA GoodNext ==
  ASSUME \A q : q = todo' => Good(q)'
  PROVE  Good(todo)'
<1> PICK q : q = todo'
  OBVIOUS
<1>1. Good(q)'
  OBVIOUS
<1>2. Sequenced(todo)' /\ Placed(todo)' /\ Tame(todo)'
  BY <1>1 DEF Good, Placed, Tame
<1>3. Strung(todo)'
  BY <1>1 DEF Good, Strung
<1>4. Lawful(todo)' /\ Fronted(todo)'
  BY <1>1 DEF Good, Lawful, Fronted
<1> QED
  BY <1>2, <1>3, <1>4 DEF Good

LEMMA Continues ==
  ASSUME Good(todo), NEW s, NEW m, Good(s)', Resumed(s, m),
         \A i \in m..Len(todo) : todo[i][1] # "react" /\ ~Chained(todo[i]),
         \A c : Later(c) => Legal(c)',
         (\E i \in m..Len(todo) : Waits(todo[i])) => \A i \in 1..Len(s) : Calm(s[i])'
  PROVE  \A q : q = todo' => Good(q)'
<1> DEFINE n == Len(s)
           At(i) == i - n + m - 1
<1> PICK q : q = todo'
  OBVIOUS
<1> DEFINE Old(i) == i > n /\ At(i) \in m..Len(todo) /\ At(i) \in 2..Len(todo) /\ q[i] = todo[At(i)]
<1>1. Sequenced(todo) /\ Placed(todo) /\ Tame(todo) /\ Sequenced(q) /\ Sequenced(s)
  BY DEF Good, Resumed
<1>2. Placed(s)' /\ Tame(s)' /\ Strung(s)' /\ Lawful(s)' /\ Fronted(s)'
  BY DEF Good
<1>3. \A i \in 1..Len(q) : n \in Nat /\ ((i \in 1..n /\ q[i] = s[i]) \/ Old(i))
  BY <1>1, Behind
<1>4. n \in Nat /\ m \in Nat /\ Len(q) \in Nat /\ Len(todo) \in Nat
  BY <1>1, LenProperties DEF Sequenced, Resumed
<1>5. ASSUME NEW i \in 1..Len(q), Old(i)
      PROVE  /\ Later(q[i]) /\ q[i][1] # "react" /\ ~Chained(q[i])
             /\ q[i][1] \notin {"record", "finalize", "afterLeaf"}
  <2>1. Later(q[i]) /\ q[i][1] # "react" /\ ~Chained(q[i])
    BY <1>5 DEF Later
  <2> QED
    BY <1>1, <2>1, FinalizeIsFirst
<1>6. \A i \in 1..Len(q), l \in 1..n : i \in 1..n => l \in 1..Len(q) /\ q[l] = s[l]
  <2>1. n <= Len(q)
    BY <1>4 DEF Resumed
  <2> SUFFICES ASSUME NEW l \in 1..n
               PROVE  l \in 1..Len(q) /\ q[l] = s[l]
    OBVIOUS
  <2>2. l \in 1..Len(q)
    BY <1>4, <2>1
  <2>3. ~Old(l)
    BY <1>4
  <2> QED
    BY <1>3, <2>2, <2>3
<1>7. Placed(q)'
  <2>1. ASSUME NEW i \in 1..Len(q)
        PROVE  /\ q[i][1] \in {"record", "finalize", "afterLeaf"} => i = 1
               /\ q[i][1] = "react" => i = 1 \/ (i = 2 /\ q[1] = Call("record", q[2][2], q[2][3]))
    <3>1. CASE Old(i)
      BY <1>5, <3>1
    <3>2. CASE i \in 1..n /\ q[i] = s[i]
      <4>1. /\ s[i][1] \in {"record", "finalize", "afterLeaf"} => i = 1
            /\ s[i][1] = "react" => i = 1 \/ (i = 2 /\ s[1] = Call("record", s[2][2], s[2][3]))
        BY <1>2, <3>2 DEF Placed
      <4>2. i = 2 => q[1] = s[1]
        BY <1>4, <1>6, <3>2
      <4> QED
        BY <3>2, <4>1, <4>2
    <3> QED
      BY <1>3, <3>1, <3>2
  <2> QED
    BY <2>1 DEF Placed
<1>8. Tame(q)'
  <2>1. ASSUME NEW i \in 1..Len(q), Waits(q[i])', NEW l \in 1..(i - 1)
        PROVE  \A c : c = q[l] => Calm(c)'
    <3>1. l \in 1..Len(q) /\ l < i
      BY <1>4
    <3>2. CASE i \in 1..n /\ q[i] = s[i]
      <4>1. l \in 1..n /\ q[l] = s[l]
        BY <1>4, <1>6, <3>1, <3>2
      <4>2. \A c : c = s[l] => Calm(c)'
        BY <1>2, <2>1, <3>2 DEF Tame, Waits
      <4> QED
        BY <4>1, <4>2
    <3>3. CASE Old(i)
      <4>1. Waits(todo[At(i)])
        BY <2>1, <3>3 DEF Waits
      <4>2. \A k \in 1..n : \A c : c = s[k] => Calm(c)'
        BY <3>3, <4>1
      <4>3. CASE l \in 1..n /\ q[l] = s[l]
        BY <4>2, <4>3
      <4>4. CASE Old(l)
        <5>1. At(l) \in 1..(At(i) - 1) /\ At(i) \in 1..Len(todo)
          <6>1. /\ i \in Nat /\ l \in Nat /\ l < i /\ i - n + m - 1 \in 2..Len(todo)
                /\ l - n + m - 1 \in 2..Len(todo)
            BY <1>4, <3>1, <3>3, <4>4
          <6> HIDE DEF n
          <6> QED
            BY <1>4, <6>1
        <5>2. Calm(todo[At(l)])
          BY <1>1, <4>1, <5>1 DEF Tame
        <5> QED
          BY <1>1, <3>1, <4>4, <5>2, <1>5, FinalizeIsFirst
      <4> QED
        BY <1>3, <3>1, <4>3, <4>4
    <3> QED
      BY <1>3, <3>2, <3>3
  <2> QED
    BY <2>1 DEF Tame
<1>9. Strung(q)'
  <2>1. ASSUME NEW i \in 1..Len(q), Chained(q[i])
        PROVE  /\ q[i][2] = q[1][2]
               /\ \A l \in 1..(i - 1) : Chained(q[l])
               /\ \A p, c : p = q[i - 1] /\ c = q[i] /\ i # 1 => Linked(p, c)'
    <3>1. i \in 1..n /\ q[i] = s[i]
      BY <1>3, <1>5, <2>1
    <3>2. q[1] = s[1] /\ \A l \in 1..(i - 1) : l \in 1..n /\ q[l] = s[l]
      BY <1>4, <1>6, <3>1
    <3>3. i # 1 => q[i - 1] = s[i - 1]
      BY <1>4, <1>6, <3>1
    <3>4. Chained(s[i])
      BY <2>1, <3>1
    <3>5. /\ s[i][2] = s[1][2]
          /\ \A l \in 1..(i - 1) : Chained(s[l])
          /\ \A p, c : p = s[i - 1] /\ c = s[i] /\ i # 1 => Linked(p, c)'
      BY <1>2, <3>1, <3>4 DEF Strung, Chained, Succeeds
    <3> QED
      BY <3>1, <3>2, <3>3, <3>5
  <2> QED
    BY <2>1 DEF Strung, Chained, Succeeds
<1>10. Lawful(q)'
  <2>1. ASSUME NEW i \in 1..Len(q)
        PROVE  \A c : c = q[i] => Legal(c)' /\ Named(c)'
    <3>1. CASE i \in 1..n /\ q[i] = s[i]
      BY <1>2, <3>1 DEF Lawful
    <3>2. CASE Old(i)
      BY <1>5, <3>2, UnchainedIsNamed
    <3> QED
      BY <1>3, <3>1, <3>2
  <2> QED
    BY <2>1 DEF Lawful
<1>11. Fronted(q)'
  <2>1. ASSUME q # <<>>
        PROVE  \A c : c = q[1] => Reached(c)' /\ Foremost(c)'
    <3>1. 1 \in 1..Len(q)
      <4>1. Len(q) \in Nat \ {0}
        BY <1>1, <2>1, Rest
      <4> QED
        BY <4>1
    <3>2. CASE 1 \in 1..n /\ q[1] = s[1]
      <4>1. s # <<>>
        BY <3>2, Tuples
      <4> QED
        BY <1>2, <3>2, <4>1 DEF Fronted
    <3>3. CASE Old(1)
      <4>1. \A c : c = q[1] => ~Chained(c) /\ c[1] \notin {"react", "record", "finalize"}
        BY <1>5, <3>1, <3>3
      <4> QED
        BY <4>1 DEF Reached, Foremost, Chained, Succeeds
    <3> QED
      BY <1>3, <3>1, <3>2, <3>3
  <2> QED
    BY <2>1 DEF Fronted
<1> QED
  BY <1>1, <1>7, <1>8, <1>9, <1>10, <1>11 DEF Good

(* The next call is the one that waited first.                               *)
LEMMA Follows ==
  ASSUME Good(todo), todo # <<>>, Skip,
         \A c : Later(c) /\ Legal(c) /\ Named(c) => Legal(c)' /\ Named(c)',
         \A p, c : Later(c) /\ Legal(c) /\ Linked(p, c) => Linked(p, c)',
         \A c : 2 \in 1..Len(todo) /\ c = todo[2] => Reached(c)' /\ Foremost(c)'
  PROVE  \A q : q = todo' => Good(q)'
<1> PICK q : q = todo'
  OBVIOUS
<1>1. Sequenced(todo) /\ Placed(todo) /\ Tame(todo) /\ Strung(todo) /\ Lawful(todo)
  BY DEF Good
<1>2. /\ Sequenced(q) /\ Len(q) = Len(todo) - 1 /\ Len(todo) \in Nat \ {0}
      /\ \A i \in 1..Len(q) : q[i] = todo[i + 1]
  <2>1. PICK s : Sequenced(s) /\ Len(s) = 0 /\ todo' = s \o Tail(todo)
    BY Tuples DEF Skip, Then
  <2>2. /\ Sequenced(q) /\ Len(q) = Len(s) + Len(todo) - 1 /\ Len(todo) \in Nat \ {0}
        /\ \A i \in 1..(Len(s) + Len(todo) - 1) : i > Len(s) => q[i] = todo[i - Len(s) + 1]
    BY <1>1, <2>1, Continued, Rest
  <2>3. Len(q) = Len(todo) - 1 /\ \A i \in 1..Len(q) : i > Len(s) /\ i - Len(s) + 1 = i + 1
    BY <2>1, <2>2
  <2> QED
    BY <2>2, <2>3
<1>3. \A i \in 1..Len(q) : i + 1 \in 2..Len(todo) /\ i + 1 \in 1..Len(todo) /\ Later(q[i])
  <2> SUFFICES ASSUME NEW i \in 1..Len(q)
               PROVE  i + 1 \in 2..Len(todo) /\ i + 1 \in 1..Len(todo) /\ Later(q[i])
    OBVIOUS
  <2>1. i + 1 \in 2..Len(todo) /\ i + 1 \in 1..Len(todo)
    BY <1>2
  <2> QED
    BY <1>2, <2>1 DEF Later
<1>4. Placed(q)'
  <2>1. ASSUME NEW i \in 1..Len(q)
        PROVE  q[i][1] \notin {"record", "finalize", "afterLeaf"} /\ (q[i][1] = "react" => i = 1)
    <3>1. todo[i + 1][1] = "react" => i + 1 = 1 \/ i + 1 = 2
      BY <1>1, <1>3 DEF Placed
    <3> QED
      BY <1>1, <1>2, <1>3, <3>1, FinalizeIsFirst
  <2> QED
    BY <2>1 DEF Placed
<1>5. Tame(q)'
  <2>1. ASSUME NEW i \in 1..Len(q), Waits(q[i]), NEW l \in 1..(i - 1)
        PROVE  \A c : c = q[l] => Calm(c)'
    <3>1. l \in 1..Len(q) /\ l + 1 \in 1..(i + 1 - 1)
      BY <1>2
    <3>2. Calm(q[l])
      BY <1>1, <1>2, <1>3, <2>1, <3>1 DEF Tame
    <3> QED
      BY <1>1, <1>3, <3>1, <3>2, FinalizeIsFirst
  <2> QED
    BY <2>1 DEF Tame, Waits
<1>6. Strung(q)'
  <2>1. ASSUME NEW i \in 1..Len(q), Chained(q[i])
        PROVE  /\ q[i][2] = q[1][2]
               /\ \A l \in 1..(i - 1) : Chained(q[l])
               /\ \A p, c : p = q[i - 1] /\ c = q[i] /\ i # 1 => Linked(p, c)'
    <3>1. /\ i + 1 \in 1..Len(todo) /\ Chained(todo[i + 1]) /\ todo[i + 1][2] = todo[1][2]
          /\ \A l \in 1..i : Chained(todo[l])
          /\ Linked(todo[i], todo[i + 1])
      <4>1. i + 1 \in 1..Len(todo) /\ Chained(todo[i + 1]) /\ i + 1 # 1 /\ i + 1 - 1 = i
        BY <1>2, <1>3, <2>1
      <4> QED
        BY <1>1, <4>1 DEF Strung
    <3>2. q[1] = todo[2] /\ Chained(todo[2]) /\ 2 \in 1..Len(todo)
      <4>1. 1 \in 1..Len(q) /\ 1 + 1 = 2
        BY <1>2
      <4>2. i = 1 \/ 2 \in 1..i
        OBVIOUS
      <4>3. Chained(todo[2])
        BY <3>1, <4>1, <4>2
      <4> QED
        BY <1>2, <1>3, <4>1, <4>3
    <3>3. todo[2][2] = todo[1][2]
      BY <1>1, <3>2 DEF Strung
    <3>4. ASSUME NEW l \in 1..(i - 1)
          PROVE  Chained(q[l])
      <4>1. l + 1 \in 1..i /\ l \in 1..Len(q)
        BY <1>2
      <4> QED
        BY <1>2, <3>1, <4>1
    <3>5. i # 1 => q[i - 1] = todo[i]
      <4>1. i # 1 => i - 1 \in 1..Len(q) /\ i - 1 + 1 = i
        BY <1>2
      <4> QED
        BY <1>2, <4>1
    <3>6. Later(todo[i + 1]) /\ Legal(todo[i + 1])
      BY <1>1, <1>2, <1>3, <3>1 DEF Lawful
    <3>7. \A p, c : p = todo[i] /\ c = todo[i + 1] => Linked(p, c)'
      BY <3>1, <3>6
    <3> QED
      BY <1>2, <3>1, <3>2, <3>3, <3>4, <3>5, <3>7
  <2> QED
    BY <2>1 DEF Strung, Chained, Succeeds
<1>7. Lawful(q)'
  <2>1. ASSUME NEW i \in 1..Len(q)
        PROVE  \A c : c = q[i] => Legal(c)' /\ Named(c)'
    <3>1. Later(q[i]) /\ Legal(q[i]) /\ Named(q[i])
      BY <1>1, <1>2, <1>3 DEF Lawful
    <3> QED
      BY <3>1
  <2> QED
    BY <2>1 DEF Lawful
<1>8. Fronted(q)'
  <2>1. ASSUME q # <<>>
        PROVE  \A c : c = q[1] => Reached(c)' /\ Foremost(c)'
    <3>1. 1 \in 1..Len(q) /\ 1 + 1 = 2
      <4>1. Len(q) \in Nat \ {0}
        BY <1>2, <2>1, Rest
      <4> QED
        BY <4>1
    <3>2. q[1] = todo[2] /\ 2 \in 1..Len(todo)
      BY <1>2, <1>3, <3>1
    <3> QED
      BY <3>2
  <2> QED
    BY <2>1 DEF Fronted
<1> QED
  BY <1>2, <1>4, <1>5, <1>6, <1>7, <1>8 DEF Good

(* A link of the closing gives way to others.                                *)
LEMMA Reads ==
  ASSUME Good(todo), todo # <<>>, Chained(todo[1]), NEW s, Good(s)', s # <<>>, todo' = s \o Tail(todo),
         \A i \in 1..Len(s) : s[i][1] \in Links /\ s[i][2] = todo[1][2],
         \A c : Later(c) /\ Legal(c) /\ Named(c) => Legal(c)' /\ Named(c)',
         \A p, c : Linked(p, c) => Linked(p, c)',
         \A p, c : p = s[Len(s)] /\ Later(c) /\ Chained(c) /\ Linked(todo[1], c) => Linked(p, c)'
  PROVE  \A q : q = todo' => Good(q)'
<1> PICK q : q = todo'
  OBVIOUS
<1> DEFINE n == Len(s)
           Old(i) == i > n /\ i - n + 1 \in 2..Len(todo) /\ q[i] = todo[i - n + 1]
<1>1. Sequenced(todo) /\ Placed(todo) /\ Tame(todo) /\ Strung(todo) /\ Lawful(todo)
  BY DEF Good
<1>2. Sequenced(s) /\ Placed(s)' /\ Tame(s)' /\ Strung(s)' /\ Lawful(s)' /\ Fronted(s)'
  BY DEF Good
<1>3. /\ Sequenced(q) /\ n \in Nat \ {0} /\ Len(todo) \in Nat \ {0} /\ Len(q) = n + Len(todo) - 1
      /\ \A i \in 1..n : q[i] = s[i]
      /\ \A i \in 1..Len(q) : i > n => q[i] = todo[i - n + 1] /\ i - n + 1 \in 2..Len(todo)
  BY <1>1, <1>2, Continued, Rest
<1>4. /\ \A i \in 1..Len(q) : (i \in 1..n /\ q[i] = s[i]) \/ Old(i)
      /\ 1..n \subseteq 1..Len(q)
  BY <1>3
<1>5. ASSUME NEW i \in 1..Len(q), Old(i)
      PROVE  /\ Later(q[i]) /\ q[i][1] # "react"
             /\ q[i][1] \notin {"record", "finalize", "afterLeaf"}
  <2>1. Later(q[i]) /\ i - n + 1 \in 1..Len(todo) /\ i - n + 1 # 1
    BY <1>3, <1>5 DEF Later
  <2>2. todo[1][1] # "record"
    BY DEF Chained, Links, Succeeds
  <2>3. todo[i - n + 1][1] # "react"
    <3>1. todo[i - n + 1][1] = "react" => \E a, w : todo[1] = Call("record", a, w)
      BY <1>1, <2>1 DEF Placed
    <3>2. \A a, w : Call("record", a, w)[1] = "record"
      BY DEF Call
    <3> QED
      BY <2>2, <3>1, <3>2
  <2> QED
    BY <1>1, <1>5, <2>1, <2>3, FinalizeIsFirst
<1>6. Placed(q)'
  <2>1. ASSUME NEW i \in 1..Len(q)
        PROVE  q[i][1] \notin {"record", "finalize", "afterLeaf", "react"}
    BY <1>4, <1>5 DEF Links
  <2> QED
    BY <2>1 DEF Placed
<1>7. Tame(q)'
  <2>1. ASSUME NEW i \in 1..Len(q), Waits(q[i]), NEW l \in 1..(i - 1)
        PROVE  \A c : c = q[l] => Calm(c)'
    <3>1. l \in 1..Len(q) /\ l < i
      BY <1>3
    <3>2. CASE l \in 1..n /\ q[l] = s[l]
      BY <3>2 DEF Calm, CalmNames
    <3>3. CASE Old(l)
      <4>1. i \notin 1..n
        BY <1>3, <3>1, <3>3
      <4>2. Old(i)
        BY <1>4, <4>1
      <4>3. /\ l \in Nat /\ i \in Nat /\ l < i /\ l - n + 1 \in 2..Len(todo) /\ i - n + 1 \in 2..Len(todo)
        BY <1>3, <3>1, <3>3, <4>2
      <4> HIDE DEF n
      <4>4. l - n + 1 \in 1..((i - n + 1) - 1) /\ i - n + 1 \in 1..Len(todo)
        BY <1>3, <4>3
      <4>5. Waits(todo[i - n + 1])
        BY <2>1, <4>2
      <4>6. Calm(todo[l - n + 1])
        BY <1>1, <4>4, <4>5 DEF Tame
      <4> QED
        BY <1>1, <1>5, <3>1, <3>3, <4>6, FinalizeIsFirst
    <3> QED
      BY <1>4, <3>1, <3>2, <3>3
  <2> QED
    BY <2>1 DEF Tame, Waits
<1>8. Strung(q)'
  <2>1. q[1] = s[1] /\ s[1][2] = todo[1][2]
    BY <1>3
  <2>2. ASSUME NEW i \in 1..Len(q), Chained(q[i])
        PROVE  /\ q[i][2] = q[1][2]
               /\ \A l \in 1..(i - 1) : Chained(q[l])
               /\ \A p, c : p = q[i - 1] /\ c = q[i] /\ i # 1 => Linked(p, c)'
    <3>1. CASE i \in 1..n /\ q[i] = s[i]
      <4>1. \A l \in 1..(i - 1) : l \in 1..n /\ q[l] = s[l]
        BY <1>3, <3>1
      <4>2. i # 1 => q[i - 1] = s[i - 1]
        BY <1>3, <3>1
      <4>3. /\ s[i][2] = s[1][2]
            /\ \A p, c : p = s[i - 1] /\ c = s[i] /\ i # 1 => Linked(p, c)'
        BY <1>2, <2>2, <3>1 DEF Strung, Chained, Succeeds
      <4>4. \A l \in 1..(i - 1) : Chained(q[l])
        BY <4>1 DEF Chained
      <4> QED
        BY <2>1, <3>1, <4>2, <4>3, <4>4
    <3>2. CASE Old(i)
      <4>1. i \in Nat /\ i > n /\ i - n + 1 \in 2..Len(todo)
        BY <1>3, <3>2
      <4> DEFINE a == i - n + 1
      <4>2. a \in 1..Len(todo) /\ a # 1 /\ a - 1 = i - n /\ q[i] = todo[a]
        <5> HIDE DEF n
        <5> QED
          BY <1>3, <3>2, <4>1
      <4>3. /\ Chained(todo[a]) /\ todo[a][2] = todo[1][2]
            /\ \A l \in 1..(a - 1) : Chained(todo[l])
            /\ Linked(todo[a - 1], todo[a])
        BY <1>1, <2>2, <4>2 DEF Strung
      <4>4. ASSUME NEW l \in 1..(i - 1)
            PROVE  Chained(q[l])
        <5>1. l \in 1..Len(q) /\ l < i
          BY <1>3
        <5>2. CASE l \in 1..n /\ q[l] = s[l]
          BY <5>2 DEF Chained
        <5>3. CASE Old(l)
          <6>1. l - n + 1 \in 1..(a - 1)
            <7>1. l \in Nat /\ l - n + 1 \in 2..Len(todo)
              BY <5>1, <5>3
            <7> HIDE DEF n
            <7> QED
              BY <1>3, <4>1, <5>1, <7>1
          <6> QED
            BY <4>3, <5>3, <6>1
        <5> QED
          BY <1>4, <5>1, <5>2, <5>3
      <4>5. ASSUME NEW p, NEW c, p = q[i - 1], c = q[i]
            PROVE  Linked(p, c)'
        <5>1. i - 1 \in 1..Len(q)
          BY <1>3, <4>1
        <5>2. CASE i - 1 \in 1..n
          <6>1. i - 1 = n /\ a = 2
            <7> HIDE DEF n
            <7> QED
              BY <1>3, <4>1, <5>2
          <6>2. p = s[Len(s)]
            BY <1>3, <4>5, <5>2, <6>1
          <6>3. Linked(todo[1], c) /\ Chained(c) /\ Later(c)
            BY <1>5, <3>2, <4>2, <4>3, <4>5, <6>1
          <6> QED
            BY <6>2, <6>3
        <5>3. CASE i - 1 \notin 1..n
          <6>1. q[i - 1] = todo[i - 1 - n + 1]
            BY <1>4, <5>1, <5>3
          <6>2. i - 1 - n + 1 = a - 1
            <7> HIDE DEF n
            <7> QED
              BY <1>3, <4>1
          <6>3. p = todo[a - 1] /\ c = todo[a]
            BY <4>2, <4>5, <6>1, <6>2
          <6> QED
            BY <4>3, <6>3
        <5> QED
          BY <5>2, <5>3
      <4> QED
        BY <2>1, <4>2, <4>3, <4>4, <4>5
    <3> QED
      BY <1>4, <3>1, <3>2
  <2> QED
    BY <2>2 DEF Strung, Chained, Succeeds
<1>9. Lawful(q)'
  <2>1. ASSUME NEW i \in 1..Len(q)
        PROVE  \A c : c = q[i] => Legal(c)' /\ Named(c)'
    <3>1. CASE i \in 1..n /\ q[i] = s[i]
      BY <1>2, <3>1 DEF Lawful
    <3>2. CASE Old(i)
      <4>1. i - n + 1 \in 1..Len(todo)
        BY <1>3, <3>2
      <4>2. Later(q[i]) /\ Legal(q[i]) /\ Named(q[i])
        BY <1>1, <1>5, <3>2, <4>1 DEF Lawful
      <4> QED
        BY <4>2
    <3> QED
      BY <1>4, <3>1, <3>2
  <2> QED
    BY <2>1 DEF Lawful
<1>10. Fronted(q)'
  <2>1. q[1] = s[1]
    BY <1>3
  <2> QED
    BY <1>2, <2>1 DEF Fronted
<1> QED
  BY <1>3, <1>6, <1>7, <1>8, <1>9, <1>10 DEF Good

-----------------------------------------------------------------------------
(* What takes the place of a call.                                           *)

Marked == KeyCalls \cup ToolCalls
Loose(c, keys) == c[1] \notin Marked \/ (c[1] \in {"apply", "jevAnswer", "jevInterrupted"} /\ c[2] \in keys)
AllLoose(s, keys) == Sequenced(s) /\ \A i \in 1..Len(s) : Loose(s[i], keys)

LEMMA LooseIsGood ==
  ASSUME NEW s, NEW keys, AllLoose(s, keys), keys \subseteq DOMAIN req'
  PROVE  Good(s)'
<1>1. Sequenced(s) /\ \A i \in 1..Len(s) : Loose(s[i], keys)
  BY DEF AllLoose
<1>2. ASSUME NEW c, Loose(c, keys)
      PROVE  /\ c[1] \notin {"record", "react", "finalize", "afterLeaf"} /\ ~Waits(c)' /\ ~Chained(c)
             /\ Legal(c)'
  BY <1>2 DEF Loose, Marked, KeyCalls, ToolCalls, FullCalls, Begins, Links, Waits, Chained, Succeeds, Legal
<1>3. ASSUME NEW c, Loose(c, keys)
      PROVE  Named(c)' /\ Reached(c)' /\ Foremost(c)'
  <2>1. ~Chained(c) /\ ~Chained(c)' /\ c[1] \notin {"record", "react", "finalize"}
    BY <1>2, <1>3 DEF Chained, Succeeds
  <2> QED
    BY <2>1, UnchainedIsNamed DEF Reached, Foremost
<1>4. Placed(s)' /\ Tame(s)' /\ Strung(s)' /\ Lawful(s)'
  BY <1>1, <1>2, <1>3 DEF Placed, Tame, Strung, Lawful, Chained, Succeeds
<1>5. Fronted(s)'
  <2>1. ASSUME s # <<>>
        PROVE  Loose(s[1], keys)
    <3>1. 1 \in 1..Len(s)
      <4>1. Len(s) \in Nat \ {0}
        BY <1>1, <2>1, Rest
      <4> QED
        BY <4>1
    <3> QED
      BY <1>1, <3>1
  <2> QED
    BY <1>3, <2>1 DEF Fronted
<1> QED
  BY <1>1, <1>4, <1>5 DEF Good

LEMMA LooseTuples ==
  ASSUME NEW keys
  PROVE  /\ AllLoose(<<>>, keys)
         /\ \A c : Loose(c, keys) => AllLoose(<<c>>, keys)
         /\ \A c, d, e : Loose(c, keys) /\ Loose(d, keys) /\ Loose(e, keys) => AllLoose(<<c, d, e>>, keys)
<1>1. AllLoose(<<>>, keys)
  BY Tuples DEF AllLoose
<1>2. ASSUME NEW c, Loose(c, keys)
      PROVE  AllLoose(<<c>>, keys)
  BY <1>2, Tuples DEF AllLoose
<1>3. ASSUME NEW c, NEW d, NEW e, Loose(c, keys), Loose(d, keys), Loose(e, keys)
      PROVE  AllLoose(<<c, d, e>>, keys)
  BY <1>3, Tuples DEF AllLoose
<1> QED
  BY <1>1, <1>2, <1>3

LEMMA LooseCalls ==
  ASSUME NEW keys
  PROVE  /\ \A n, a, w : n \notin Marked => Loose(Call(n, a, w), keys)
         /\ \A n, a, w : n \in {"apply", "jevAnswer", "jevInterrupted"} /\ a \in keys => Loose(Call(n, a, w), keys)
BY DEF Call, Loose

LEMMA LooseConcatenated ==
  ASSUME NEW keys, NEW s, NEW r, AllLoose(s, keys), AllLoose(r, keys)
  PROVE  AllLoose(s \o r, keys)
<1>1. /\ Sequenced(s \o r) /\ Len(s \o r) = Len(s) + Len(r) /\ Len(s) \in Nat /\ Len(r) \in Nat
      /\ \A i \in 1..(Len(s) + Len(r)) : (s \o r)[i] = IF i <= Len(s) THEN s[i] ELSE r[i - Len(s)]
  BY Concatenated DEF AllLoose
<1>2. ASSUME NEW i \in 1..Len(s \o r)
      PROVE  Loose((s \o r)[i], keys)
  <2>1. CASE i <= Len(s)
    BY <1>1, <2>1 DEF AllLoose
  <2>2. CASE ~(i <= Len(s))
    <3>1. i - Len(s) \in 1..Len(r)
      BY <1>1, <2>2
    <3> QED
      BY <1>1, <2>2, <3>1 DEF AllLoose
  <2> QED
    BY <2>1, <2>2
<1> QED
  BY <1>1, <1>2 DEF AllLoose

LEMMA LooseQueue ==
  ASSUME NEW keys, NEW S, IsFiniteSet(S), NEW name,
         \/ name \notin Marked
         \/ name \in {"apply", "jevAnswer", "jevInterrupted"} /\ S \subseteq keys
  PROVE  AllLoose(Queue(name, S), keys)
<1> DEFINE n == Cardinality(S)
           s == Queue(name, S)
<1>1. n \in Nat /\ SetToSeq(S) \in [1..n -> S]
  BY SetListed
<1>2. DOMAIN s = 1..n /\ s = [i \in 1..n |-> s[i]] /\ \A i \in 1..n : s[i] = Call(name, SetToSeq(S)[i], "none")
  BY DEF Queue
<1>3. \A i \in 1..n : Loose(s[i], keys)
  BY <1>1, <1>2, LooseCalls
<1> QED
  BY <1>1, <1>2, <1>3, Listed DEF AllLoose

LEMMA LooseResults ==
  ASSUME NEW keys, NEW results, IsFiniteSet(DOMAIN results), DOMAIN results \subseteq keys
  PROVE  AllLoose(ApplyAll(results), keys)
<1> DEFINE S == DOMAIN results
           n == Cardinality(S)
           s == ApplyAll(results)
<1>1. n \in Nat /\ SetToSeq(S) \in [1..n -> S]
  BY SetListed
<1>2. /\ DOMAIN s = 1..n /\ s = [i \in 1..n |-> s[i]]
      /\ \A i \in 1..n : s[i] = Call("apply", SetToSeq(S)[i], results[SetToSeq(S)[i]])
  BY DEF ApplyAll
<1> HIDE DEF S, s
<1>3. S \subseteq keys
  BY DEF S
<1>4. \A i \in 1..n : Loose(s[i], keys)
  BY <1>1, <1>2, <1>3, LooseCalls
<1>5. AllLoose(s, keys)
  BY <1>1, <1>2, <1>4, Listed DEF AllLoose
<1> QED
  BY <1>5 DEF s

(* One call or two.                                                          *)
LEMMA Alone ==
  ASSUME NEW c, Legal(c)', Named(c)', Reached(c)', Foremost(c)'
  PROVE  Good(<<c>>)'
<1> PICK s : s = <<c>>
  OBVIOUS
<1>1. Sequenced(s) /\ Len(s) = 1 /\ s[1] = c
  BY Tuples
<1>2. Placed(s)' /\ Tame(s)' /\ Lawful(s)' /\ Fronted(s)'
  BY <1>1 DEF Placed, Tame, Lawful, Fronted
<1>3. Strung(s)'
  BY <1>1 DEF Strung
<1>4. Good(s)'
  BY <1>1, <1>2, <1>3 DEF Good
<1> QED
  BY <1>4

Simple(c) == ~Chained(c) /\ c[1] \notin {"record", "react", "finalize", "afterLeaf"}

LEMMA SimpleAlone ==
  ASSUME NEW c, Simple(c), Legal(c)'
  PROVE  Good(<<c>>)'
<1>1. ~Chained(c)
  BY DEF Simple, Chained, Succeeds
<1>2. Named(c)'
  BY <1>1, UnchainedIsNamed
<1>3. Reached(c)' /\ Foremost(c)'
  BY <1>1 DEF Simple, Reached, Foremost, Chained, Succeeds
<1> QED
  BY <1>2, <1>3, Alone

LEMMA Both ==
  ASSUME NEW c, NEW d, Legal(c)', Legal(d)', Simple(c) \/ (c[1] = "record" /\ Foremost(c)'),
         Simple(d) \/ (d[1] = "react" /\ c = Call("record", d[2], d[3])),
         Waits(d) => Calm(c)'
  PROVE  Good(<<c, d>>)'
<1> PICK s : s = <<c, d>>
  OBVIOUS
<1>1. Sequenced(s) /\ Len(s) = 2 /\ s[1] = c /\ s[2] = d
  BY Tuples
<1>2. \A i \in 1..2 : i = 1 \/ i = 2
  OBVIOUS
<1>3. /\ ~Chained(c) /\ ~Chained(d) /\ ~Chained(c)' /\ ~Chained(d)'
      /\ c[1] \notin {"finalize", "afterLeaf", "react"} /\ d[1] \notin {"record", "finalize", "afterLeaf"}
  BY DEF Simple, Chained, Succeeds, Links
<1>4. Named(c)' /\ Named(d)'
  BY <1>3, UnchainedIsNamed
<1>5. Placed(s)'
  BY <1>1, <1>2, <1>3 DEF Placed, Simple
<1>6. Tame(s)'
  BY <1>1, <1>2 DEF Tame, Waits
<1>7. Strung(s)'
  BY <1>1, <1>2, <1>3 DEF Strung
<1>8. Lawful(s)'
  BY <1>1, <1>2, <1>4 DEF Lawful
<1>9. Fronted(s)'
  <2>1. Reached(c)' /\ Foremost(c)'
    BY <1>3 DEF Reached, Foremost, Simple
  <2> QED
    BY <1>1, <2>1 DEF Fronted
<1>10. Good(s)'
  BY <1>1, <1>5, <1>6, <1>7, <1>8, <1>9 DEF Good
<1> QED
  BY <1>10

(* Closing an item.                                                          *)
Calmly(s) == \A i \in 1..Len(s) : Calm(s[i])

LEMMA CalmTuples ==
  /\ \A s : Len(s) = 0 => Calmly(s)'
  /\ \A c, s : s = <<c>> /\ Calm(c)' => Calmly(s)'
  /\ \A c, d, s : s = <<c, d>> /\ Calm(c)' /\ Calm(d)' => Calmly(s)'
<1>1. ASSUME NEW s, Len(s) = 0
      PROVE  Calmly(s)'
  BY <1>1 DEF Calmly
<1>2. ASSUME NEW c, NEW s, s = <<c>>, Calm(c)'
      PROVE  Calmly(s)'
  <2>1. Len(s) = 1 /\ s[1] = c
    BY <1>2, Tuples
  <2> QED
    BY <1>2, <2>1 DEF Calmly
<1>3. ASSUME NEW c, NEW d, NEW s, s = <<c, d>>, Calm(c)', Calm(d)'
      PROVE  Calmly(s)'
  <2>1. Len(s) = 2 /\ s[1] = c /\ s[2] = d
    BY <1>3, Tuples
  <2>2. \A i \in 1..2 : i = 1 \/ i = 2
    OBVIOUS
  <2> QED
    BY <1>3, <2>1, <2>2 DEF Calmly
<1> QED
  BY <1>1, <1>2, <1>3

LEMMA CalmConcatenated ==
  ASSUME NEW s, NEW r, Sequenced(s), Sequenced(r), Calmly(s)', Calmly(r)'
  PROVE  Calmly(s \o r)'
<1> PICK q : q = s \o r
  OBVIOUS
<1>1. /\ Len(q) = Len(s) + Len(r) /\ Len(s) \in Nat /\ Len(r) \in Nat
      /\ \A i \in 1..(Len(s) + Len(r)) : q[i] = IF i <= Len(s) THEN s[i] ELSE r[i - Len(s)]
  BY Concatenated
<1>2. ASSUME NEW i \in 1..Len(q)
      PROVE  \A c : c = q[i] => Calm(c)'
  <2>1. CASE i <= Len(s)
    BY <1>1, <2>1 DEF Calmly
  <2>2. CASE ~(i <= Len(s))
    <3>1. i - Len(s) \in 1..Len(r)
      BY <1>1, <2>2
    <3> QED
      BY <1>1, <2>2, <3>1 DEF Calmly
  <2> QED
    BY <2>1, <2>2
<1>3. Calmly(q)'
  BY <1>2 DEF Calmly
<1> QED
  BY <1>3

(* Calls of the closing of one item, in their order.                         *)
Bare(q) == \A i \in 1..Len(q) : q[i][1] \in Links
Piece(t, q) ==
  /\ Sequenced(q)
  /\ \A i \in 1..Len(q) :
       /\ Legal(q[i]) /\ Named(q[i]) /\ q[i][2] = t /\ q[i][1] \in Links \cup {"finish"}
       /\ i # Len(q) => q[i][1] \in Links
       /\ i # 1 /\ Chained(q[i]) => Linked(q[i - 1], q[i])

LEMMA PieceIsGood ==
  ASSUME NEW t, NEW q, Piece(t, q)', q # <<>> => Reached(q[1])'
  PROVE  Good(q)'
<1>1. Sequenced(q) /\ Len(q) \in Nat
  BY LenProperties DEF Piece, Sequenced
<1>2. ASSUME NEW i \in 1..Len(q)
      PROVE  /\ q[i][2] = t /\ q[i][1] \in Links \cup {"finish"}
             /\ i # Len(q) => q[i][1] \in Links
             /\ \A c : c = q[i] => Legal(c)' /\ Named(c)'
             /\ \A p, c : p = q[i - 1] /\ c = q[i] /\ i # 1 /\ Chained(c) => Linked(p, c)'
  BY DEF Piece, Chained, Succeeds
<1>3. Placed(q)' /\ Tame(q)' /\ Lawful(q)'
  <2>1. ASSUME NEW i \in 1..Len(q)
        PROVE  q[i][1] \notin {"record", "finalize", "afterLeaf", "react", "fail"} \cup Begins
    BY <1>2 DEF Links, Begins
  <2> QED
    BY <1>2, <2>1 DEF Placed, Tame, Waits, Lawful
<1>4. Strung(q)'
  <2>1. ASSUME NEW i \in 1..Len(q), Chained(q[i])
        PROVE  /\ q[i][2] = q[1][2]
               /\ \A l \in 1..(i - 1) : Chained(q[l])
    <3>1. 1 \in 1..Len(q) /\ \A l \in 1..(i - 1) : l \in 1..Len(q) /\ l # Len(q)
      BY <1>1
    <3> QED
      BY <1>2, <3>1 DEF Chained
  <2> QED
    BY <1>2, <2>1 DEF Strung, Chained, Succeeds
<1>5. Fronted(q)'
  <2>1. ASSUME q # <<>>
        PROVE  1 \in 1..Len(q)
    <3>1. Len(q) \in Nat \ {0}
      BY <1>1, <2>1, Rest
    <3> QED
      BY <3>1
  <2>2. ASSUME q # <<>>
        PROVE  \A c : c = q[1] => Foremost(c)'
    BY <1>2, <2>1, <2>2 DEF Foremost, Links
  <2> QED
    BY <2>2 DEF Fronted
<1> QED
  BY <1>1, <1>3, <1>4, <1>5 DEF Good

LEMMA PieceJoined ==
  ASSUME NEW t, NEW p, NEW r, Piece(t, p)', Piece(t, r)', Bare(p),
         p # <<>> /\ r # <<>> /\ Chained(r[1]) => Linked(p[Len(p)], r[1])',
         NEW q, q = p \o r
  PROVE  /\ Piece(t, q)' /\ (Bare(r) => Bare(q))
         /\ (p = <<>> => q = r) /\ (r = <<>> => q = p)
         /\ (p # <<>> => q # <<>> /\ q[1] = p[1])
         /\ (r # <<>> => q # <<>> /\ q[Len(q)] = r[Len(r)])
<1>1. Sequenced(p) /\ Sequenced(r)
  BY DEF Piece
<1>2. /\ Sequenced(q) /\ Len(q) = Len(p) + Len(r) /\ Len(p) \in Nat /\ Len(r) \in Nat
      /\ \A i \in 1..(Len(p) + Len(r)) : q[i] = IF i <= Len(p) THEN p[i] ELSE r[i - Len(p)]
  BY <1>1, Concatenated
<1>3. /\ p = <<>> <=> Len(p) = 0
      /\ r = <<>> <=> Len(r) = 0
      /\ q = <<>> <=> Len(q) = 0
  BY <1>1, <1>2, Rest, Tuples
<1>4. ASSUME NEW i \in 1..Len(p)
      PROVE  /\ \A c : c = p[i] => Legal(c)' /\ Named(c)' /\ c[2] = t /\ c[1] \in Links
             /\ \A d, c : d = p[i - 1] /\ c = p[i] /\ i # 1 /\ Chained(c) => Linked(d, c)'
  BY DEF Piece, Bare, Chained, Succeeds
<1>5. ASSUME NEW i \in 1..Len(r)
      PROVE  /\ \A c : c = r[i] => Legal(c)' /\ Named(c)' /\ c[2] = t /\ c[1] \in Links \cup {"finish"}
             /\ i # Len(r) => r[i][1] \in Links
             /\ \A d, c : d = r[i - 1] /\ c = r[i] /\ i # 1 /\ Chained(c) => Linked(d, c)'
  BY DEF Piece, Chained, Succeeds
<1>6. ASSUME NEW i \in 1..Len(q)
      PROVE  /\ \A c : c = q[i] => Legal(c)' /\ Named(c)' /\ c[2] = t /\ c[1] \in Links \cup {"finish"}
             /\ i # Len(q) => q[i][1] \in Links
             /\ \A d, c : d = q[i - 1] /\ c = q[i] /\ i # 1 /\ Chained(c) => Linked(d, c)'
             /\ Bare(r) => q[i][1] \in Links
  <2>1. CASE i <= Len(p)
    <3>1. i \in 1..Len(p) /\ q[i] = p[i]
      BY <1>2, <2>1
    <3>2. i # 1 => i - 1 \in 1..(Len(p) + Len(r)) /\ i - 1 <= Len(p)
      BY <1>2, <2>1
    <3>3. i # 1 => q[i - 1] = p[i - 1]
      BY <1>2, <3>2
    <3> QED
      BY <1>4, <3>1, <3>3
  <2>2. CASE ~(i <= Len(p))
    <3> DEFINE a == i - Len(p)
    <3>1. a \in 1..Len(r) /\ q[i] = r[a] /\ (i # Len(q) => a # Len(r))
      BY <1>2, <2>2
    <3>2. ASSUME a # 1
          PROVE  q[i - 1] = r[a - 1]
      <4>1. i - 1 \in 1..(Len(p) + Len(r)) /\ ~(i - 1 <= Len(p)) /\ i - 1 - Len(p) = a - 1
        BY <1>2, <2>2, <3>2
      <4> QED
        BY <1>2, <4>1
    <3>3. ASSUME a = 1, i # 1
          PROVE  q[i - 1] = p[Len(p)] /\ p # <<>> /\ r # <<>>
      <4>1. i - 1 = Len(p) /\ i - 1 \in 1..(Len(p) + Len(r)) /\ Len(p) # 0 /\ Len(r) # 0
        BY <1>2, <2>2, <3>1, <3>3
      <4> QED
        BY <1>2, <1>3, <4>1
    <3>4. \A d, c : d = q[i - 1] /\ c = q[i] /\ i # 1 /\ Chained(c) => Linked(d, c)'
      <4>1. CASE a # 1
        BY <1>5, <3>1, <3>2, <4>1
      <4>2. CASE a = 1
        BY <3>1, <3>3, <4>2 DEF Chained, Succeeds
      <4> QED
        BY <4>1, <4>2
    <3> HIDE DEF a
    <3> QED
      BY <1>5, <3>1, <3>4 DEF Bare
  <2> QED
    BY <2>1, <2>2
<1>7. Piece(t, q)' /\ (Bare(r) => Bare(q))
  BY <1>2, <1>6 DEF Piece, Bare, Chained, Succeeds
<1>8. p # <<>> => q # <<>> /\ q[1] = p[1]
  <2>1. ASSUME p # <<>>
        PROVE  Len(p) # 0 /\ 1 \in 1..(Len(p) + Len(r)) /\ 1 <= Len(p) /\ Len(q) # 0
    BY <1>2, <1>3, <2>1
  <2> QED
    BY <1>2, <1>3, <2>1
<1>9. r # <<>> => q # <<>> /\ q[Len(q)] = r[Len(r)]
  <2>1. ASSUME r # <<>>
        PROVE  Len(q) \in 1..(Len(p) + Len(r)) /\ ~(Len(q) <= Len(p)) /\ Len(q) - Len(p) = Len(r) /\ Len(q) # 0
    BY <1>2, <1>3, <2>1
  <2> QED
    BY <1>2, <1>3, <2>1
<1>10. p = <<>> => q = r
  <2>1. r \in Seq(Range(r))
    BY <1>1 DEF Sequenced
  <2> QED
    BY <2>1, ConcatEmptySeq
<1>11. r = <<>> => q = p
  <2>1. p \in Seq(Range(p))
    BY <1>1 DEF Sequenced
  <2> QED
    BY <2>1, ConcatEmptySeq
<1> QED
  BY <1>7, <1>8, <1>9, <1>10, <1>11

LEMMA PieceTuples ==
  ASSUME NEW t
  PROVE  /\ \A s : s = <<>> => Piece(t, s)' /\ Bare(s)
         /\ \A c, s : s = <<c>> /\ Legal(c)' /\ Named(c)' /\ c[2] = t /\ c[1] \in Links \cup {"finish"}
                        => Piece(t, s)' /\ (c[1] \in Links => Bare(s)) /\ s # <<>> /\ s[1] = c /\ s[Len(s)] = c
         /\ \A c, d, s : s = <<c, d>> /\ Legal(c)' /\ Named(c)' /\ Legal(d)' /\ Named(d)' /\ c[2] = t /\ d[2] = t
                           /\ c[1] \in Links /\ d[1] \in Links \cup {"finish"} /\ (Chained(d) => Linked(c, d)')
                           => Piece(t, s)' /\ (d[1] \in Links => Bare(s)) /\ s # <<>> /\ s[1] = c /\ s[Len(s)] = d
<1>1. ASSUME NEW s, s = <<>>
      PROVE  Piece(t, s)' /\ Bare(s)
  <2>1. Len(s) = 0 /\ Sequenced(s)
    BY <1>1, Tuples
  <2> QED
    BY <2>1 DEF Piece, Bare
<1>2. ASSUME NEW c, NEW s, s = <<c>>, Legal(c)', Named(c)', c[2] = t, c[1] \in Links \cup {"finish"}
      PROVE  Piece(t, s)' /\ (c[1] \in Links => Bare(s)) /\ s # <<>> /\ s[1] = c /\ s[Len(s)] = c
  <2>1. Len(s) = 1 /\ Sequenced(s) /\ s[1] = c /\ s # <<>>
    BY <1>2, Tuples
  <2>2. \A i \in 1..1 : i = 1
    OBVIOUS
  <2> QED
    BY <1>2, <2>1, <2>2 DEF Piece, Bare
<1>3. ASSUME NEW c, NEW d, NEW s, s = <<c, d>>, Legal(c)', Named(c)', Legal(d)', Named(d)', c[2] = t, d[2] = t,
             c[1] \in Links, d[1] \in Links \cup {"finish"}, Chained(d) => Linked(c, d)'
      PROVE  Piece(t, s)' /\ (d[1] \in Links => Bare(s)) /\ s # <<>> /\ s[1] = c /\ s[Len(s)] = d
  <2>1. Len(s) = 2 /\ Sequenced(s) /\ s[1] = c /\ s[2] = d /\ s # <<>>
    BY <1>3, Tuples
  <2>2. \A i \in 1..2 : i = 1 \/ i = 2
    OBVIOUS
  <2>3. Bare(s) <=> d[1] \in Links
    BY <1>3, <2>1, <2>2 DEF Bare
  <2>4. Piece(t, s)'
    BY <1>3, <2>1, <2>2 DEF Piece, Chained, Succeeds
  <2> QED
    BY <2>1, <2>3, <2>4
<1> QED
  BY <1>1, <1>2, <1>3

(* A run row is inserted before the item is closed for review.               *)
LEMMA Ahead ==
  ASSUME NEW c, NEW s, Good(s)', Legal(c)', Named(c)', Reached(c)', Foremost(c)',
         \A i \in 1..Len(s) : Simple(s[i]) /\ ~Waits(s[i]),
         NEW q, q = <<c>> \o s
  PROVE  Good(q)'
<1>1. Sequenced(s) /\ Lawful(s)'
  BY DEF Good
<1>2. Sequenced(<<c>>) /\ Len(<<c>>) = 1 /\ <<c>>[1] = c
  BY Tuples
<1>3. /\ Sequenced(q) /\ Len(q) = 1 + Len(s) /\ Len(s) \in Nat
      /\ \A i \in 1..(1 + Len(s)) : q[i] = IF i <= 1 THEN c ELSE s[i - 1]
  <2>1. /\ Sequenced(q) /\ Len(q) = Len(<<c>>) + Len(s) /\ Len(s) \in Nat
        /\ \A i \in 1..(Len(<<c>>) + Len(s)) : q[i] = IF i <= Len(<<c>>) THEN <<c>>[i] ELSE s[i - Len(<<c>>)]
    BY <1>1, <1>2, Concatenated
  <2> QED
    BY <1>2, <2>1
<1>4. q[1] = c
  <2>1. 1 \in 1..(1 + Len(s))
    BY <1>3
  <2> QED
    BY <1>3, <2>1
<1>5. ASSUME NEW i \in 1..Len(q), i # 1
      PROVE  Simple(q[i]) /\ ~Waits(q[i]) /\ \A d : d = q[i] => Legal(d)' /\ Named(d)'
  <2>1. i - 1 \in 1..Len(s) /\ q[i] = s[i - 1]
    BY <1>3, <1>5
  <2> QED
    BY <1>1, <2>1 DEF Lawful
<1>6. Placed(q)' /\ Lawful(q)' /\ Tame(q)'
  <2>1. Placed(q)' /\ Lawful(q)'
    BY <1>4, <1>5 DEF Placed, Lawful, Simple
  <2>2. ASSUME NEW i \in 1..Len(q), Waits(q[i])'
        PROVE  1..(i - 1) = {}
    <3>1. i = 1
      BY <1>5, <2>2 DEF Waits
    <3> QED
      BY <3>1
  <2> QED
    BY <2>1, <2>2 DEF Tame
<1>7. Strung(q)'
  <2>1. ASSUME NEW i \in 1..Len(q), Chained(q[i])'
        PROVE  i = 1
    <3>1. Chained(q[i])
      BY <2>1 DEF Chained, Succeeds
    <3> QED
      BY <1>5, <3>1 DEF Simple
  <2>2. \A i \in 1..Len(q) : i = 1 => 1..(i - 1) = {}
    OBVIOUS
  <2> QED
    BY <2>1, <2>2 DEF Strung
<1>8. Fronted(q)'
  BY <1>4 DEF Fronted
<1> QED
  BY <1>3, <1>6, <1>7, <1>8 DEF Good

LEMMA ClosesGood ==
  ASSUME NEW t \in Tools, NEW status \in TerminalStatuses \ {"succeeded"},
         item[t].run = 0 => NotSucceeded(t)',
         NEW q, q = CompleteWithoutLeaf(t, status)
  PROVE  Good(q)' /\ Calmly(q)'
<1> PICK c, d, s : c = Call("finish", t, status) /\ d = Call("route", t, status) /\ s = <<c, d>>
  OBVIOUS
<1>1. /\ c[1] = "finish" /\ c[2] = t /\ c[3] = status /\ d[1] = "route" /\ d[2] = t
      /\ Sequenced(s) /\ Len(s) = 2 /\ s[1] = c /\ s[2] = d
  BY Tuples DEF Call
<1>2. Legal(c)' /\ Legal(d)' /\ Calm(c)' /\ Calm(d)'
  BY <1>1 DEF Legal, KeyCalls, FullCalls, Begins, Calm, CalmNames, Links
<1>3. Simple(c) /\ Simple(d) /\ ~Waits(c) /\ ~Waits(d)
  BY <1>1 DEF Simple, Chained, Links, Succeeds, Waits, Begins
<1>4. ~Waits(d)'
  BY <1>1 DEF Waits, Begins
<1>5. Good(s)'
  BY <1>2, <1>3, <1>4, Both
<1>6. Calmly(s)'
  BY <1>2, CalmTuples
<1>7. CASE item[t].run # 0
  <2>1. q = <<>> \o s
    BY <1>7 DEF CompleteWithoutLeaf
  <2>2. q = s
    BY <1>1, <2>1, ConcatEmptySeq DEF Sequenced
  <2> QED
    BY <1>5, <1>6, <2>2
<1>8. CASE item[t].run = 0
  <2> PICK a, p : a = Call("insertRun", t, IF status = "needs_review" THEN "partial" ELSE status) /\ p = <<a>>
    OBVIOUS
  <2>1. a[1] = "insertRun" /\ a[2] = t /\ Sequenced(p)
    BY Tuples DEF Call
  <2>2. q = <<a>> \o s
    BY <1>8 DEF CompleteWithoutLeaf
  <2>3. Legal(a)' /\ Named(a)' /\ Calm(a)' /\ Foremost(a)'
    BY <2>1 DEF Legal, KeyCalls, FullCalls, Begins, Calm, CalmNames, Links, Named, Succeeds, Foremost
  <2>4. Reached(a)'
    BY <1>8, <2>1 DEF Reached
  <2>5. \A i \in 1..Len(s) : Simple(s[i]) /\ ~Waits(s[i])
    <3>1. \A i \in 1..2 : i = 1 \/ i = 2
      OBVIOUS
    <3> QED
      BY <1>1, <1>3, <3>1
  <2>6. Good(q)'
    BY <1>5, <2>2, <2>3, <2>4, <2>5, Ahead
  <2>7. Calmly(p)'
    BY <2>3, CalmTuples
  <2>8. \A z : z = p \o s => Calmly(z)'
    BY <1>1, <1>6, <2>1, <2>7, CalmConcatenated
  <2> QED
    BY <2>2, <2>6, <2>8
<1> QED
  BY <1>7, <1>8

LEMMA PieceTriple ==
  ASSUME NEW t, NEW c, NEW d, NEW e, NEW s, s = <<c, d, e>>,
         Legal(c)', Named(c)', Legal(d)', Named(d)', Legal(e)', Named(e)', c[2] = t, d[2] = t, e[2] = t,
         c[1] \in Links, d[1] \in Links, e[1] \in Links \cup {"finish"},
         Linked(c, d)', Chained(e) => Linked(d, e)'
  PROVE  Piece(t, s)' /\ s # <<>> /\ s[1] = c /\ s[Len(s)] = e
<1>1. Len(s) = 3 /\ Sequenced(s) /\ s[1] = c /\ s[2] = d /\ s[3] = e /\ s # <<>>
  BY Tuples
<1>2. \A i \in 1..3 : i = 1 \/ i = 2 \/ i = 3
  OBVIOUS
<1>3. Piece(t, s)'
  BY <1>1, <1>2 DEF Piece, Chained, Succeeds
<1> QED
  BY <1>1, <1>3

LEMMA CalmTriple ==
  ASSUME NEW c, NEW d, NEW e, NEW s, s = <<c, d, e>>, Calm(c)', Calm(d)', Calm(e)'
  PROVE  Calmly(s)'
<1>1. Len(s) = 3 /\ s[1] = c /\ s[2] = d /\ s[3] = e
  BY Tuples
<1>2. \A i \in 1..3 : i = 1 \/ i = 2 \/ i = 3
  OBVIOUS
<1> QED
  BY <1>1, <1>2 DEF Calmly

LEMMA PieceAlone ==
  ASSUME NEW t, NEW c, NEW s, s = <<c>>, Legal(c)', Named(c)', c[2] = t, c[1] \in Links \cup {"finish"}
  PROVE  /\ Piece(t, s)' /\ (c[1] \in Links => Bare(s)) /\ s # <<>> /\ s[1] = c /\ s[Len(s)] = c
         /\ Calm(c)' => Calmly(s)'
BY PieceTuples, CalmTuples

LEMMA PieceNone ==
  ASSUME NEW t, NEW s, s = <<>>
  PROVE  Piece(t, s)' /\ Bare(s) /\ Calmly(s)'
<1>1. Len(s) = 0
  BY Tuples
<1> QED
  BY <1>1, PieceTuples, CalmTuples

LEMMA PiecePair ==
  ASSUME NEW t, NEW c, NEW d, NEW s, s = <<c, d>>, Legal(c)', Named(c)', Legal(d)', Named(d)',
         c[2] = t, d[2] = t, c[1] \in Links, d[1] \in Links, Linked(c, d)'
  PROVE  /\ Piece(t, s)' /\ Bare(s) /\ s # <<>> /\ s[1] = c /\ s[Len(s)] = d
         /\ Calm(c)' /\ Calm(d)' => Calmly(s)'
BY PieceTuples, CalmTuples

LEMMA PiecesJoined ==
  ASSUME NEW t, NEW A, NEW B, NEW C, NEW D, Piece(t, A)', Piece(t, B)', Piece(t, C)', Piece(t, D)',
         Bare(A), Bare(B), Bare(C), B # <<>>, D # <<>>,
         A # <<>> => Linked(A[Len(A)], B[1])',
         C # <<>> => Linked(B[Len(B)], C[1])' /\ Linked(C[Len(C)], D[1])',
         C = <<>> => Linked(B[Len(B)], D[1])',
         NEW q, q = A \o B \o C \o D
  PROVE  Piece(t, q)' /\ q # <<>> /\ q[1] = IF A = <<>> THEN B[1] ELSE A[1]
<1> PICK AB, ABC : AB = A \o B /\ ABC = AB \o C
  OBVIOUS
<1>1. q = ABC \o D
  OBVIOUS
<1>2. /\ Piece(t, AB)' /\ Bare(AB) /\ AB # <<>> /\ AB[Len(AB)] = B[Len(B)]
      /\ AB[1] = IF A = <<>> THEN B[1] ELSE A[1]
  <2>1. Piece(t, AB)'
    BY PieceJoined
  <2>2. Bare(AB)
    BY PieceJoined
  <2>3. AB # <<>> /\ AB[Len(AB)] = B[Len(B)]
    BY PieceJoined
  <2>4. A = <<>> => AB = B
    BY PieceJoined
  <2>5. A # <<>> => AB[1] = A[1]
    BY PieceJoined
  <2> QED
    BY <2>1, <2>2, <2>3, <2>4, <2>5
<1>3. /\ Piece(t, ABC)' /\ Bare(ABC) /\ ABC # <<>> /\ ABC[1] = AB[1]
      /\ ABC[Len(ABC)] = IF C = <<>> THEN B[Len(B)] ELSE C[Len(C)]
  <2>1. C # <<>> => Linked(AB[Len(AB)], C[1])'
    BY <1>2
  <2>2. Piece(t, ABC)'
    BY <1>2, <2>1, PieceJoined
  <2>3. Bare(ABC)
    BY <1>2, <2>1, PieceJoined
  <2>4. ABC # <<>> /\ ABC[1] = AB[1]
    BY <1>2, <2>1, PieceJoined
  <2>5. C # <<>> => ABC[Len(ABC)] = C[Len(C)]
    BY <1>2, <2>1, PieceJoined
  <2>6. C = <<>> => ABC = AB
    BY <1>2, <2>1, PieceJoined
  <2> QED
    BY <1>2, <2>2, <2>3, <2>4, <2>5, <2>6
<1>4. Piece(t, q)' /\ q # <<>> /\ q[1] = AB[1]
  <2>1. Linked(ABC[Len(ABC)], D[1])'
    BY <1>3
  <2>2. Piece(t, q)'
    BY <1>1, <1>3, <2>1, PieceJoined
  <2>3. q # <<>> /\ q[1] = ABC[1]
    BY <1>1, <1>3, <2>1, PieceJoined
  <2> QED
    BY <1>3, <2>2, <2>3
<1> QED
  BY <1>2, <1>4

LEMMA CalmJoined ==
  ASSUME NEW A, NEW B, NEW C, NEW D, Sequenced(A), Sequenced(B), Sequenced(C), Sequenced(D),
         Calmly(A)', Calmly(B)', Calmly(C)', Calmly(D)', NEW q, q = A \o B \o C \o D
  PROVE  Calmly(q)'
<1> PICK AB, ABC : AB = A \o B /\ ABC = AB \o C
  OBVIOUS
<1>1. Sequenced(AB) /\ Sequenced(ABC) /\ q = ABC \o D
  BY Concatenated
<1>2. \A z : z = A \o B => Calmly(z)'
  BY CalmConcatenated
<1>3. Calmly(AB)'
  BY <1>2
<1>4. \A z : z = AB \o C => Calmly(z)'
  BY <1>1, <1>3, CalmConcatenated
<1>5. Calmly(ABC)'
  BY <1>4
<1>6. \A z : z = ABC \o D => Calmly(z)'
  BY <1>1, <1>5, CalmConcatenated
<1> QED
  BY <1>1, <1>6

(* The run row of an item that has none.                                     *)
LEMMA RunRow ==
  ASSUME NEW t \in Tools, NEW status, NEW A, NotSucceeded(t), UNCHANGED item,
         A = IF item[t].run = 0 THEN <<Call("insertRun", t, status), Call("checkpointRun", t, "none")>> ELSE <<>>
  PROVE  /\ Piece(t, A)' /\ Bare(A) /\ Calmly(A)'
         /\ A = <<>> \/ (A # <<>> /\ Reached(A[1])' /\ A[Len(A)][1] = "checkpointRun")
         /\ A = <<>> => item[t].run # 0
<1>1. CASE item[t].run = 0
  <2> PICK c, d : c = Call("insertRun", t, status) /\ d = Call("checkpointRun", t, "none")
    OBVIOUS
  <2>1. A = <<c, d>> /\ c[1] = "insertRun" /\ c[2] = t /\ d[1] = "checkpointRun" /\ d[2] = t
    BY <1>1 DEF Call
  <2>2. Legal(c)' /\ Legal(d)' /\ Named(c)' /\ Named(d)' /\ Calm(c)' /\ Calm(d)'
    BY <2>1 DEF Legal, KeyCalls, FullCalls, Begins, Calm, CalmNames, Links, Named, Succeeds
  <2>3. Linked(c, d)' /\ c[1] \in Links /\ d[1] \in Links
    BY <2>1 DEF Linked, Links, Succeeds
  <2>4. Reached(c)'
    BY <2>1 DEF Reached, NotSucceeded
  <2>5. Piece(t, A)' /\ Bare(A) /\ A # <<>> /\ A[1] = c /\ A[Len(A)] = d /\ Calmly(A)'
    BY <2>1, <2>2, <2>3, PiecePair
  <2> QED
    BY <2>1, <2>4, <2>5
<1>2. CASE item[t].run # 0
  <2>1. A = <<>>
    BY <1>2
  <2> QED
    BY <1>2, <2>1, PieceNone
<1> QED
  BY <1>1, <1>2

LEMMA FinalizesFull ==
  ASSUME NEW t \in Tools, Booked(t), NotSucceeded(t), ~CapabilityOnly(t), Eligible(t), Sequenced(runs[t]),
         NEW failed \in BOOLEAN, UNCHANGED <<item, req, assign, runs>>,
         NEW q, q = FinalizeFull(t, failed)
  PROVE  Good(q)' /\ (failed => Calmly(q)')
<1> PICK status, answered :
      status = (IF failed THEN "partial" ELSE "succeeded") /\ answered = (item[t].cap # "none")
  OBVIOUS
<1> PICK A, B, C, D, b, c, d, e, f :
      /\ A = IF item[t].run = 0
               THEN <<Call("insertRun", t, "partial"), Call("checkpointRun", t, "none")>> ELSE <<>>
      /\ b = Call("readManual", t, item[t].leaf) /\ B = <<b>>
      /\ c = Call("upsertCapability", t, item[t].cap) /\ C = IF item[t].cap \in Capabilities THEN <<c>> ELSE <<>>
      /\ d = Call("supersede", t, IF answered THEN Terms ELSE Markets) /\ e = Call("setRun", t, status)
      /\ f = Call("finish", t, status) /\ D = <<d, e, f>>
  OBVIOUS
<1>1. q = A \o B \o C \o D
  BY DEF FinalizeFull
<1>2. /\ Piece(t, A)' /\ Bare(A) /\ Calmly(A)'
      /\ A = <<>> \/ (A # <<>> /\ Reached(A[1])' /\ A[Len(A)][1] = "checkpointRun")
      /\ A = <<>> => item[t].run # 0
  BY RunRow
<1>3. /\ b[1] = "readManual" /\ b[2] = t /\ b[3] = item[t].leaf
      /\ c[1] = "upsertCapability" /\ c[2] = t /\ c[3] = item[t].cap
      /\ d[1] = "supersede" /\ d[2] = t /\ e[1] = "setRun" /\ e[2] = t /\ e[3] = status
      /\ f[1] = "finish" /\ f[2] = t /\ f[3] = status
  BY DEF Call
<1>4. status \in TerminalStatuses
  BY DEF TerminalStatuses
<1>5. Legal(b)' /\ Legal(c)' /\ Legal(d)' /\ Legal(e)' /\ Legal(f)'
  BY <1>3, <1>4 DEF Legal, KeyCalls, FullCalls, Begins
<1>6. /\ Named(b)' /\ Named(d)' /\ Named(e)' /\ Named(f)'
      /\ item[t].cap \in Capabilities => Named(c)'
  BY <1>3 DEF Named, Eligible, CapabilityOnly, Succeeds
<1>7. /\ Piece(t, B)' /\ Bare(B) /\ B # <<>> /\ B[1] = b /\ B[Len(B)] = b /\ Calmly(B)'
  <2>1. Calm(b)' /\ b[1] \in Links
    BY <1>3 DEF Calm, CalmNames, Links
  <2>2. B = <<b>>
    OBVIOUS
  <2> QED
    BY <1>3, <1>5, <1>6, <2>1, <2>2, PieceAlone
<1>8. /\ Piece(t, C)' /\ Bare(C) /\ Calmly(C)'
      /\ IF item[t].cap \in Capabilities THEN C # <<>> /\ C[1] = c /\ C[Len(C)] = c ELSE C = <<>>
  <2>1. CASE item[t].cap \in Capabilities
    <3>1. Calm(c)' /\ c[1] \in Links
      BY <1>3 DEF Calm, CalmNames, Links
    <3>2. C = <<c>>
      BY <2>1
    <3> QED
      BY <1>3, <1>5, <1>6, <2>1, <3>1, <3>2, PieceAlone
  <2>2. CASE item[t].cap \notin Capabilities
    <3>1. C = <<>>
      BY <2>2
    <3> QED
      BY <2>2, <3>1, PieceNone
  <2> QED
    BY <2>1, <2>2
<1>9. /\ Piece(t, D)' /\ D # <<>> /\ D[1] = d /\ (failed => Calmly(D)')
  <2>1. Linked(d, e)' /\ (Chained(f) => Linked(e, f)')
    BY <1>3 DEF Linked, Chained, Links, Succeeds
  <2>2. Calm(d)' /\ Calm(e)' /\ (failed => Calm(f)')
    BY <1>3 DEF Calm, CalmNames, Links
  <2>3. Piece(t, D)' /\ D # <<>> /\ D[1] = d
    BY <1>3, <1>5, <1>6, <2>1, PieceTriple DEF Links
  <2> QED
    BY <2>2, <2>3, CalmTriple
<1>10. /\ A # <<>> => Linked(A[Len(A)], B[1])'
       /\ C # <<>> => Linked(B[Len(B)], C[1])' /\ Linked(C[Len(C)], D[1])'
       /\ C = <<>> => Linked(B[Len(B)], D[1])'
  <2>1. \A p : p[1] = "checkpointRun" => Linked(p, b)'
    BY <1>3 DEF Linked, Succeeds
  <2>2. Linked(b, c)' /\ Linked(c, d)'
    BY <1>3 DEF Linked, Succeeds
  <2>3. item[t].cap \notin Capabilities => Linked(b, d)'
    BY <1>3 DEF Linked, Succeeds, Uncapable
  <2> QED
    BY <1>2, <1>7, <1>8, <1>9, <2>1, <2>2, <2>3
<1>11. /\ Piece(t, q)' /\ q # <<>> /\ q[1] = IF A = <<>> THEN B[1] ELSE A[1]
       /\ Calmly(A)' /\ Calmly(B)' /\ Calmly(C)' /\ Calmly(D)' => Calmly(q)'
  <2>0. /\ Piece(t, A)' /\ Piece(t, B)' /\ Piece(t, C)' /\ Piece(t, D)' /\ Bare(A) /\ Bare(B) /\ Bare(C)
        /\ B # <<>> /\ D # <<>> /\ q = A \o B \o C \o D
    BY <1>1, <1>2, <1>7, <1>8, <1>9
  <2>1. Piece(t, q)'
    BY ONLY <1>10, <2>0, PiecesJoined
  <2>2. q # <<>> /\ q[1] = IF A = <<>> THEN B[1] ELSE A[1]
    BY <1>1, <1>2, <1>7, <1>8, <1>9, <1>10, PiecesJoined
  <2>3. Calmly(A)' /\ Calmly(B)' /\ Calmly(C)' /\ Calmly(D)' => Calmly(q)'
    <3>1. Sequenced(A) /\ Sequenced(B) /\ Sequenced(C) /\ Sequenced(D)
      BY <2>0 DEF Piece
    <3>2. ASSUME Calmly(A)', Calmly(B)', Calmly(C)', Calmly(D)'
          PROVE  Calmly(q)'
      BY ONLY <2>0, <3>1, <3>2, CalmJoined
    <3> QED
      BY <3>2
  <2> QED
    BY <2>1, <2>2, <2>3
<1>12. Reached(q[1])'
  <2>1. CASE A # <<>>
    BY <1>2, <1>11, <2>1
  <2>2. CASE A = <<>>
    <3>1. item[t].run \in 1..Len(runs[t])
      <4>1. Len(runs[t]) \in Nat
        BY LenProperties DEF Sequenced
      <4> QED
        BY <1>2, <2>2, <4>1 DEF Booked
    <3>2. q[1] = b
      BY <1>7, <1>11, <2>2
    <3> QED
      BY <1>3, <3>1, <3>2 DEF Reached, NotSucceeded, Opened
  <2> QED
    BY <2>1, <2>2
<1>13. Good(q)'
  BY <1>11, <1>12, PieceIsGood
<1> QED
  BY <1>2, <1>7, <1>8, <1>9, <1>11, <1>13

LEMMA PiecesCoupled ==
  ASSUME NEW t, NEW A, NEW C, NEW D, Piece(t, A)', Piece(t, C)', Piece(t, D)', Bare(A), Bare(C), D # <<>>,
         A # <<>> /\ C # <<>> => Linked(A[Len(A)], C[1])',
         C # <<>> => Linked(C[Len(C)], D[1])',
         C = <<>> => ~Chained(D[1]),
         NEW q, q = A \o C \o D
  PROVE  /\ Piece(t, q)' /\ q # <<>>
         /\ q[1] = IF A # <<>> THEN A[1] ELSE IF C # <<>> THEN C[1] ELSE D[1]
<1> PICK AC : AC = A \o C
  OBVIOUS
<1>1. q = AC \o D
  OBVIOUS
<1>2. Piece(t, AC)' /\ Bare(AC)
  <2>1. Piece(t, AC)'
    BY PieceJoined
  <2>2. Bare(AC)
    BY PieceJoined
  <2> QED
    BY <2>1, <2>2
<1>3. /\ A = <<>> => AC = C
      /\ C = <<>> => AC = A
      /\ A # <<>> => AC # <<>> /\ AC[1] = A[1]
      /\ C # <<>> => AC # <<>> /\ AC[Len(AC)] = C[Len(C)]
  <2>1. A = <<>> => AC = C
    BY PieceJoined
  <2>2. C = <<>> => AC = A
    BY PieceJoined
  <2>3. A # <<>> => AC # <<>> /\ AC[1] = A[1]
    BY PieceJoined
  <2>4. C # <<>> => AC # <<>> /\ AC[Len(AC)] = C[Len(C)]
    BY PieceJoined
  <2> QED
    BY <2>1, <2>2, <2>3, <2>4
<1>4. AC # <<>> /\ D # <<>> /\ Chained(D[1]) => Linked(AC[Len(AC)], D[1])'
  BY <1>3
<1>5. Piece(t, q)' /\ q # <<>>
  <2>1. Piece(t, q)'
    BY <1>1, <1>2, <1>4, PieceJoined
  <2>2. q # <<>>
    BY <1>1, <1>2, <1>4, PieceJoined
  <2> QED
    BY <2>1, <2>2
<1>6. q[1] = IF A # <<>> THEN A[1] ELSE IF C # <<>> THEN C[1] ELSE D[1]
  <2>1. AC = <<>> => q = D
    BY <1>1, <1>2, <1>4, PieceJoined
  <2>2. AC # <<>> => q[1] = AC[1]
    BY <1>1, <1>2, <1>4, PieceJoined
  <2> QED
    BY <1>3, <2>1, <2>2
<1> QED
  BY <1>5, <1>6

LEMMA CalmCoupled ==
  ASSUME NEW A, NEW C, NEW D, Sequenced(A), Sequenced(C), Sequenced(D),
         Calmly(A)', Calmly(C)', Calmly(D)', NEW q, q = A \o C \o D
  PROVE  Calmly(q)'
<1> PICK AC : AC = A \o C
  OBVIOUS
<1>1. Sequenced(AC) /\ q = AC \o D
  BY Concatenated
<1>2. \A z : z = A \o C => Calmly(z)'
  BY CalmConcatenated
<1>3. Calmly(AC)'
  BY <1>2
<1>4. \A z : z = AC \o D => Calmly(z)'
  BY <1>1, <1>3, CalmConcatenated
<1> QED
  BY <1>1, <1>4

LEMMA FinalizesCapability ==
  ASSUME NEW t \in Tools, Booked(t), NotSucceeded(t), CapabilityOnly(t), Sequenced(runs[t]),
         NEW failed \in BOOLEAN, failed \/ Uncapable(t) \/ Unasked(t), UNCHANGED <<item, req, assign, runs>>,
         NEW q, q = FinalizeCapabilityOnly(t, failed)
  PROVE  Good(q)' /\ (failed \/ Uncapable(t) => Calmly(q)')
<1> PICK found, status :
      /\ found = (item[t].cap \in Capabilities)
      /\ status = (IF failed THEN "failed" ELSE IF found THEN "succeeded" ELSE "partial")
  OBVIOUS
<1> PICK first, A, C, D, c, d, e, f :
      /\ first = (IF found THEN "partial" ELSE status)
      /\ A = IF item[t].run = 0
               THEN <<Call("insertRun", t, first), Call("checkpointRun", t, "none")>> ELSE <<>>
      /\ c = Call("upsertCapability", t, item[t].cap)
      /\ d = Call("supersede", t, Capabilities) /\ e = Call("setRun", t, status)
      /\ C = (IF found THEN <<c, d, e>> ELSE <<>>)
      /\ f = Call("finish", t, status) /\ D = <<f>>
  OBVIOUS
<1>1. q = A \o C \o D
  BY DEF FinalizeCapabilityOnly
<1>2. /\ Piece(t, A)' /\ Bare(A) /\ Calmly(A)'
      /\ A = <<>> \/ (A # <<>> /\ Reached(A[1])' /\ A[Len(A)][1] = "checkpointRun")
      /\ A = <<>> => item[t].run # 0
  BY RunRow
<1>3. /\ c[1] = "upsertCapability" /\ c[2] = t /\ c[3] = item[t].cap
      /\ d[1] = "supersede" /\ d[2] = t /\ e[1] = "setRun" /\ e[2] = t /\ e[3] = status
      /\ f[1] = "finish" /\ f[2] = t /\ f[3] = status
  BY DEF Call
<1>4. /\ status \in TerminalStatuses
      /\ (failed \/ ~found => status # "succeeded") /\ (found <=> ~Uncapable(t))
  BY DEF TerminalStatuses, Uncapable
<1>5. Legal(c)' /\ Legal(d)' /\ Legal(e)' /\ Legal(f)'
  BY <1>3, <1>4 DEF Legal, KeyCalls, FullCalls, Begins
<1>6. /\ Named(d)' /\ Named(e)'
      /\ found => Named(c)'
  BY <1>3, <1>4 DEF Named, CapabilityOnly, Succeeds
<1>7. Named(f)'
  <2>1. status = "succeeded" => Unasked(t)
    BY <1>4
  <2>2. status = "succeeded" => Unasked(t)'
    BY <2>1 DEF Unasked
  <2> QED
    BY <1>3, <2>2 DEF Named, Succeeds
<1>8. /\ Piece(t, C)' /\ Bare(C) /\ Calmly(C)'
      /\ IF found THEN C # <<>> /\ C[1] = c /\ C[Len(C)] = e ELSE C = <<>>
  <2>1. CASE found
    <3>1. Calm(c)' /\ Calm(d)' /\ Calm(e)' /\ c[1] \in Links /\ d[1] \in Links /\ e[1] \in Links
      BY <1>3 DEF Calm, CalmNames, Links
    <3>2. C = <<c, d, e>> /\ Linked(c, d)' /\ Linked(d, e)'
      BY <1>3, <2>1 DEF Linked, Succeeds
    <3>3. Piece(t, C)' /\ C # <<>> /\ C[1] = c /\ C[Len(C)] = e
      BY <1>3, <1>5, <1>6, <2>1, <3>1, <3>2, PieceTriple
    <3>4. Calmly(C)'
      BY <3>1, <3>2, CalmTriple
    <3>5. Bare(C)
      <4>1. Len(C) = 3 /\ C[1] = c /\ C[2] = d /\ C[3] = e
        BY <3>2, Tuples
      <4>2. \A i \in 1..3 : i = 1 \/ i = 2 \/ i = 3
        OBVIOUS
      <4> QED
        BY <3>1, <4>1, <4>2 DEF Bare
    <3> QED
      BY <2>1, <3>3, <3>4, <3>5
  <2>2. CASE ~found
    <3>1. C = <<>>
      BY <2>2
    <3> QED
      BY <2>2, <3>1, PieceNone
  <2> QED
    BY <2>1, <2>2
<1>9. /\ Piece(t, D)' /\ D # <<>> /\ D[1] = f /\ (failed \/ ~found => Calmly(D)')
  <2>1. failed \/ ~found => Calm(f)'
    BY <1>3, <1>4 DEF Calm
  <2>2. D = <<f>>
    OBVIOUS
  <2> QED
    BY <1>3, <1>5, <1>7, <2>1, <2>2, PieceAlone
<1>10. /\ A # <<>> /\ C # <<>> => Linked(A[Len(A)], C[1])'
       /\ C # <<>> => Linked(C[Len(C)], D[1])'
       /\ C = <<>> => ~Chained(D[1])
  <2>1. \A p : p[1] = "checkpointRun" => Linked(p, c)'
    BY <1>3 DEF Linked, Succeeds, CapabilityOnly
  <2>2. Linked(e, f)'
    BY <1>3 DEF Linked, Succeeds
  <2>3. ~found => ~Chained(f)
    BY <1>3, <1>4 DEF Chained, Links, Succeeds
  <2> QED
    BY <1>2, <1>8, <1>9, <2>1, <2>2, <2>3
<1>11. /\ Piece(t, q)' /\ q # <<>>
       /\ q[1] = IF A # <<>> THEN A[1] ELSE IF C # <<>> THEN C[1] ELSE D[1]
  <2>0. /\ Piece(t, A)' /\ Piece(t, C)' /\ Piece(t, D)' /\ Bare(A) /\ Bare(C)
        /\ D # <<>> /\ q = A \o C \o D
    BY <1>1, <1>2, <1>8, <1>9
  <2>1. Piece(t, q)'
    BY ONLY <1>10, <2>0, PiecesCoupled
  <2>2. /\ q # <<>>
        /\ q[1] = IF A # <<>> THEN A[1] ELSE IF C # <<>> THEN C[1] ELSE D[1]
    BY ONLY <1>10, <2>0, PiecesCoupled
  <2> QED
    BY <2>1, <2>2
<1>12. Reached(q[1])'
  <2>1. CASE A # <<>>
    BY <1>2, <1>11, <2>1
  <2>2. CASE A = <<>> /\ C # <<>>
    <3>1. item[t].run \in 1..Len(runs[t])
      <4>1. Len(runs[t]) \in Nat
        BY LenProperties DEF Sequenced
      <4> QED
        BY <1>2, <2>2, <4>1 DEF Booked
    <3>2. q[1] = c
      BY <1>8, <1>11, <2>2
    <3> QED
      BY <1>3, <3>1, <3>2 DEF Reached, NotSucceeded, Opened, Chosen, CapabilityOnly
  <2>3. CASE A = <<>> /\ C = <<>>
    <3>1. q[1] = f /\ ~Chained(f)
      BY <1>9, <1>10, <1>11, <2>3
    <3> QED
      BY <3>1 DEF Reached, Chained, Succeeds
  <2> QED
    BY <2>1, <2>2, <2>3
<1>13. Good(q)'
  BY <1>11, <1>12, PieceIsGood
<1>14. ASSUME failed \/ Uncapable(t)
       PROVE  Calmly(q)'
  <2>1. Calmly(A)' /\ Calmly(C)' /\ Calmly(D)'
    BY <1>2, <1>4, <1>8, <1>9, <1>14
  <2>2. Sequenced(A) /\ Sequenced(C) /\ Sequenced(D)
    BY <1>2, <1>8, <1>9 DEF Piece
  <2> QED
    BY ONLY <1>1, <2>1, <2>2, CalmCoupled
<1> QED
  BY <1>13, <1>14

(* A call that is neither written down nor part of a closing stands alone.   *)
LEMMA HeadAlone ==
  ASSUME Good(todo), todo # <<>>, ~Chained(todo[1]), todo[1][1] # "record"
  PROVE  \A i \in 2..Len(todo) : todo[i][1] # "react" /\ ~Chained(todo[i])
<1> SUFFICES ASSUME NEW i \in 2..Len(todo)
             PROVE  todo[i][1] # "react" /\ ~Chained(todo[i])
  OBVIOUS
<1>1. i \in 1..Len(todo) /\ i # 1 /\ 1 \in 1..(i - 1) /\ Len(todo) \in Nat
  BY IsSequence DEF Good, Sequenced
<1>2. ~Chained(todo[i])
  BY <1>1 DEF Good, Strung
<1>3. todo[i][1] # "react"
  <2> SUFFICES ASSUME todo[i][1] = "react"
               PROVE  FALSE
    OBVIOUS
  <2>1. i = 2 /\ todo[1] = Call("record", todo[2][2], todo[2][3])
    BY <1>1 DEF Good, Placed
  <2> QED
    BY <2>1 DEF Call
<1> QED
  BY <1>2, <1>3

(* No item succeeds and none gets a capability.                              *)
Kept == \A t \in Tools : (NotSucceeded(t) => NotSucceeded(t)') /\ (Uncapable(t) => Uncapable(t)')

(* A call that waits stays in order while the head is a calm one.            *)
LEMMA LegalStays ==
  ASSUME Good(todo), Requests, DOMAIN req \subseteq DOMAIN req', Calm(todo[1]) => Kept, NEW c, Later(c)
  PROVE  Legal(c)'
<1>1. PICK i \in 2..Len(todo) : todo[i] = c
  BY DEF Later
<1>2. i \in 1..Len(todo) /\ 1 \in 1..(i - 1)
  BY IsSequence DEF Good, Sequenced
<1>3. Legal(c)
  BY <1>1, <1>2 DEF Good, Lawful
<1>4. Waits(c) => Kept
  BY <1>1, <1>2 DEF Good, Tame
<1>5. c[1] \in KeyCalls => c[2] \in DOMAIN req'
  BY <1>3 DEF Legal
<1>6. CASE c[1] \in Begins
  <2>1. Kept /\ c[2] \in Tools
    BY <1>3, <1>4, <1>6 DEF Waits, Legal, ToolCalls
  <2>2. c[1] \notin {"fail", "finish", "enter"} /\ c[1] \notin FullCalls
    BY <1>6 DEF Begins, FullCalls
  <2>3. CapabilityOnly(c[2]) => NotSucceeded(c[2])' /\ (c[1] \in {"create", "seedRow"} => Uncapable(c[2])')
    BY <1>3, <1>6, <2>1 DEF Kept, Legal
  <2> QED
    BY <1>3, <1>5, <2>1, <2>2, <2>3 DEF Legal, CapabilityOnly
<1>7. CASE c[1] = "fail"
  <2>1. Kept /\ c[2] \in DOMAIN req
    BY <1>3, <1>4, <1>7 DEF Waits, Legal, KeyCalls
  <2>2. c[2][1] \in Tools
    BY <2>1 DEF Requests
  <2>3. CapabilityOnly(c[2][1]) => NotSucceeded(c[2][1])'
    BY <1>3, <1>7, <2>1, <2>2 DEF Kept, Legal
  <2> QED
    BY <1>5, <1>7, <2>3 DEF Legal, CapabilityOnly, ToolCalls, FullCalls, Begins, Links
<1>8. CASE c[1] \notin Begins /\ c[1] # "fail"
  BY <1>3, <1>5, <1>8 DEF Legal, CapabilityOnly, Begins
<1> QED
  BY <1>6, <1>7, <1>8

(* The head makes room for calls that are in order.                          *)
LEMMA Proceeds ==
  ASSUME Listing, Good(todo), Requests, todo # <<>>, ~Chained(todo[1]), todo[1][1] # "record",
         DOMAIN req \subseteq DOMAIN req', NEW s, Good(s)', todo' = s \o Tail(todo),
         Calm(todo[1]) => Kept /\ Calmly(s)'
  PROVE  Good(todo)'
<1>1. Sequenced(s)
  BY DEF Good, Sequenced
<1>2. Resumed(s, 2)
  BY <1>1, ResumedNext
<1>3. \A i \in 2..Len(todo) : todo[i][1] # "react" /\ ~Chained(todo[i])
  BY HeadAlone
<1>4. \A c : Later(c) => Legal(c)'
  BY LegalStays
<1>5. (\E i \in 2..Len(todo) : Waits(todo[i])) => \A i \in 1..Len(s) : Calm(s[i])'
  <2>1. SUFFICES ASSUME NEW i \in 2..Len(todo), Waits(todo[i])
                 PROVE  Calm(todo[1])
    BY <2>1 DEF Calmly
  <2>2. i \in 1..Len(todo) /\ 1 \in 1..(i - 1)
    BY IsSequence DEF Good, Sequenced
  <2> QED
    BY <2>1, <2>2 DEF Good, Tame
<1>6. \A q : q = todo' => Good(q)'
  BY <1>2, <1>3, <1>4, <1>5, Continues
<1> QED
  BY <1>6, GoodNext

(* The head makes room for calls that are about no item.                     *)
LEMMA GoesLoose ==
  ASSUME Listing, Good(todo), Requests, todo # <<>>,
         todo[1][1] \notin CalmNames \cup {"finish", "finalize", "record"},
         DOMAIN req \subseteq DOMAIN req', NEW s, AllLoose(s, DOMAIN req'), todo' = s \o Tail(todo)
  PROVE  Good(todo)'
<1>1. Good(s)'
  BY LooseIsGood
<1>2. ~Chained(todo[1]) /\ ~Calm(todo[1])
  BY DEF Chained, Succeeds, Calm, CalmNames
<1> QED
  BY <1>1, <1>2, Proceeds

(* The process forgets its calls, or goes on with others.                    *)
LEMMA StartsLoose ==
  ASSUME NEW s, AllLoose(s, DOMAIN req'), todo' = s
  PROVE  Good(todo)'
<1>1. Good(s)'
  BY LooseIsGood
<1>2. \A q : q = todo' => Good(q)'
  BY <1>1
<1> QED
  BY <1>2, GoodNext

-----------------------------------------------------------------------------
(* The requests.                                                             *)

(* A finite set of numbers has a largest one.                                *)
LEMMA Largest ==
  ASSUME NEW S, IsFiniteSet(S), S \subseteq Nat, S # {}
  PROVE  \E x \in S : \A y \in S : x >= y
<1> DEFINE Headless(T) == T # {} /\ \A x \in T : \E y \in T : ~(x >= y)
           Bad == {n \in Nat : \E T \in SUBSET S : Cardinality(T) = n /\ Headless(T)}
           R == {pair \in Nat \X Nat : pair[1] < pair[2]}
<1> SUFFICES ASSUME Headless(S)
             PROVE  FALSE
  OBVIOUS
<1>1. Cardinality(S) \in Bad
  BY FS_CardinalityType
<1>2. IsWellFoundedOn(R, Nat)
  BY NatLessThanWellFounded DEF OpToRel
<1> HIDE DEF R
<1>3. PICK n \in Bad : \A y \in Bad : ~ (<<y, n>> \in R)
  <2>1. Bad \subseteq Nat /\ Bad # {}
    BY <1>1
  <2> HIDE DEF Bad
  <2> QED
    BY <1>2, <2>1, WFMin
<1>4. PICK T \in SUBSET S : Cardinality(T) = n /\ Headless(T)
  BY <1>3
<1>5. n \in Nat /\ IsFiniteSet(T)
  BY <1>3, <1>4, FS_Subset
<1>6. PICK x \in T : TRUE
  BY <1>4
<1> DEFINE U == T \ {x}
<1>7. IsFiniteSet(U) /\ Cardinality(U) = n - 1 /\ Cardinality(U) \in Nat
  BY <1>4, <1>5, <1>6, FS_RemoveElement, FS_CardinalityType
<1>8. x \in Nat /\ U \subseteq S
  BY <1>4, <1>6
<1>9. ~Headless(U)
  <2>1. <<Cardinality(U), n>> \in R
    BY <1>5, <1>7 DEF R
  <2>2. Cardinality(U) \notin Bad
    BY <1>3, <2>1
  <2> QED
    BY <1>7, <1>8, <2>2
<1>10. CASE U = {}
  BY <1>4, <1>8, <1>10
<1>11. CASE U # {}
  <2>1. PICK y \in U : \A z \in U : y >= z
    BY <1>9, <1>11
  <2>2. y \in Nat /\ y \in T
    BY <1>4
  <2>3. CASE x >= y
    <3>1. \A z \in T : z \in Nat /\ x >= z
      BY <1>4, <1>8, <2>1, <2>2, <2>3
    <3> QED
      BY <1>4, <1>6, <3>1
  <2>4. CASE ~(x >= y)
    <3>1. \A z \in T : z \in Nat /\ y >= z
      BY <1>4, <1>8, <2>1, <2>2, <2>4
    <3> QED
      BY <1>4, <2>2, <3>1
  <2> QED
    BY <2>3, <2>4
<1> QED
  BY <1>10, <1>11

(* The newest attempt is one of the attempts, and none is newer.             *)
LEMMA NewestAttempt ==
  ASSUME Requests, IsFiniteSet(DOMAIN req), NEW t, NEW stage
  PROVE  /\ Newest(t, stage) \in Nat
         /\ \A k \in DOMAIN req : k[1] = t /\ k[2] = stage => k[3] \in Attempts(t, stage) /\ k[3] <= Newest(t, stage)
         /\ Attempts(t, stage) # {} => Newest(t, stage) \in Attempts(t, stage)
<1> DEFINE S == Attempts(t, stage)
           K == {x \in DOMAIN req : x[1] = t /\ x[2] = stage}
           f == [k \in K |-> k[3]]
<1>1. IsFiniteSet(K)
  BY FS_Subset
<1>2. \A k \in K : k[3] \in S
  BY DEF Attempts
<1>3. \A n \in S : \E k \in K : k[3] = n
  BY DEF Attempts
<1>4. S \subseteq Nat
  BY <1>3 DEF Requests
<1> HIDE DEF S, K
<1>5. f \in Surjection(K, S)
  BY <1>2, <1>3 DEF Surjection
<1>6. IsFiniteSet(S)
  BY <1>1, <1>5, FS_Surjection
<1>7. Newest(t, stage) = IF S = {} THEN 0 ELSE CHOOSE x \in S : \A y \in S : x >= y
  BY DEF S, Newest, Max
<1>8. CASE S = {}
  BY <1>2, <1>7, <1>8 DEF K, S
<1>9. CASE S # {}
  <2>1. \E x \in S : \A y \in S : x >= y
    BY <1>4, <1>6, <1>9, Largest
  <2>2. Newest(t, stage) \in S /\ \A y \in S : Newest(t, stage) >= y
    BY <1>7, <1>9, <2>1
  <2>3. Newest(t, stage) \in Nat
    BY <1>4, <2>2
  <2>4. \A k \in DOMAIN req : k[1] = t /\ k[2] = stage => k[3] \in S
    BY <1>2 DEF K
  <2>5. \A n \in S : n \in Nat /\ n <= Newest(t, stage)
    BY <1>4, <2>2, <2>3
  <2> QED
    BY <2>2, <2>3, <2>4, <2>5 DEF S
<1> QED
  BY <1>8, <1>9

(* A request is kept, and what was queued is submitted or has failed.        *)
Advances(r, old) == r.status = old.status \/ (old.status = "queued" /\ r.status \in {"submitted", "failed"})
Progressing == DOMAIN req' = DOMAIN req /\ \A k \in DOMAIN req : Advances(req'[k], req[k])

LEMMA RequestField ==
  ASSUME NEW r, Asked(r), NEW v, NEW w
  PROVE  /\ [r EXCEPT !.status = v].status = v
         /\ [r EXCEPT !.out = w, !.status = v].status = v
         /\ [r EXCEPT !.status = v, !.out = w].status = v
         /\ [r EXCEPT !.jev = w, !.status = v].status = v
         /\ [r EXCEPT !.jev = v].status = r.status
         /\ [r EXCEPT !.job = v].status = r.status
         /\ [r EXCEPT !.sent = v].status = r.status
<1>1. PICK a, b, c, d, e : r = [status |-> a, job |-> b, jev |-> c, out |-> d, sent |-> e]
  BY DEF Asked
<1> QED
  BY <1>1

(* Every step but an insertion and the recording of an answer.               *)
LEMMA RequestsProgress ==
  ASSUME Tabled,
         \/ UNCHANGED req
         \/ MarkSubmitted \/ JevInterrupted \/ Submit \/ Reserve \/ JevSubmit \/ CreateBatch \/ Release
         \/ FailRequests
  PROVE  Progressing
<1>1. \A k \in DOMAIN req : Asked(req[k])
  BY DEF Tabled
<1>2. CASE UNCHANGED req
  BY <1>2 DEF Progressing, Advances
<1>3. CASE MarkSubmitted
  <2>1. req' = [k \in DOMAIN req |-> IF k \in KeysOf(About, {"queued"}) THEN [req[k] EXCEPT !.status = "submitted"]
                                     ELSE req[k]]
    BY <1>3 DEF MarkSubmitted, SetRequests, Submitted
  <2> QED
    BY <1>1, <2>1, RequestField DEF Progressing, Advances, KeysOf
<1>4. CASE JevInterrupted
  <2>1. req' = [k \in DOMAIN req |-> IF k \in {About} THEN [req[k] EXCEPT !.jev = TRUE] ELSE req[k]]
    BY <1>4 DEF JevInterrupted, SetRequests
  <2> QED
    BY <1>1, <2>1, RequestField DEF Progressing, Advances
<1>5. CASE Submit
  BY <1>1, <1>5, RequestField DEF Submit, Progressing, Advances
<1>6. CASE Reserve
  <2>1. \/ req' = [k \in DOMAIN req |-> IF k \in With THEN [req[k] EXCEPT !.job = About] ELSE req[k]]
        \/ req' = req
    BY <1>6 DEF Reserve, SetRequests
  <2>2. \A k \in DOMAIN req : [req[k] EXCEPT !.job = About].status = req[k].status
    BY <1>1, RequestField
  <2> QED
    BY <2>1, <2>2 DEF Progressing, Advances
<1>7. CASE JevSubmit
  <2>1. req' = [k \in DOMAIN req |-> IF k \in KeysOf(About, {"queued"})
                                       THEN [req[k] EXCEPT !.jev = TRUE, !.status = "submitted"] ELSE req[k]]
    BY <1>7 DEF JevSubmit, SetRequests
  <2>2. \A k \in DOMAIN req : [req[k] EXCEPT !.jev = TRUE, !.status = "submitted"].status = "submitted"
    BY <1>1, RequestField
  <2> QED
    BY <2>1, <2>2 DEF Progressing, Advances, KeysOf
<1>8. CASE CreateBatch
  <2>1. \/ req' = [k \in DOMAIN req |-> IF k \in KeysOf(About, {"queued"}) THEN [req[k] EXCEPT !.sent = @ + 1] ELSE req[k]]
        \/ req' = req
    BY <1>8 DEF CreateBatch, SetRequests
  <2>2. \A k \in DOMAIN req : [req[k] EXCEPT !.sent = @ + 1].status = req[k].status
    BY <1>1, RequestField
  <2> QED
    BY <1>1, <2>1, <2>2 DEF Progressing, Advances
<1>9. CASE Release
  <2>1. req' = [k \in DOMAIN req |-> IF k \in KeysOf(About, {"queued"}) THEN [req[k] EXCEPT !.job = "none"] ELSE req[k]]
    BY <1>9 DEF Release, SetRequests
  <2> QED
    BY <1>1, <2>1, RequestField DEF Progressing, Advances
<1>10. CASE FailRequests
  <2>1. req' = [k \in DOMAIN req |-> IF k \in KeysOf(About, {"queued"})
                                       THEN [req[k] EXCEPT !.status = "failed", !.out = With] ELSE req[k]]
    BY <1>10 DEF FailRequests, SetRequests
  <2>2. \A k \in DOMAIN req : [req[k] EXCEPT !.status = "failed", !.out = With].status = "failed"
    BY <1>1, RequestField
  <2> QED
    BY <2>1, <2>2 DEF Progressing, Advances, KeysOf
<1> QED
  BY <1>2, <1>3, <1>4, <1>5, <1>6, <1>7, <1>8, <1>9, <1>10

(* What a batch answers are requests it was given.                           *)
Remotely == \A j \in Jobs : remote[j].keys \subseteq DOMAIN req /\ DOMAIN remote[j].lines \subseteq DOMAIN req

LEMMA RemotesHold ==
  ASSUME Tabled, Remotely, DOMAIN req \subseteq DOMAIN req',
         UNCHANGED remote \/ Submit \/ CreateBatch \/ \E j \in Jobs : RetrieveEnded(j)
  PROVE  Remotely'
<1>1. remote = [j \in Jobs |-> remote[j]] /\ \A j \in Jobs : RemoteRow(remote[j])
  BY DEF Tabled
<1>2. CASE UNCHANGED remote
  BY <1>2 DEF Remotely
<1>3. CASE Submit
  <2>1. \A j \in Jobs : remote'[j] = NoRemote \/ remote'[j] = remote[j]
    BY <1>3 DEF Submit
  <2>2. NoRemote.keys = {} /\ DOMAIN NoRemote.lines = {}
    BY DEF NoRemote
  <2> QED
    BY <2>1, <2>2 DEF Remotely
<1>4. CASE CreateBatch
  <2>1. \/ UNCHANGED remote
        \/ remote' = [remote EXCEPT ![About].keys = KeysOf(About, {"queued"})]
    BY <1>4 DEF CreateBatch
  <2>2. ASSUME NEW j \in Jobs
        PROVE  /\ remote'[j].keys \in {remote[j].keys, KeysOf(About, {"queued"})}
               /\ remote'[j].lines = remote[j].lines
    <3>1. PICK a, b, c, d : remote[j] = [keys |-> a, end |-> b, lines |-> c, error |-> d]
      BY <1>1 DEF RemoteRow
    <3>2. \/ remote'[j] = remote[j]
          \/ remote'[j] = [remote[j] EXCEPT !.keys = KeysOf(About, {"queued"})]
      BY <1>1, <2>1
    <3> QED
      BY <3>1, <3>2
  <2>3. KeysOf(About, {"queued"}) \subseteq DOMAIN req
    BY DEF KeysOf
  <2> QED
    BY <2>2, <2>3 DEF Remotely
<1>5. CASE \E j \in Jobs : RetrieveEnded(j)
  <2>1. PICK j \in Jobs : RetrieveEnded(j)
    BY <1>5
  <2> DEFINE Ended(e, f, lines) == remote' = [remote EXCEPT ![j] = [@ EXCEPT !.end = e, !.lines = lines, !.error = f]]
             Returned(e) == IF e = "completed" THEN LineSets(remote[j].keys) ELSE {<<>>}
             Why(e) == IF e = "failed" THEN LineErrors \ {"blocked"} ELSE {"retryable"}
  <2>2. \/ UNCHANGED remote
        \/ \E e, f, lines : lines \in LineSets(remote[j].keys) \cup {<<>>} /\ Ended(e, f, lines)
    <3>1. CASE remote[j].end # "none"
      BY <2>1, <3>1 DEF RetrieveEnded
    <3>2. CASE remote[j].end = "none"
      <4>1. \E e \in BatchEnds : \E f \in Why(e), lines \in Returned(e) : Ended(e, f, lines)
        BY <2>1, <3>2 DEF RetrieveEnded
      <4>2. \A e : Returned(e) \subseteq LineSets(remote[j].keys) \cup {<<>>}
        OBVIOUS
      <4> HIDE DEF Ended, Returned, Why
      <4> QED
        BY <4>1, <4>2
    <3> QED
      BY <3>1, <3>2
  <2>3. ASSUME NEW e, NEW f, NEW lines \in LineSets(remote[j].keys) \cup {<<>>}, Ended(e, f, lines)
        PROVE  Remotely'
    <3>1. DOMAIN lines \subseteq DOMAIN req
      <4>1. CASE lines = <<>>
        BY <4>1
      <4>2. CASE lines \in LineSets(remote[j].keys)
        <5>1. PICK some \in SUBSET (remote[j].keys) : lines \in Results(some)
          BY <4>2 DEF LineSets
        <5>2. DOMAIN lines = some
          BY <5>1 DEF Results
        <5> QED
          BY <5>1, <5>2 DEF Remotely
      <4> QED
        BY <4>1, <4>2
    <3>2. PICK a, b, c, d : remote[j] = [keys |-> a, end |-> b, lines |-> c, error |-> d]
      BY <1>1 DEF RemoteRow
    <3>3. remote'[j] = [remote[j] EXCEPT !.end = e, !.lines = lines, !.error = f]
      BY <1>1, <2>3
    <3>4. remote'[j].keys = remote[j].keys /\ remote'[j].lines = lines
      BY <3>2, <3>3
    <3>5. \A l \in Jobs : l # j => remote'[l] = remote[l]
      BY <1>1, <2>3
    <3> QED
      BY <3>1, <3>4, <3>5 DEF Remotely
  <2>4. CASE UNCHANGED remote
    BY <2>4 DEF Remotely
  <2> HIDE DEF Ended
  <2> QED
    BY <2>2, <2>3, <2>4
<1> QED
  BY <1>2, <1>3, <1>4, <1>5

LEMMA RequestsHold ==
  ASSUME Requests, Progressing, Remotely => Remotely'
  PROVE  Requests' /\ \A t : Unasked(t) => Unasked(t)'
<1>1. Remotely'
  BY DEF Requests, Remotely
<1>2. ASSUME NEW k \in DOMAIN req
      PROVE  /\ req'[k].status \in OpenStatuses \cup {"succeeded", "failed"}
             /\ req'[k].status \in OpenStatuses => req[k].status \in OpenStatuses
             /\ req[k].status = "failed" => req'[k].status = "failed"
  BY <1>2 DEF Requests, Progressing, Advances, OpenStatuses
<1>3. DOMAIN req' = DOMAIN req
  BY DEF Progressing
<1>4. Requests'
  BY <1>1, <1>2, <1>3 DEF Requests, Remotely, CapabilityOnly
<1> QED
  BY <1>2, <1>3, <1>4 DEF Unasked

(* An answer is recorded at the newest attempt of its stage.                 *)
LEMMA RecordHolds ==
  ASSUME Requests, Tabled, Record, About \in DOMAIN req, Current(About)
  PROVE  /\ Requests' /\ DOMAIN req' = DOMAIN req /\ \A t : Unasked(t) => Unasked(t)'
         /\ With \notin Errors => req'[About].status = "succeeded"
<1> DEFINE status == IF With \in Errors THEN "failed" ELSE "succeeded"
<1>1. req' = [k \in DOMAIN req |-> IF k \in {About} THEN [req[k] EXCEPT !.out = With, !.status = status]
                                   ELSE req[k]]
  BY DEF Record, SetRequests
<1>2. [req[About] EXCEPT !.out = With, !.status = status].status = status
  BY RequestField DEF Tabled
<1>3. req'[About].status = status /\ \A k \in DOMAIN req : k # About => req'[k] = req[k]
  BY <1>1, <1>2
<1>4. DOMAIN req' = DOMAIN req
  BY <1>1
<1>5. status \in {"succeeded", "failed"} /\ status \notin OpenStatuses
  BY DEF OpenStatuses
<1> HIDE DEF status
<1>6. ASSUME NEW k \in DOMAIN req, NEW l \in DOMAIN req, k[1] = l[1], k[2] = l[2], k[3] < l[3]
      PROVE  req'[k].status = "failed"
  <2>1. k # About
    <3> SUFFICES ASSUME k = About
                 PROVE  FALSE
      OBVIOUS
    <3>1. l[3] <= Newest(k[1], k[2]) /\ k[3] = Newest(k[1], k[2]) /\ Newest(k[1], k[2]) \in Nat
      BY <1>6, NewestAttempt DEF Tabled, Current
    <3>2. l[3] \in Nat
      BY DEF Requests
    <3> QED
      BY <1>6, <3>1, <3>2
  <2>2. req[k].status = "failed"
    BY <1>6 DEF Requests
  <2> QED
    BY <1>3, <2>1, <2>2
<1>7. UNCHANGED remote
  BY DEF Record
<1>8. \A k \in DOMAIN req : /\ k \in Tools \X Stages \X (Nat \ {0})
                            /\ CapabilityOnly(k[1]) => k[2] = "capability"
                            /\ req'[k].status \in OpenStatuses \cup {"succeeded", "failed"}
  BY <1>3, <1>5 DEF Requests
<1>9. Requests'
  BY <1>4, <1>6, <1>7, <1>8 DEF Requests, CapabilityOnly
<1>10. \A t : Unasked(t) => Unasked(t)'
  BY <1>3, <1>4, <1>5 DEF Unasked
<1> QED
  BY <1>3, <1>4, <1>9, <1>10 DEF status

(* An attempt is inserted behind attempts that all failed.                   *)
LEMMA EnqueueHolds ==
  ASSUME Requests, Tabled, Enqueue, About \in Tools, With \in Stages,
         CapabilityOnly(About) => With = "capability"
  PROVE  /\ Requests' /\ DOMAIN req \subseteq DOMAIN req'
         /\ \A t : t # About /\ Unasked(t) => Unasked(t)'
<1> DEFINE t == About
           stage == With
           k == Key(t, stage, Newest(t, stage) + 1)
           row == [status |-> "queued", job |-> "none", jev |-> FALSE, out |-> "none", sent |-> 0]
<1>0. UNCHANGED remote
  BY DEF Enqueue
<1>1. CASE UNCHANGED req
  BY <1>0, <1>1 DEF Requests, Unasked, CapabilityOnly
<1>2. CASE /\ \A n \in Attempts(t, stage) : req[Key(t, stage, n)].status = "failed"
           /\ req' = [x \in DOMAIN req \cup {k} |-> IF x = k THEN row ELSE req[x]]
  <2>1. Newest(t, stage) \in Nat
    BY NewestAttempt DEF Tabled
  <2>2. k \notin DOMAIN req /\ k[1] = t /\ k[2] = stage /\ k[3] = Newest(t, stage) + 1
    <3>1. k[1] = t /\ k[2] = stage /\ k[3] = Newest(t, stage) + 1
      BY DEF Key
    <3>2. k \in DOMAIN req => k[3] <= Newest(t, stage)
      BY <3>1, NewestAttempt DEF Tabled
    <3> QED
      BY <2>1, <3>1, <3>2
  <2>3. k \in Tools \X Stages \X (Nat \ {0})
    BY <2>1 DEF Key
  <2> HIDE DEF k
  <2>4. DOMAIN req' = DOMAIN req \cup {k} /\ req'[k].status = "queued" /\ \A x \in DOMAIN req : req'[x] = req[x]
    BY <1>2, <2>2
  <2>5. ASSUME NEW x \in DOMAIN req', NEW y \in DOMAIN req', x[1] = y[1], x[2] = y[2], x[3] < y[3]
        PROVE  req'[x].status = "failed"
    <3>1. \A z \in DOMAIN req : z[3] \in Nat /\ (z[1] = t /\ z[2] = stage => z[3] \in Attempts(t, stage) /\ z[3] <= Newest(t, stage))
      BY NewestAttempt DEF Tabled, Requests
    <3>2. x # k
      BY <2>1, <2>2, <2>4, <2>5, <3>1
    <3>3. CASE y = k
      <4>1. x \in DOMAIN req /\ x[3] \in Attempts(t, stage) /\ x = Key(t, stage, x[3])
        <5>1. x \in DOMAIN req /\ x[1] = t /\ x[2] = stage
          BY <2>2, <2>4, <2>5, <3>2, <3>3
        <5>2. PICK a, b, c : x = <<a, b, c>>
          BY <5>1 DEF Requests
        <5> QED
          BY <3>1, <5>1, <5>2 DEF Key
      <4>2. req[x].status = "failed"
        BY <1>2, <4>1
      <4> QED
        BY <2>4, <4>1, <4>2
    <3>4. CASE y # k
      <4>1. x \in DOMAIN req /\ y \in DOMAIN req
        BY <2>4, <3>2, <3>4
      <4>2. req[x].status = "failed"
        BY <2>5, <4>1 DEF Requests
      <4> QED
        BY <2>4, <4>1, <4>2
    <3> QED
      BY <3>3, <3>4
  <2>6. \A x \in DOMAIN req' : /\ x \in Tools \X Stages \X (Nat \ {0})
                               /\ CapabilityOnly(x[1]) => x[2] = "capability"
                               /\ req'[x].status \in OpenStatuses \cup {"succeeded", "failed"}
    BY <2>2, <2>3, <2>4 DEF Requests, OpenStatuses
  <2>7. \A j \in Jobs : remote'[j].keys \subseteq DOMAIN req' /\ DOMAIN remote'[j].lines \subseteq DOMAIN req'
    BY <1>0, <2>4 DEF Requests
  <2>8. Requests'
    BY <2>5, <2>6, <2>7 DEF Requests, CapabilityOnly
  <2>9. \A u : u # t /\ Unasked(u) => Unasked(u)'
    BY <2>2, <2>4 DEF Unasked
  <2> QED
    BY <2>4, <2>8, <2>9
<1> QED
  BY <1>1, <1>2 DEF Enqueue

-----------------------------------------------------------------------------
(* The calls that are about no item.                                         *)
Busy == CalmNames \cup {"finish", "finalize", "record"}
Loosely ==
  /\ todo # <<>> /\ Head(todo)[1] \notin Busy
  /\ \E s : AllLoose(s, DOMAIN req) /\ todo' = s \o Tail(todo)

LEMMA LooselyGood ==
  ASSUME Listing, Good(todo), Requests, Loosely, DOMAIN req \subseteq DOMAIN req'
  PROVE  Good(todo)'
<1>1. PICK s : AllLoose(s, DOMAIN req) /\ todo' = s \o Tail(todo)
  BY DEF Loosely
<1>2. AllLoose(s, DOMAIN req')
  BY <1>1 DEF AllLoose, Loose
<1>3. Head(todo) = todo[1] /\ todo # <<>> /\ Head(todo)[1] \notin Busy
  BY Rest DEF Loosely, Listing
<1> QED
  BY <1>1, <1>2, <1>3, GoesLoose DEF Busy

LEMMA LooseList ==
  ASSUME NEW keys, NEW n \in Nat, NEW s, DOMAIN s = 1..n, s = [i \in 1..n |-> s[i]],
         \A i \in 1..n : Loose(s[i], keys)
  PROVE  AllLoose(s, keys)
BY Listed DEF AllLoose

LEMMA LooseSkips ==
  ASSUME \/ RetrieveRunning \/ EndOfPolledJob \/ JevDone \/ MarkFails \/ SetKind \/ PersistFails
  PROVE  Loosely
<1>1. todo # <<>> /\ Head(todo)[1] \notin Busy /\ todo' = <<>> \o Tail(todo)
  BY DEF RetrieveRunning, EndOfPolledJob, JevDone, MarkFails, SetKind, PersistFails, KeepsReservation,
         Do, Skip, Then, Busy, CalmNames, Begins, Links
<1> QED
  BY <1>1, LooseTuples DEF Loosely

LEMMA LooseSingles ==
  ASSUME \/ JevInterrupted \/ JevAnswer \/ MarkSubmitted \/ JevStart \/ Persist \/ Reserve \/ CreateBatch
         \/ Build \/ JevSelect \/ FailJob \/ \E j \in Jobs : RetrieveEnded(j),
         Listing, Good(todo)
  PROVE  Loosely
<1>1. todo # <<>> /\ Head(todo)[1] \notin Busy
  BY DEF JevInterrupted, JevAnswer, MarkSubmitted, JevStart, Persist, Reserve, CreateBatch, Build, JevSelect, FailJob,
         RetrieveEnded, Do, Busy, CalmNames, Begins, Links
<1>2. \/ todo' = <<>> \o Tail(todo)
      \/ \E name, about, with : /\ todo' = <<Call(name, about, with)>> \o Tail(todo)
                                /\ name \notin Marked \/ (name = "apply" /\ about \in DOMAIN req)
  <2>1. CASE JevInterrupted \/ JevAnswer
    <3>1. \E with : todo' = <<Call("apply", About, with)>> \o Tail(todo)
      BY <2>1 DEF JevInterrupted, JevAnswer, Then
    <3>2. Head(todo)[1] \in {"jevInterrupted", "jevAnswer"}
      BY <2>1 DEF JevInterrupted, JevAnswer, Do
    <3>3. About \in DOMAIN req
      <4>1. Head(todo) = todo[1] /\ 1 \in 1..Len(todo)
        BY <1>1, Rest DEF Listing
      <4>2. Legal(todo[1])
        BY <4>1 DEF Good, Lawful
      <4> QED
        BY <3>2, <4>1, <4>2 DEF Legal, KeyCalls, About
    <3> QED
      BY <3>1, <3>3
  <2>2. CASE MarkSubmitted
    <3>1. todo' = <<>> \o Tail(todo) \/ todo' = <<Call("retrieve", About, "none")>> \o Tail(todo)
      BY <2>2 DEF MarkSubmitted, Then
    <3> QED
      BY <3>1 DEF Marked, KeyCalls, ToolCalls, FullCalls, Begins, Links
  <2>3. CASE JevStart
    <3>1. todo' = <<Call("jevSubmit", About, "none")>> \o Tail(todo)
      BY <2>3 DEF JevStart, Then
    <3> QED
      BY <3>1 DEF Marked, KeyCalls, ToolCalls, FullCalls, Begins, Links
  <2>4. CASE Persist
    <3>1. todo' = <<Call("mark", About, "submit")>> \o Tail(todo)
      BY <2>4 DEF Persist, Then
    <3> QED
      BY <3>1 DEF Marked, KeyCalls, ToolCalls, FullCalls, Begins, Links
  <2>5. CASE Reserve
    <3>1. \E name \in {"jevStart", "createBatch", "failJob"} : todo' = <<Call(name, About, "none")>> \o Tail(todo)
      BY <2>5 DEF Reserve, Then
    <3> QED
      BY <3>1 DEF Marked, KeyCalls, ToolCalls, FullCalls, Begins, Links
  <2>6. CASE CreateBatch
    <3>1. \/ todo' = <<Call("persist", About, "none")>> \o Tail(todo)
          \/ \E error : todo' = <<Call("failJob", About, error)>> \o Tail(todo)
      BY <2>6 DEF CreateBatch, Then
    <3> QED
      BY <3>1 DEF Marked, KeyCalls, ToolCalls, FullCalls, Begins, Links
  <2>7. CASE Build
    <3>1. \E j : \/ todo' = <<>> \o Tail(todo)
                 \/ todo' = <<Call("reserve", j, About)>> \o Tail(todo)
      BY <2>7 DEF Build, Skip, Then
    <3> QED
      BY <3>1 DEF Marked, KeyCalls, ToolCalls, FullCalls, Begins, Links
  <2>8. CASE JevSelect
    <3>1. \E keys : \/ todo' = <<>> \o Tail(todo)
                    \/ todo' = <<Call("build", keys, "jev")>> \o Tail(todo)
      BY <2>8 DEF JevSelect, Then
    <3> QED
      BY <3>1 DEF Marked, KeyCalls, ToolCalls, FullCalls, Begins, Links
  <2>9. CASE \E j \in Jobs : RetrieveEnded(j)
    <3>1. \E j, error : \/ todo' = <<Call("lines", j, "none")>> \o Tail(todo)
                        \/ todo' = <<Call("unreturned", j, error)>> \o Tail(todo)
                        \/ todo' = <<Call("fallback", j, "none")>> \o Tail(todo)
      BY <2>9 DEF RetrieveEnded, Then
    <3> QED
      BY <3>1 DEF Marked, KeyCalls, ToolCalls, FullCalls, Begins, Links
  <2>10. CASE FailJob
    <3>1. \/ todo' = <<>> \o Tail(todo)
          \/ todo' = <<Call("release", About, "none")>> \o Tail(todo)
          \/ todo' = <<Call("failRequests", About, With)>> \o Tail(todo)
      BY <2>10 DEF FailJob, Then
    <3> QED
      BY <3>1 DEF Marked, KeyCalls, ToolCalls, FullCalls, Begins, Links
  <2> QED
    BY <2>1, <2>2, <2>3, <2>4, <2>5, <2>6, <2>7, <2>8, <2>9, <2>10
<1>3. \A name, about, with :
         name \notin Marked \/ (name = "apply" /\ about \in DOMAIN req)
           => AllLoose(<<Call(name, about, with)>>, DOMAIN req)
  BY LooseCalls, LooseTuples
<1> QED
  BY <1>1, <1>2, <1>3, LooseTuples DEF Loosely

LEMMA LooseResultsKept ==
  ASSUME Bounded, Listing, Finite, Remotely, Reconcile \/ Lines \/ Unreturned \/ Fallback
  PROVE  Loosely
<1>0. todo # <<>> /\ Head(todo)[1] \notin Busy
  BY DEF Reconcile, Lines, Unreturned, Fallback, Do, Busy, CalmNames, Begins, Links
<1>1. CASE Reconcile
  <2> DEFINE left == {k \in DOMAIN req : Answered(k)}
             n == Cardinality(left)
             s == [i \in 1..n |-> LET k == SetToSeq(left)[i] IN Call("apply", k, req[k].out)]
  <2>1. IsFiniteSet(left) /\ left \subseteq DOMAIN req
    BY FS_Subset DEF Finite
  <2>2. n \in Nat /\ SetToSeq(left) \in [1..n -> left]
    BY <2>1, SetListed
  <2> HIDE DEF left
  <2>3. DOMAIN s = 1..n /\ s = [i \in 1..n |-> s[i]] /\ \A i \in 1..n : Loose(s[i], DOMAIN req)
    BY <2>1, <2>2, LooseCalls
  <2>4. AllLoose(s, DOMAIN req)
    BY <2>2, <2>3, LooseList
  <2>5. todo' = s \o Tail(todo)
    BY <1>1 DEF Reconcile, Then, left
  <2> QED
    BY <1>0, <2>4, <2>5 DEF Loosely
<1>2. CASE Lines
  <2>1. About \in Jobs
    BY <1>2, JobCalled DEF Lines, Do, JobCalls
  <2>2. AllLoose(ApplyAll(remote[About].lines), DOMAIN req)
    BY <2>1, LooseResults DEF Finite, Remotely
  <2>3. AllLoose(<<Call("unreturned", About, "retryable")>>, DOMAIN req)
    BY LooseCalls, LooseTuples DEF Marked, KeyCalls, ToolCalls, FullCalls, Begins, Links
  <2> QED
    BY <1>0, <1>2, <2>2, <2>3, LooseConcatenated DEF Lines, Then, Loosely
<1>3. CASE Unreturned
  <2> DEFINE left == KeysOf(About, {"submitted"}) \ DOMAIN remote[About].lines
  <2>1. IsFiniteSet(left) /\ left \subseteq DOMAIN req
    BY FiniteKeys DEF KeysOf
  <2>2. AllLoose(ApplyAll([k \in left |-> With]), DOMAIN req)
    BY <2>1, LooseResults
  <2> QED
    BY <1>0, <1>3, <2>2 DEF Unreturned, Then, Loosely
<1>4. CASE Fallback
  <2>1. PICK results \in Results(KeysOf(About, {"submitted"})) : todo' = ApplyAll(results) \o Tail(todo)
    BY <1>4 DEF Fallback, Then
  <2>2. DOMAIN results = KeysOf(About, {"submitted"})
    BY DEF Results
  <2>3. IsFiniteSet(DOMAIN results) /\ DOMAIN results \subseteq DOMAIN req
    <3>1. KeysOf(About, {"submitted"}) \subseteq DOMAIN req
      BY DEF KeysOf
    <3> QED
      BY <2>2, <3>1, FiniteKeys
  <2>4. AllLoose(ApplyAll(results), DOMAIN req)
    BY <2>3, LooseResults
  <2> QED
    BY <1>0, <2>1, <2>4 DEF Loosely
<1> QED
  BY <1>1, <1>2, <1>3, <1>4

LEMMA LoosePoll ==
  ASSUME Bounded, Poll
  PROVE  Loosely
<1> DEFINE S == {j \in Jobs : /\ job[j].batch
                              /\ \/ job[j].status \in ActiveJob
                                 \/ KeysOf(j, OpenStatuses) # {}}
           jobs == SetToSeq(S)
           n == 2 * Len(jobs)
           s == [i \in 1..n |-> IF i % 2 = 1 THEN Call("mark", jobs[(i + 1) \div 2], "poll")
                                ELSE Call("polled", jobs[i \div 2], "none")]
<1>1. IsFiniteSet(S)
  BY FS_Subset DEF Bounded
<1>2. Len(jobs) \in Nat
  <2> HIDE DEF S
  <2> QED
    BY <1>1, SetListed
<1>3. todo # <<>> /\ Head(todo)[1] \notin Busy /\ todo' = s \o Tail(todo)
  BY DEF Poll, Do, Then, Busy, CalmNames, Begins, Links
<1> HIDE DEF jobs
<1>4. n \in Nat
  BY <1>2
<1>5. \A a, w : Loose(Call("mark", a, w), DOMAIN req) /\ Loose(Call("polled", a, w), DOMAIN req)
  BY LooseCalls DEF Marked, KeyCalls, ToolCalls, FullCalls, Begins, Links
<1>6. DOMAIN s = 1..n /\ s = [i \in 1..n |-> s[i]] /\ \A i \in 1..n : Loose(s[i], DOMAIN req)
  BY <1>5
<1>7. AllLoose(s, DOMAIN req)
  BY <1>4, <1>6, LooseList
<1> QED
  BY <1>3, <1>7 DEF Loosely

LEMMA LooseSubmission ==
  ASSUME Bounded, Listing, Finite, Submit \/ Select \/ JevRecover \/ JevClaim \/ JevSubmit
  PROVE  Loosely
<1>0. todo # <<>> /\ Head(todo)[1] \notin Busy
  BY DEF Submit, Select, JevRecover, JevClaim, JevSubmit, Do, Busy, CalmNames, Begins, Links
<1>1. CASE Submit
  <2>1. \A c \in {Call("jevRecover", "none", "none"), Call("jevSelect", "none", "none"), Call("select", "none", "none")} :
          Loose(c, DOMAIN req)
    BY LooseCalls DEF Marked, KeyCalls, ToolCalls, FullCalls, Begins, Links
  <2>2. AllLoose(<<Call("jevRecover", "none", "none"), Call("jevSelect", "none", "none"),
                   Call("select", "none", "none")>>, DOMAIN req)
    BY <2>1, LooseTuples
  <2>3. \/ todo' = <<>> \o Tail(todo)
        \/ todo' = <<Call("jevRecover", "none", "none"), Call("jevSelect", "none", "none"),
                     Call("select", "none", "none")>> \o Tail(todo)
    BY <1>1 DEF Submit, Then
  <2> QED
    BY <1>0, <2>2, <2>3, LooseTuples DEF Loosely
<1>2. CASE Select
  <2> DEFINE keys == {k \in DOMAIN req :
                    /\ req[k].status = "queued" /\ req[k].job = "none"
                    /\ JevEnabled /\ k[2] = "capability" => JevAsked(k[1])}
             groups == {{k \in keys : k[2] = stage} : stage \in {k[2] : k \in keys}}
  <2>1. IsFiniteSet(keys)
    BY FS_Subset DEF Finite
  <2>2. todo' = Queue("build", groups) \o Tail(todo)
    BY <1>2 DEF Select, Then
  <2> HIDE DEF keys
  <2>3. groups \subseteq SUBSET keys /\ IsFiniteSet(SUBSET keys)
    BY <2>1, FS_SUBSET
  <2>4. IsFiniteSet(groups)
    BY <2>3, FS_Subset
  <2> HIDE DEF groups
  <2>5. AllLoose(Queue("build", groups), DOMAIN req)
    BY <2>4, LooseQueue DEF Marked, KeyCalls, ToolCalls, FullCalls, Begins, Links
  <2> QED
    BY <1>0, <2>2, <2>5 DEF Loosely
<1>3. CASE JevRecover
  <2> DEFINE S == {j \in Jobs : /\ job[j].jev /\ job[j].old
                                /\ job[j].status \in {"building", "in_progress", "interrupted"}
                                /\ KeysOf(j, OpenStatuses) # {}}
  <2>1. IsFiniteSet(S)
    BY FS_Subset DEF Bounded
  <2>2. todo' = Queue("jevClaim", S) \o Tail(todo)
    BY <1>3 DEF JevRecover, Then
  <2> HIDE DEF S
  <2>3. AllLoose(Queue("jevClaim", S), DOMAIN req)
    BY <2>1, LooseQueue DEF Marked, KeyCalls, ToolCalls, FullCalls, Begins, Links
  <2> QED
    BY <1>0, <2>2, <2>3 DEF Loosely
<1>4. CASE JevClaim
  <2>1. todo' = Queue("jevInterrupted", KeysOf(About, OpenStatuses)) \o Tail(todo)
    BY <1>4 DEF JevClaim, Then
  <2>2. AllLoose(Queue("jevInterrupted", KeysOf(About, OpenStatuses)), DOMAIN req)
    BY FiniteKeys, LooseQueue DEF KeysOf
  <2> QED
    BY <1>0, <2>1, <2>2 DEF Loosely
<1>5. CASE JevSubmit
  <2>1. AllLoose(Queue("jevAnswer", KeysOf(About, {"queued"})), DOMAIN req)
    <3>1. KeysOf(About, {"queued"}) \subseteq DOMAIN req /\ IsFiniteSet(KeysOf(About, {"queued"}))
      BY FiniteKeys DEF KeysOf
    <3> QED
      BY <3>1, LooseQueue
  <2>2. AllLoose(<<Call("jevDone", About, "none")>>, DOMAIN req)
    BY LooseCalls, LooseTuples DEF Marked, KeyCalls, ToolCalls, FullCalls, Begins, Links
  <2> QED
    BY <1>0, <1>5, <2>1, <2>2, LooseConcatenated DEF JevSubmit, Then, Loosely
<1> QED
  BY <1>1, <1>2, <1>3, <1>4, <1>5

LEMMA LooseTerminal ==
  ASSUME ReconcileTerminalTools
  PROVE  Loosely
<1>1. todo # <<>> /\ Head(todo)[1] \notin Busy
  BY DEF ReconcileTerminalTools, Do, Busy, CalmNames, Begins, Links
<1>2. \E targets : \/ todo' = <<>> \o Tail(todo)
                   \/ todo' = <<Call("moveTools", targets, "none")>> \o Tail(todo)
  BY DEF ReconcileTerminalTools, Then
<1>3. \A targets : AllLoose(<<Call("moveTools", targets, "none")>>, DOMAIN req)
  BY LooseCalls, LooseTuples DEF Marked, KeyCalls, ToolCalls, FullCalls, Begins, Links
<1> QED
  BY <1>1, <1>2, <1>3, LooseTuples DEF Loosely

(* Calls that each stand alone and let the others wait.                      *)
LEMMA SimpleList ==
  ASSUME NEW s, Sequenced(s), \A i \in 1..Len(s) : Simple(s[i]) /\ Legal(s[i])' /\ Calm(s[i])'
  PROVE  Good(s)' /\ Calmly(s)'
<1>1. ASSUME NEW c, Simple(c)
      PROVE  ~Chained(c)' /\ Named(c)' /\ Reached(c)' /\ Foremost(c)'
  <2>1. ~Chained(c) /\ ~Chained(c)' /\ c[1] \notin {"record", "react", "finalize", "afterLeaf"}
    BY <1>1 DEF Simple, Chained, Succeeds
  <2> QED
    BY <2>1, UnchainedIsNamed DEF Reached, Foremost
<1>2. Placed(s)' /\ Lawful(s)' /\ Calmly(s)'
  BY <1>1 DEF Placed, Lawful, Simple, Calmly
<1>3. Tame(s)'
  <2>1. Len(s) \in Nat
    BY IsSequence DEF Sequenced
  <2> QED
    BY <2>1 DEF Tame
<1>4. Strung(s)'
  BY <1>1 DEF Strung
<1>5. Fronted(s)'
  <2>1. s # <<>> => 1 \in 1..Len(s)
    BY Rest
  <2> QED
    BY <1>1, <2>1 DEF Fronted
<1> QED
  BY <1>2, <1>3, <1>4, <1>5 DEF Good

LEMMA KeptItems ==
  ASSUME UNCHANGED item
  PROVE  Kept
BY DEF Kept, NotSucceeded, Uncapable

(* The head is in order.                                                     *)
LEMMA HeadLegal ==
  ASSUME Listing, Good(todo), todo # <<>>
  PROVE  /\ Head(todo) = todo[1] /\ 1 \in 1..Len(todo) /\ About = todo[1][2] /\ With = todo[1][3]
         /\ Legal(Head(todo)) /\ Named(Head(todo)) /\ Reached(Head(todo)) /\ Foremost(Head(todo))
<1>1. Head(todo) = todo[1] /\ 1 \in 1..Len(todo)
  BY Rest DEF Listing
<1> QED
  BY <1>1 DEF About, With, Good, Lawful, Fronted

(* A call makes room for others that are in order, with the items as they are. *)
LEMMA GoesOn ==
  ASSUME Listing, Good(todo), Requests, todo # <<>>, ~Chained(Head(todo)), Head(todo)[1] # "record",
         UNCHANGED item, DOMAIN req \subseteq DOMAIN req', NEW s, Good(s)', todo' = s \o Tail(todo),
         Calm(Head(todo)) => Calmly(s)'
  PROVE  Good(todo)'
BY KeptItems, HeadLegal, Proceeds

LEMMA SimpleSkips ==
  ASSUME Listing, Good(todo), Requests, UNCHANGED <<item, req>>, Route \/ MoveTools \/ EndOfSeedRow
  PROVE  Good(todo)'
<1>1. todo # <<>> /\ Head(todo)[1] \in {"route", "moveTools", "seeded"}
  BY DEF Route, MoveTools, EndOfSeedRow, Do
<1>2. \/ todo' = <<>> \o Tail(todo)
      \/ \E targets : todo' = <<Call("moveTools", targets, "none")>> \o Tail(todo)
  BY DEF Route, MoveTools, EndOfSeedRow, Skip, Then
<1>3. ~Chained(Head(todo)) /\ Head(todo)[1] # "record"
  BY <1>1 DEF Chained, Links, Succeeds
<1>4. CASE todo' = <<>> \o Tail(todo)
  <2>1. Good(<<>>)' /\ Calmly(<<>>)'
    BY Tuples, SimpleList
  <2> QED
    BY <1>1, <1>3, <1>4, <2>1, GoesOn
<1>5. ASSUME NEW targets, todo' = <<Call("moveTools", targets, "none")>> \o Tail(todo)
      PROVE  Good(todo)'
  <2> PICK c, s : c = Call("moveTools", targets, "none") /\ s = <<c>>
    OBVIOUS
  <2>1. Sequenced(s) /\ Len(s) = 1 /\ s[1] = c /\ c[1] = "moveTools"
    BY Tuples DEF Call
  <2>2. Simple(c) /\ Legal(c)' /\ Calm(c)'
    BY <2>1 DEF Simple, Chained, Succeeds, Links, Legal, KeyCalls, ToolCalls, FullCalls, Begins, Calm, CalmNames
  <2>3. Good(s)' /\ Calmly(s)'
    BY <2>1, <2>2, SimpleList
  <2> QED
    BY <1>1, <1>3, <1>5, <2>3, GoesOn
<1> QED
  BY <1>2, <1>4, <1>5

LEMMA ApplyGood ==
  ASSUME Listing, Good(todo), Requests, UNCHANGED <<item, req>>, Apply
  PROVE  Good(todo)'
<1> PICK k, with, s : /\ k = About /\ with = With
                      /\ s = IF Current(k) THEN <<Call("record", k, with), Call("react", k, with)>> ELSE <<>>
  OBVIOUS
<1>1. todo # <<>> /\ Head(todo)[1] = "apply" /\ todo' = s \o Tail(todo)
  BY DEF Apply, Do, Then
<1>2. ~Chained(Head(todo)) /\ Head(todo)[1] # "record" /\ ~Calm(Head(todo))
  BY <1>1 DEF Chained, Links, Succeeds, Calm, CalmNames, Begins
<1>3. k \in DOMAIN req
  BY <1>1, HeadLegal DEF Legal, KeyCalls, About
<1>4. Good(s)'
  <2>1. CASE ~Current(k)
    BY <2>1, Tuples, SimpleList
  <2>2. CASE Current(k)
    <3> PICK c, d : c = Call("record", k, with) /\ d = Call("react", k, with)
      OBVIOUS
    <3>1. c[1] = "record" /\ c[2] = k /\ d[1] = "react" /\ d[2] = k /\ d[3] = with /\ s = <<c, d>>
      BY <2>2 DEF Call
    <3>2. Current(k)'
      BY <2>2 DEF Current, Newest, Attempts, Closed
    <3>3. Legal(c)' /\ Legal(d)' /\ ~Waits(d)' /\ ~Waits(d)
      BY <1>3, <3>1 DEF Legal, KeyCalls, ToolCalls, FullCalls, Begins, Links, Waits
    <3>4. Foremost(c)'
      BY <3>1, <3>2 DEF Foremost
    <3>5. Good(<<c, d>>)'
      BY <3>1, <3>3, <3>4, Both
    <3> QED
      BY <3>1, <3>5
  <2> QED
    BY <2>1, <2>2
<1> QED
  BY <1>1, <1>2, <1>4, GoesOn

LEMMA FailRequestsGood ==
  ASSUME Bounded, Listing, Finite, Succeeding, DOMAIN req \subseteq DOMAIN req', FailRequests
  PROVE  Good(todo)'
<1> PICK keys, with, n, s : /\ keys = KeysOf(About, {"queued"}) /\ with = With /\ n = Cardinality(keys)
                            /\ s = [i \in 1..n |-> Call("fail", SetToSeq(keys)[i], with)]
  OBVIOUS
<1>1. /\ todo # <<>> /\ Head(todo)[1] = "failRequests" /\ todo' = s \o Tail(todo) /\ UNCHANGED item
  BY DEF FailRequests, Do, Then
<1>2. IsFiniteSet(keys) /\ keys \subseteq DOMAIN req /\ \A k \in keys : req[k].status = "queued"
  <2>1. IsFiniteSet(keys)
    BY FiniteKeys
  <2> QED
    BY <2>1 DEF KeysOf
<1>3. n \in Nat /\ SetToSeq(keys) \in [1..n -> keys]
  BY <1>2, SetListed
<1>4. DOMAIN s = 1..n /\ s = [i \in 1..n |-> s[i]] /\ \A i \in 1..n : s[i] = Call("fail", SetToSeq(keys)[i], with)
  OBVIOUS
<1>5. Sequenced(s) /\ Len(s) = n
  BY <1>3, <1>4, Listed
<1>6. ASSUME NEW i \in 1..n
      PROVE  Simple(s[i]) /\ Legal(s[i])' /\ Calm(s[i])'
  <2> PICK c : c = s[i]
    OBVIOUS
  <2> PICK k \in keys : k = SetToSeq(keys)[i]
    BY <1>3
  <2>1. c[1] = "fail" /\ c[2] = k
    BY <1>4 DEF Call
  <2>2. k \in DOMAIN req' /\ k[1] \in Tools
    BY <1>2 DEF Succeeding, Requests
  <2>3. CapabilityOnly(k[1]) => NotSucceeded(k[1])
    <3>1. ~Unasked(k[1])
      BY <1>2 DEF Unasked, OpenStatuses
    <3> QED
      BY <2>2, <3>1 DEF Succeeding, Items, Booked, NotSucceeded
  <2>4. CapabilityOnly(k[1]) => NotSucceeded(k[1])'
    BY <1>1, <2>3 DEF NotSucceeded
  <2>5. Legal(c)'
    BY <2>1, <2>2, <2>4 DEF Legal, KeyCalls, ToolCalls, FullCalls, Begins, Links, CapabilityOnly
  <2>6. Simple(c) /\ Calm(c)'
    BY <2>1 DEF Simple, Chained, Succeeds, Links, Calm, CalmNames
  <2> QED
    BY <2>5, <2>6
<1>7. Good(s)' /\ Calmly(s)'
  BY <1>5, <1>6, SimpleList
<1>8. ~Chained(Head(todo)) /\ Head(todo)[1] # "record"
  BY <1>1 DEF Chained, Links, Succeeds
<1> QED
  BY <1>1, <1>7, <1>8, GoesOn DEF Succeeding

LEMMA ResumeGood ==
  ASSUME Bounded, Listing, Succeeding, UNCHANGED <<item, req>>, ResumeRetries
  PROVE  Good(todo)'
<1> PICK due, n, s : /\ due = {t \in Tools : item[t].status = "pending" /\ item[t].retry = "model" /\ item[t].due}
                     /\ n = Cardinality(due)
                     /\ s = [i \in 1..n |-> LET t == SetToSeq(due)[i] IN Call("enqueue", t, item[t].stage)]
  OBVIOUS
<1>1. /\ todo # <<>> /\ Head(todo)[1] = "resume"
      /\ todo' = s \o Tail(todo) \/ todo' = <<>> \o Tail(todo)
  BY DEF ResumeRetries, Do, Then
<1>2. IsFiniteSet(due) /\ due \subseteq Tools
  BY FS_Subset DEF Bounded
<1>3. n \in Nat /\ SetToSeq(due) \in [1..n -> due]
  BY <1>2, SetListed
<1>4. /\ DOMAIN s = 1..n /\ s = [i \in 1..n |-> s[i]]
      /\ \A i \in 1..n : s[i] = Call("enqueue", SetToSeq(due)[i], item[SetToSeq(due)[i]].stage)
  OBVIOUS
<1>5. Sequenced(s) /\ Len(s) = n
  BY <1>3, <1>4, Listed
<1>6. ASSUME NEW i \in 1..n
      PROVE  Simple(s[i]) /\ Legal(s[i])' /\ Calm(s[i])'
  <2> PICK c : c = s[i]
    OBVIOUS
  <2> PICK t \in due : t = SetToSeq(due)[i]
    BY <1>3
  <2>1. c[1] = "enqueue" /\ c[2] = t /\ c[3] = item[t].stage
    BY <1>4 DEF Call
  <2>2. t \in Tools /\ item[t].status = "pending" /\ item[t].retry = "model"
    OBVIOUS
  <2>3. item[t].stage \in Stages /\ (CapabilityOnly(t) => item[t].stage = "capability")
    BY <2>2 DEF Succeeding, Items, Booked
  <2>4. NotSucceeded(t)'
    BY <2>2 DEF NotSucceeded
  <2>5. Legal(c)'
    BY <2>1, <2>2, <2>3, <2>4 DEF Legal, KeyCalls, ToolCalls, FullCalls, Begins, Links, CapabilityOnly
  <2>6. Simple(c) /\ Calm(c)'
    BY <2>1 DEF Simple, Chained, Succeeds, Links, Calm, CalmNames, Begins
  <2> QED
    BY <2>5, <2>6
<1>7. Good(s)' /\ Calmly(s)' /\ Good(<<>>)' /\ Calmly(<<>>)'
  <2>1. Good(s)' /\ Calmly(s)'
    BY <1>5, <1>6, SimpleList
  <2>2. Good(<<>>)' /\ Calmly(<<>>)'
    BY SimpleList, Tuples
  <2> QED
    BY <2>1, <2>2
<1>8. ~Chained(Head(todo)) /\ Head(todo)[1] # "record"
  BY <1>1 DEF Chained, Links, Succeeds
<1> QED
  BY <1>1, <1>7, <1>8, GoesOn DEF Succeeding

LEMMA SeedGood ==
  ASSUME Bounded, Listing, Succeeding, UNCHANGED <<item, req>>, Seed
  PROVE  Good(todo)'
<1> DEFINE retries == Take(SourceRetryTools, Max({1, SeedLimit \div 2}))
           left == Max({0, SeedLimit - Cardinality(retries)})
           fresh == Take(NewTools, Max({1, left}))
           spare == Max({0, left - Cardinality(fresh)})
           third == Take(CapabilityTools, spare)
           all == SetToSeq(retries) \o SetToSeq(fresh) \o SetToSeq(third)
           U == retries \cup fresh \cup third
<1>1. U \subseteq SourceRetryTools \cup NewTools \cup CapabilityTools
  BY DEF Take
<1>2. IsFiniteSet(retries) /\ IsFiniteSet(fresh) /\ IsFiniteSet(third)
  BY FS_Subset DEF Bounded, Take, SourceRetryTools, NewTools, CapabilityTools
<1>3. ASSUME NEW t \in U
      PROVE  t \in Tools /\ (CapabilityOnly(t) => NotSucceeded(t) /\ Uncapable(t))
  <2>1. t \in Tools
    BY <1>1 DEF SourceRetryTools, NewTools, CapabilityTools
  <2>2. Booked(t)
    BY <2>1 DEF Succeeding, Items
  <2>3. item[t].retry = "source" \/ item[t].status = "none"
    BY <1>1 DEF SourceRetryTools, NewTools, CapabilityTools
  <2> QED
    BY <2>1, <2>2, <2>3 DEF Booked, NotSucceeded
<1> HIDE DEF retries, fresh, third
<1>4. SetToSeq(retries) \in Seq(U) /\ SetToSeq(fresh) \in Seq(U) /\ SetToSeq(third) \in Seq(U)
  <2>1. SetToSeq(retries) \in Seq(retries) /\ SetToSeq(fresh) \in Seq(fresh) /\ SetToSeq(third) \in Seq(third)
    BY <1>2, SetListed
  <2>2. \A S, T : S \subseteq T => Seq(S) \subseteq Seq(T)
    OBVIOUS
  <2>3. retries \subseteq U /\ fresh \subseteq U /\ third \subseteq U
    OBVIOUS
  <2> HIDE DEF U
  <2>4. Seq(retries) \subseteq Seq(U) /\ Seq(fresh) \subseteq Seq(U) /\ Seq(third) \subseteq Seq(U)
    BY <2>2, <2>3
  <2> QED
    BY <2>1, <2>4
<1>5. all \in Seq(U)
  BY <1>4
<1> PICK rows, s : /\ rows = all
                   /\ s = [i \in 1..Len(rows) |-> Call("seedRow", rows[i], Judgement(rows[i]))]
  OBVIOUS
<1>6. /\ todo # <<>> /\ Head(todo)[1] = "seed"
      /\ todo' = s \o Tail(todo) \/ todo' = <<>> \o Tail(todo)
  BY DEF Seed, Do, Then, retries, fresh, third
<1> HIDE DEF all, U
<1>7. Len(rows) \in Nat /\ \A i \in 1..Len(rows) : rows[i] \in U
  BY <1>5
<1>8. /\ DOMAIN s = 1..Len(rows) /\ s = [i \in 1..Len(rows) |-> s[i]]
      /\ \A i \in 1..Len(rows) : s[i] = Call("seedRow", rows[i], Judgement(rows[i]))
  OBVIOUS
<1>9. Sequenced(s) /\ Len(s) = Len(rows)
  BY <1>7, <1>8, Listed
<1>10. ASSUME NEW i \in 1..Len(rows)
       PROVE  Simple(s[i]) /\ Legal(s[i])' /\ Calm(s[i])'
  <2> PICK c : c = s[i]
    OBVIOUS
  <2> PICK t \in U : t = rows[i]
    BY <1>7
  <2>1. c[1] = "seedRow" /\ c[2] = t
    BY <1>8 DEF Call
  <2>2. t \in Tools /\ (CapabilityOnly(t) => NotSucceeded(t) /\ Uncapable(t))
    BY <1>3
  <2>3. CapabilityOnly(t) => NotSucceeded(t)' /\ Uncapable(t)'
    BY <2>2 DEF NotSucceeded, Uncapable
  <2>4. Legal(c)'
    BY <2>1, <2>2, <2>3 DEF Legal, KeyCalls, ToolCalls, FullCalls, Begins, Links, CapabilityOnly
  <2>5. Simple(c) /\ Calm(c)'
    BY <2>1 DEF Simple, Chained, Succeeds, Links, Calm, CalmNames, Begins
  <2> QED
    BY <2>4, <2>5
<1>11. Good(s)' /\ Calmly(s)' /\ Good(<<>>)' /\ Calmly(<<>>)'
  <2>1. Good(s)' /\ Calmly(s)'
    BY <1>9, <1>10, SimpleList
  <2>2. Good(<<>>)' /\ Calmly(<<>>)'
    BY SimpleList, Tuples
  <2> QED
    BY <2>1, <2>2
<1>12. ~Chained(Head(todo)) /\ Head(todo)[1] # "record"
  BY <1>6 DEF Chained, Links, Succeeds
<1> QED
  BY <1>6, <1>11, <1>12, GoesOn DEF Succeeding

LEMMA SeedRowGood ==
  ASSUME Listing, Succeeding, UNCHANGED <<item, req>>, SeedRow
  PROVE  Good(todo)'
<1> PICK t, with : t = About /\ with = With
  OBVIOUS
<1>1. todo # <<>> /\ Head(todo)[1] = "seedRow"
  BY DEF SeedRow, Do
<1>2. t \in Tools /\ (CapabilityOnly(t) => NotSucceeded(t) /\ Uncapable(t))
  <2>1. Legal(Head(todo)) /\ Head(todo)[2] = t
    BY <1>1, HeadLegal DEF Succeeding, About
  <2> QED
    BY <1>1, <2>1 DEF Legal, ToolCalls, Begins
<1>3. CapabilityOnly(t) => NotSucceeded(t)' /\ Uncapable(t)'
  BY <1>2 DEF NotSucceeded, Uncapable
<1>4. ~Chained(Head(todo)) /\ Head(todo)[1] # "record"
  BY <1>1 DEF Chained, Links, Succeeds
<1>5. ASSUME NEW c, c[1] = "create", c[2] = t, CapabilityOnly(t) => c[3][1] = "stored"
      PROVE  Simple(c) /\ Legal(c)' /\ Calm(c)' /\ Waits(c)
  <2>1. Legal(c)'
    BY <1>2, <1>3, <1>5 DEF Legal, KeyCalls, ToolCalls, FullCalls, Begins, Links, CapabilityOnly
  <2> QED
    BY <1>5, <2>1 DEF Simple, Chained, Succeeds, Links, Calm, CalmNames, Begins, Waits
<1>6. ASSUME NEW c, c[1] \in {"seeded", "sourceFailed"}, c[2] = t, ~CapabilityOnly(t)
      PROVE  Simple(c) /\ Legal(c)' /\ Calm(c)'
  <2>1. Legal(c)'
    BY <1>2, <1>6 DEF Legal, KeyCalls, ToolCalls, FullCalls, Begins, Links, CapabilityOnly
  <2> QED
    BY <1>6, <2>1 DEF Simple, Chained, Succeeds, Links, Calm, CalmNames
<1>7. \/ /\ ~CapabilityOnly(t)
         /\ \/ todo' = <<Call("create", t, <<"captured", with>>), Call("seeded", t, with)>> \o Tail(todo)
            \/ \E outcome : todo' = <<Call("sourceFailed", t, <<outcome, with>>)>> \o Tail(todo)
      \/ todo' = <<Call("create", t, <<"stored", with>>)>> \o Tail(todo)
  BY DEF SeedRow, Then, CapabilityOnly
<1>8. ASSUME NEW s, Sequenced(s), todo' = s \o Tail(todo),
              \A i \in 1..Len(s) : Simple(s[i]) /\ Legal(s[i])' /\ Calm(s[i])'
      PROVE  Good(todo)'
  <2>1. Good(s)' /\ Calmly(s)'
    BY <1>8, SimpleList
  <2> QED
    BY <1>1, <1>4, <1>8, <2>1, GoesOn DEF Succeeding
<1>9. CASE ~CapabilityOnly(t) /\ todo' = <<Call("create", t, <<"captured", with>>), Call("seeded", t, with)>> \o Tail(todo)
  <2> PICK c, d, s : c = Call("create", t, <<"captured", with>>) /\ d = Call("seeded", t, with) /\ s = <<c, d>>
    OBVIOUS
  <2>1. c[1] = "create" /\ c[2] = t /\ d[1] = "seeded" /\ d[2] = t
    BY DEF Call
  <2>2. Sequenced(s) /\ Len(s) = 2 /\ s[1] = c /\ s[2] = d
    BY Tuples
  <2>3. \A i \in 1..2 : i = 1 \/ i = 2
    OBVIOUS
  <2>4. Simple(c) /\ Legal(c)' /\ Calm(c)' /\ Simple(d) /\ Legal(d)' /\ Calm(d)'
    BY <1>5, <1>6, <1>9, <2>1
  <2>5. \A i \in 1..Len(s) : Simple(s[i]) /\ Legal(s[i])' /\ Calm(s[i])'
    BY <2>2, <2>3, <2>4
  <2> QED
    BY <1>8, <1>9, <2>2, <2>5
<1>10. ASSUME ~CapabilityOnly(t), NEW outcome, todo' = <<Call("sourceFailed", t, <<outcome, with>>)>> \o Tail(todo)
       PROVE  Good(todo)'
  <2> PICK c, s : c = Call("sourceFailed", t, <<outcome, with>>) /\ s = <<c>>
    OBVIOUS
  <2>1. c[1] = "sourceFailed" /\ c[2] = t
    BY DEF Call
  <2>2. Sequenced(s) /\ Len(s) = 1 /\ s[1] = c
    BY Tuples
  <2>3. Simple(c) /\ Legal(c)' /\ Calm(c)'
    BY <1>6, <1>10, <2>1
  <2>4. \A i \in 1..Len(s) : Simple(s[i]) /\ Legal(s[i])' /\ Calm(s[i])'
    BY <2>2, <2>3
  <2> QED
    BY <1>8, <1>10, <2>2, <2>4
<1>11. CASE todo' = <<Call("create", t, <<"stored", with>>)>> \o Tail(todo)
  <2> PICK c, s : c = Call("create", t, <<"stored", with>>) /\ s = <<c>>
    OBVIOUS
  <2>1. c[1] = "create" /\ c[2] = t /\ c[3][1] = "stored"
    BY DEF Call
  <2>2. Sequenced(s) /\ Len(s) = 1 /\ s[1] = c
    BY Tuples
  <2>3. Simple(c) /\ Legal(c)' /\ Calm(c)'
    BY <1>5, <2>1
  <2>4. \A i \in 1..Len(s) : Simple(s[i]) /\ Legal(s[i])' /\ Calm(s[i])'
    BY <2>2, <2>3
  <2> QED
    BY <1>8, <1>11, <2>2, <2>4
<1> QED
  BY <1>7, <1>9, <1>10, <1>11

LEMMA SourceFailedGood ==
  ASSUME Listing, Succeeding, UNCHANGED <<item, req>>, SourceFailed
  PROVE  Good(todo)'
<1> PICK t, with, c, s : /\ t = About /\ with = With /\ s = <<c>>
                         /\ c = IF item[t].status = "none" THEN Call("create", t, with) ELSE Call("retrySource", t, with[1])
  OBVIOUS
<1>1. todo # <<>> /\ Head(todo)[1] = "sourceFailed" /\ todo' = s \o Tail(todo)
  BY DEF SourceFailed, Do, Then
<1>2. t \in Tools /\ ~CapabilityOnly(t)
  <2>1. Legal(Head(todo)) /\ Head(todo)[2] = t
    BY <1>1, HeadLegal DEF Succeeding, About
  <2> QED
    BY <1>1, <2>1 DEF Legal, ToolCalls, FullCalls
<1>3. c[1] \in {"create", "retrySource"} /\ c[2] = t
  BY DEF Call
<1>4. Legal(c)'
  BY <1>2, <1>3 DEF Legal, KeyCalls, ToolCalls, FullCalls, Begins, Links, CapabilityOnly
<1>5. Simple(c) /\ Calm(c)'
  BY <1>3 DEF Simple, Chained, Succeeds, Links, Calm, CalmNames, Begins
<1>6. Sequenced(s) /\ Len(s) = 1 /\ s[1] = c
  BY Tuples
<1>7. Good(s)' /\ Calmly(s)'
  BY <1>4, <1>5, <1>6, SimpleList
<1>8. ~Chained(Head(todo)) /\ Head(todo)[1] # "record"
  BY <1>1 DEF Chained, Links, Succeeds
<1> QED
  BY <1>1, <1>7, <1>8, GoesOn DEF Succeeding

(* The pass begins, stops or is given up.                                    *)
LEMMA PassGood ==
  ASSUME StartPass \/ StopPass \/ Release
  PROVE  Good(todo)'
<1>1. CASE StartPass
  <2> DEFINE names == <<"reconcile", "poll", "seed", "resume", "submit", "reconcileTerminal">>
  <2> PICK s : s = [i \in 1..6 |-> Call(names[i], "none", "none")]
    OBVIOUS
  <2>1. todo' = s
    BY <1>1 DEF StartPass
  <2>2. DOMAIN s = 1..6 /\ s = [i \in 1..6 |-> s[i]]
    OBVIOUS
  <2>3. ASSUME NEW i \in 1..6
        PROVE  Loose(s[i], DOMAIN req')
    <3>1. s[i] = Call(names[i], "none", "none")
      OBVIOUS
    <3>2. names[i] \in {"reconcile", "poll", "seed", "resume", "submit", "reconcileTerminal"}
      <4>1. i = 1 \/ i = 2 \/ i = 3 \/ i = 4 \/ i = 5 \/ i = 6
        OBVIOUS
      <4> QED
        BY <4>1
    <3> HIDE DEF names
    <3>3. names[i] \notin Marked
      BY <3>2 DEF Marked, KeyCalls, ToolCalls, FullCalls, Begins, Links
    <3> QED
      BY <3>1, <3>3, LooseCalls
  <2>4. AllLoose(s, DOMAIN req')
    BY <2>2, <2>3, LooseList
  <2> QED
    BY <2>1, <2>4, StartsLoose
<1>2. CASE StopPass
  <2>1. todo' = <<>>
    BY <1>2 DEF StopPass
  <2>2. AllLoose(<<>>, DOMAIN req')
    BY LooseTuples
  <2> QED
    BY <2>1, <2>2, StartsLoose
<1>3. CASE Release
  <2>1. todo' = <<Call("reconcileTerminal", "none", "none")>>
    BY <1>3 DEF Release
  <2>2. AllLoose(<<Call("reconcileTerminal", "none", "none")>>, DOMAIN req')
    BY LooseCalls, LooseTuples DEF Marked, KeyCalls, ToolCalls, FullCalls, Begins, Links
  <2> QED
    BY <2>1, <2>2, StartsLoose
<1> QED
  BY <1>1, <1>2, <1>3

(* A failed call is followed by the end of its try block.                    *)
LEMMA FailedCallGood ==
  ASSUME Listing, Succeeding, UNCHANGED <<item, req>>, CallFails
  PROVE  Good(todo)'
<1>1. PICK m \in 2..Len(todo) :
        /\ IsMarker(todo[m])
        /\ \/ Resumed(<<>>, m)
           \/ /\ todo[m][1] = "seeded"
              /\ \E with : Resumed(<<Call("sourceFailed", todo[m][2], with)>>, m + 1)
  BY InterruptedAt
<1>2. Len(todo) \in Nat /\ m \in 1..Len(todo) /\ Good(todo) /\ Requests /\ Sequenced(todo)
  BY IsSequence DEF Succeeding, Good, Sequenced
<1>3. ASSUME NEW i \in m..Len(todo)
      PROVE  todo[i][1] # "react" /\ ~Chained(todo[i])
  <2>1. ~Chained(todo[m]) /\ todo[m][1] # "react"
    BY <1>1 DEF IsMarker, Chained, Links, Succeeds
  <2>2. CASE i = m
    BY <2>1, <2>2
  <2>3. CASE i # m
    <3>1. i \in 1..Len(todo) /\ m \in 1..(i - 1) /\ i # 1 /\ i # 2
      BY <1>1, <1>2, <2>3
    <3> QED
      BY <1>2, <2>1, <3>1 DEF Good, Strung, Placed
  <2> QED
    BY <2>2, <2>3
<1>4. \A c : Later(c) => Legal(c)'
  BY <1>2, KeptItems, LegalStays
<1>5. ASSUME NEW s, NEW n, n = m \/ n = m + 1, Resumed(s, n), Good(s)', Calmly(s)'
      PROVE  Good(todo)'
  <2>1. \A i \in n..Len(todo) : todo[i][1] # "react" /\ ~Chained(todo[i])
    BY <1>2, <1>3, <1>5
  <2>2. \A q : q = todo' => Good(q)'
    BY <1>2, <1>4, <1>5, <2>1, Continues DEF Calmly
  <2> QED
    BY <2>2, GoodNext
<1>6. CASE Resumed(<<>>, m)
  <2>1. Good(<<>>)' /\ Calmly(<<>>)'
    BY SimpleList, Tuples
  <2> QED
    BY <1>5, <1>6, <2>1
<1>7. ASSUME todo[m][1] = "seeded", NEW with, Resumed(<<Call("sourceFailed", todo[m][2], with)>>, m + 1)
      PROVE  Good(todo)'
  <2> PICK c, s : c = Call("sourceFailed", todo[m][2], with) /\ s = <<c>>
    OBVIOUS
  <2>1. c[1] = "sourceFailed" /\ c[2] = todo[m][2] /\ Sequenced(s) /\ Len(s) = 1 /\ s[1] = c
    BY Tuples DEF Call
  <2>2. todo[m][2] \in Tools /\ ~CapabilityOnly(todo[m][2])
    <3>1. Legal(todo[m])
      BY <1>2 DEF Good, Lawful
    <3> QED
      BY <1>7, <3>1 DEF Legal, FullCalls, ToolCalls
  <2>3. Legal(c)'
    BY <2>1, <2>2 DEF Legal, KeyCalls, ToolCalls, FullCalls, Begins, Links, CapabilityOnly
  <2>4. Simple(c) /\ Calm(c)'
    BY <2>1 DEF Simple, Chained, Succeeds, Links, Calm, CalmNames
  <2>5. Good(s)' /\ Calmly(s)'
    BY <2>1, <2>3, <2>4, SimpleList
  <2> QED
    BY <1>5, <1>7, <2>5
<1> QED
  BY <1>1, <1>6, <1>7

-----------------------------------------------------------------------------
(* The items.                                                                *)

(* What is told apart of an item.                                            *)
Told(y, status, stage, retry, leaf, cap, run) ==
  /\ ItemRow(y) /\ y.status = status /\ y.stage = stage /\ y.retry = retry
  /\ y.leaf = leaf /\ y.cap = cap /\ y.run = run

LEMMA ItemField ==
  ASSUME NEW x, ItemRow(x), NEW v, NEW w, NEW n
  PROVE  /\ Told([x EXCEPT !.stage = v, !.status = "running", !.retry = "none", !.tries = 0, !.due = FALSE],
                   "running", v, "none", x.leaf, x.cap, x.run)
         /\ Told([x EXCEPT !.run = v], x.status, x.stage, x.retry, x.leaf, x.cap, v)
         /\ Told([x EXCEPT !.status = v, !.stage = "complete", !.text = FALSE, !.retry = "none", !.due = FALSE,
                             !.run = n], v, "complete", "none", x.leaf, x.cap, n)
         /\ Told([x EXCEPT !.l1 = v], x.status, x.stage, x.retry, x.leaf, x.cap, x.run)
         /\ Told([x EXCEPT !.leaf = v], x.status, x.stage, x.retry, v, x.cap, x.run)
         /\ Told([x EXCEPT !.cap = v], x.status, x.stage, x.retry, x.leaf, v, x.run)
         /\ Told([x EXCEPT !.profile = v, !.text = FALSE], x.status, x.stage, x.retry, x.leaf, x.cap, x.run)
         /\ Told([x EXCEPT !.text = FALSE, !.profile = v], x.status, x.stage, x.retry, x.leaf, x.cap, x.run)
         /\ Told([x EXCEPT !.text = v], x.status, x.stage, x.retry, x.leaf, x.cap, x.run)
         /\ Told([x EXCEPT !.due = v], x.status, x.stage, x.retry, x.leaf, x.cap, x.run)
         /\ Told([x EXCEPT !.tries = v], x.status, x.stage, x.retry, x.leaf, x.cap, x.run)
         /\ Told([x EXCEPT !.status = "pending", !.retry = "model", !.tries = v, !.due = FALSE],
                   "pending", x.stage, "model", x.leaf, x.cap, x.run)
         /\ Told([x EXCEPT !.status = "pending", !.stage = "profile", !.retry = "source", !.tries = v, !.due = FALSE],
                   "pending", "profile", "source", x.leaf, x.cap, x.run)
         /\ Told([x EXCEPT !.status = "pending", !.stage = "l1", !.profile = v, !.text = FALSE],
                   "pending", "l1", x.retry, x.leaf, x.cap, x.run)
         /\ Told([x EXCEPT !.status = v, !.judged = w], v, x.stage, x.retry, x.leaf, x.cap, x.run)
<1>0. PICK a, b, c, d, e, f, g, h, i, j, k, l :
      x = [status |-> a, stage |-> b, retry |-> c, tries |-> d, due |-> e, text |-> f, profile |-> g, l1 |-> h,
           leaf |-> i, cap |-> j, run |-> k, judged |-> l]
  BY DEF ItemRow
<1>1. Told([x EXCEPT !.stage = v, !.status = "running", !.retry = "none", !.tries = 0, !.due = FALSE],
       "running", v, "none", x.leaf, x.cap, x.run)
  <2> PICK y : y = [x EXCEPT !.stage = v, !.status = "running", !.retry = "none", !.tries = 0, !.due = FALSE]
    OBVIOUS
  <2>1. y = [status |-> "running", stage |-> v, retry |-> "none", tries |-> 0, due |-> FALSE,
            text |-> f, profile |-> g, l1 |-> h, leaf |-> i, cap |-> j, run |-> k, judged |-> l]
    BY <1>0
  <2> QED
    BY <1>0, <2>1 DEF Told, ItemRow
<1>2. Told([x EXCEPT !.run = v], x.status, x.stage, x.retry, x.leaf, x.cap, v)
  BY <1>0 DEF Told, ItemRow
<1>3. Told([x EXCEPT !.status = v, !.stage = "complete", !.text = FALSE, !.retry = "none", !.due = FALSE,
       !.run = n], v, "complete", "none", x.leaf, x.cap, n)
  <2> PICK y : y = [x EXCEPT !.status = v, !.stage = "complete", !.text = FALSE, !.retry = "none", !.due = FALSE,
       !.run = n]
    OBVIOUS
  <2>1. y = [status |-> v, stage |-> "complete", retry |-> "none", tries |-> d, due |-> FALSE,
            text |-> FALSE, profile |-> g, l1 |-> h, leaf |-> i, cap |-> j, run |-> n, judged |-> l]
    BY <1>0
  <2> QED
    BY <1>0, <2>1 DEF Told, ItemRow
<1>4. Told([x EXCEPT !.l1 = v], x.status, x.stage, x.retry, x.leaf, x.cap, x.run)
  BY <1>0 DEF Told, ItemRow
<1>5. Told([x EXCEPT !.leaf = v], x.status, x.stage, x.retry, v, x.cap, x.run)
  BY <1>0 DEF Told, ItemRow
<1>6. Told([x EXCEPT !.cap = v], x.status, x.stage, x.retry, x.leaf, v, x.run)
  BY <1>0 DEF Told, ItemRow
<1>7. Told([x EXCEPT !.profile = v, !.text = FALSE], x.status, x.stage, x.retry, x.leaf, x.cap, x.run)
  <2> PICK y : y = [x EXCEPT !.profile = v, !.text = FALSE]
    OBVIOUS
  <2>1. y = [status |-> a, stage |-> b, retry |-> c, tries |-> d, due |-> e,
            text |-> FALSE, profile |-> v, l1 |-> h, leaf |-> i, cap |-> j, run |-> k, judged |-> l]
    BY <1>0
  <2> QED
    BY <1>0, <2>1 DEF Told, ItemRow
<1>8. Told([x EXCEPT !.text = FALSE, !.profile = v], x.status, x.stage, x.retry, x.leaf, x.cap, x.run)
  <2> PICK y : y = [x EXCEPT !.text = FALSE, !.profile = v]
    OBVIOUS
  <2>1. y = [status |-> a, stage |-> b, retry |-> c, tries |-> d, due |-> e,
            text |-> FALSE, profile |-> v, l1 |-> h, leaf |-> i, cap |-> j, run |-> k, judged |-> l]
    BY <1>0
  <2> QED
    BY <1>0, <2>1 DEF Told, ItemRow
<1>9. Told([x EXCEPT !.text = v], x.status, x.stage, x.retry, x.leaf, x.cap, x.run)
  BY <1>0 DEF Told, ItemRow
<1>10. Told([x EXCEPT !.due = v], x.status, x.stage, x.retry, x.leaf, x.cap, x.run)
  BY <1>0 DEF Told, ItemRow
<1>11. Told([x EXCEPT !.tries = v], x.status, x.stage, x.retry, x.leaf, x.cap, x.run)
  BY <1>0 DEF Told, ItemRow
<1>12. Told([x EXCEPT !.status = "pending", !.retry = "model", !.tries = v, !.due = FALSE],
       "pending", x.stage, "model", x.leaf, x.cap, x.run)
  <2> PICK y : y = [x EXCEPT !.status = "pending", !.retry = "model", !.tries = v, !.due = FALSE]
    OBVIOUS
  <2>1. y = [status |-> "pending", stage |-> b, retry |-> "model", tries |-> v, due |-> FALSE,
            text |-> f, profile |-> g, l1 |-> h, leaf |-> i, cap |-> j, run |-> k, judged |-> l]
    BY <1>0
  <2> QED
    BY <1>0, <2>1 DEF Told, ItemRow
<1>13. Told([x EXCEPT !.status = "pending", !.stage = "profile", !.retry = "source", !.tries = v, !.due = FALSE],
       "pending", "profile", "source", x.leaf, x.cap, x.run)
  <2> PICK y : y = [x EXCEPT !.status = "pending", !.stage = "profile", !.retry = "source", !.tries = v, !.due = FALSE]
    OBVIOUS
  <2>1. y = [status |-> "pending", stage |-> "profile", retry |-> "source", tries |-> v, due |-> FALSE,
            text |-> f, profile |-> g, l1 |-> h, leaf |-> i, cap |-> j, run |-> k, judged |-> l]
    BY <1>0
  <2> QED
    BY <1>0, <2>1 DEF Told, ItemRow
<1>14. Told([x EXCEPT !.status = "pending", !.stage = "l1", !.profile = v, !.text = FALSE],
       "pending", "l1", x.retry, x.leaf, x.cap, x.run)
  <2> PICK y : y = [x EXCEPT !.status = "pending", !.stage = "l1", !.profile = v, !.text = FALSE]
    OBVIOUS
  <2>1. y = [status |-> "pending", stage |-> "l1", retry |-> c, tries |-> d, due |-> e,
            text |-> FALSE, profile |-> v, l1 |-> h, leaf |-> i, cap |-> j, run |-> k, judged |-> l]
    BY <1>0
  <2> QED
    BY <1>0, <2>1 DEF Told, ItemRow
<1>15. Told([x EXCEPT !.status = v, !.judged = w], v, x.stage, x.retry, x.leaf, x.cap, x.run)
  <2> PICK y : y = [x EXCEPT !.status = v, !.judged = w]
    OBVIOUS
  <2>1. y = [status |-> v, stage |-> b, retry |-> c, tries |-> d, due |-> e,
            text |-> f, profile |-> g, l1 |-> h, leaf |-> i, cap |-> j, run |-> k, judged |-> w]
    BY <1>0
  <2> QED
    BY <1>0, <2>1 DEF Told, ItemRow
<1> QED
  BY <1>1, <1>2, <1>3, <1>4, <1>5, <1>6, <1>7, <1>8, <1>9, <1>10, <1>11, <1>12, <1>13, <1>14, <1>15

(* One item is written and the rows it refers to stay.                       *)
LEMMA ItemsHold ==
  ASSUME Items, NEW t \in Tools, NEW x, SetItem(t, x), ItemRow(x), UNCHANGED <<runs, assign>>,
         \A u \in Tools : u # t /\ Unasked(u) => Unasked(u)',
         Booked(t)'
  PROVE  Items' /\ item'[t] = x /\ \A u \in Tools : u # t => item'[u] = item[u]
<1>1. item' = [u \in Tools |-> IF u = t THEN x ELSE item[u]]
  <2>1. item = [u \in Tools |-> item[u]] /\ item' = [item EXCEPT ![t] = x]
    BY DEF Items, SetItem
  <2> QED
    BY <2>1
<1>2. item'[t] = x /\ \A u \in Tools : u # t => item'[u] = item[u]
  BY <1>1
<1>3. item' = [u \in Tools |-> item'[u]]
  BY <1>1
<1>4. ASSUME NEW u \in Tools, u # t
      PROVE  Booked(u)'
  <2>1. item'[u] = item[u] /\ Booked(u)
    BY <1>2, <1>4 DEF Items
  <2> QED
    BY <1>4, <2>1 DEF Booked, Inscribed, Opened, Chosen, Given, Uncapable, CapabilityOnly
<1>5. \A u \in Tools : Filed(u)' /\ Sequenced(runs[u])'
  BY DEF Items, Filed
<1>6. \A u \in Tools : ItemRow(item[u])'
  <2>1. \A u \in Tools : ItemRow(item'[u])
    BY <1>2 DEF Items
  <2> QED
    BY <2>1 DEF ItemRow
<1>7. (runs = [u \in Tools |-> runs[u]])'
  BY DEF Items
<1> QED
  BY <1>2, <1>3, <1>4, <1>5, <1>6, <1>7 DEF Items

(* No item is written.                                                       *)
LEMMA ItemsStay ==
  ASSUME Items, UNCHANGED <<item, runs, assign>>,
         \A u \in Tools : CapabilityOnly(u) /\ item[u].status = "succeeded" /\ Unasked(u) => Unasked(u)'
  PROVE  Items'
<1>1. ASSUME NEW u \in Tools
      PROVE  Booked(u)' /\ Filed(u)' /\ Sequenced(runs[u])'
  <2>1. Booked(u) /\ Filed(u) /\ Sequenced(runs[u])
    BY DEF Items
  <2> QED
    BY <2>1 DEF Booked, Inscribed, Opened, Chosen, Given, Uncapable, CapabilityOnly, Filed
<1>2. (item = [u \in Tools |-> item[u]] /\ runs = [u \in Tools |-> runs[u]] /\ \A u \in Tools : ItemRow(item[u]))'
  BY DEF Items
<1> QED
  BY <1>1, <1>2 DEF Items

LEMMA GoesWriting ==
  ASSUME Listing, Good(todo), Requests, todo # <<>>, ~Chained(Head(todo)), Head(todo)[1] # "record",
         DOMAIN req \subseteq DOMAIN req', NEW s, Good(s)', todo' = s \o Tail(todo),
         Calm(Head(todo)) => Kept /\ Calmly(s)'
  PROVE  Good(todo)'
BY HeadLegal, Proceeds

LEMMA KeptBy ==
  ASSUME NEW t, \A u \in Tools : u # t => item'[u] = item[u],
         item'[t].status # "succeeded" \/ item'[t].status = item[t].status,
         item'[t].cap = item[t].cap \/ item'[t].cap \notin Capabilities
  PROVE  Kept
BY DEF Kept, NotSucceeded, Uncapable

LEMMA NothingGood ==
  Good(<<>>)' /\ Calmly(<<>>)'
BY Tuples, SimpleList

LEMMA OneSimple ==
  ASSUME NEW c, NEW s, s = <<c>>, Simple(c), Legal(c)', Calm(c)'
  PROVE  Good(s)' /\ Calmly(s)'
<1>1. Sequenced(s) /\ Len(s) = 1 /\ s[1] = c
  BY Tuples
<1> QED
  BY <1>1, SimpleList

(* An item enters a stage.                                                   *)
LEMMA EnterHolds ==
  ASSUME Items, NEW t \in Tools, NEW stage \in Stages, EnterStage(t, stage), UNCHANGED <<req, runs, assign>>
  PROVE  Items' /\ Kept
<1> PICK x : x = [item[t] EXCEPT !.stage = stage, !.status = "running", !.retry = "none", !.tries = 0, !.due = FALSE]
  OBVIOUS
<1>1. Told(x, "running", stage, "none", item[t].leaf, item[t].cap, item[t].run) /\ SetItem(t, x)
  BY ItemField DEF Items, EnterStage
<1>2. \A u \in Tools : Unasked(u) => Unasked(u)'
  BY DEF Unasked
<1>3. item'[t] = x
  BY DEF Items, EnterStage, SetItem
<1>4. Booked(t)'
  BY <1>1, <1>3 DEF Items, Booked, Told, TerminalStatuses
<1>5. Items' /\ item'[t] = x /\ \A u \in Tools : u # t => item'[u] = item[u]
  BY <1>1, <1>2, <1>4, ItemsHold DEF Told
<1>6. Kept
  BY <1>1, <1>5, KeptBy DEF Told
<1> QED
  BY <1>5, <1>6

LEMMA EnqueueGood ==
  ASSUME Listing, Tabled, Succeeding, Enqueue
  PROVE  Succeeding'
<1> PICK t, stage, k : t = About /\ stage = With /\ k = Key(t, stage, Newest(t, stage) + 1)
  OBVIOUS
<1>1. todo # <<>> /\ Head(todo)[1] = "enqueue" /\ UNCHANGED <<runs, assign>>
  BY DEF Enqueue, Do
<1>2. t \in Tools /\ stage \in Stages /\ (CapabilityOnly(t) => stage = "capability" /\ NotSucceeded(t))
  <2>1. Legal(Head(todo)) /\ Head(todo)[2] = t /\ Head(todo)[3] = stage
    BY <1>1, HeadLegal DEF Succeeding, About, With
  <2> QED
    BY <1>1, <2>1 DEF Legal, ToolCalls, Begins
<1>3. ~Chained(Head(todo)) /\ Head(todo)[1] # "record"
  BY <1>1 DEF Chained, Links, Succeeds
<1>4. Requests' /\ DOMAIN req \subseteq DOMAIN req' /\ \A u : u # t /\ Unasked(u) => Unasked(u)'
  BY <1>2, EnqueueHolds DEF Succeeding
<1>5. CASE EnterStage(t, stage) /\ Skip /\ UNCHANGED req
  <2>1. Items' /\ Kept
    BY <1>1, <1>2, <1>5, EnterHolds DEF Succeeding
  <2>2. todo' = <<>> \o Tail(todo)
    BY <1>5 DEF Skip, Then
  <2>3. Good(todo)'
    BY <1>1, <1>3, <1>4, <2>1, <2>2, NothingGood, GoesWriting DEF Succeeding
  <2> QED
    BY <1>4, <2>1, <2>3 DEF Succeeding
<1>6. CASE Then(<<Call("enter", t, stage)>>) /\ UNCHANGED item
  <2>1. Items'
    BY <1>1, <1>2, <1>4, <1>6, ItemsStay DEF Succeeding, NotSucceeded
  <2>2. Kept
    BY <1>6, KeptItems
  <2> PICK c, s : c = Call("enter", t, stage) /\ s = <<c>>
    OBVIOUS
  <2>3. c[1] = "enter" /\ c[2] = t /\ c[3] = stage
    BY DEF Call
  <2>4. Legal(c)'
    BY <1>2, <2>3 DEF Legal, KeyCalls, ToolCalls, FullCalls, Begins, Links, CapabilityOnly
  <2>5. Simple(c) /\ Calm(c)'
    BY <2>3 DEF Simple, Chained, Succeeds, Links, Calm, CalmNames
  <2>6. Good(s)' /\ Calmly(s)'
    BY <2>4, <2>5, OneSimple
  <2>7. todo' = s \o Tail(todo)
    BY <1>6 DEF Then
  <2>8. Good(todo)'
    BY <1>1, <1>3, <1>4, <2>2, <2>6, <2>7, GoesWriting DEF Succeeding
  <2> QED
    BY <1>4, <2>1, <2>8 DEF Succeeding
<1> QED
  BY <1>5, <1>6 DEF Enqueue

LEMMA EnterGood ==
  ASSUME Listing, Succeeding, Enter
  PROVE  Good(todo)' /\ Items'
<1> PICK t, stage : t = About /\ stage = With
  OBVIOUS
<1>1. /\ todo # <<>> /\ Head(todo)[1] = "enter" /\ UNCHANGED <<req, runs, assign>>
      /\ EnterStage(t, stage) /\ todo' = <<>> \o Tail(todo)
  BY DEF Enter, Do, Skip, Then
<1>2. t \in Tools /\ stage \in Stages
  <2>1. Legal(Head(todo)) /\ Head(todo)[2] = t /\ Head(todo)[3] = stage
    BY <1>1, HeadLegal DEF Succeeding, About, With
  <2> QED
    BY <1>1, <2>1 DEF Legal, ToolCalls
<1>3. ~Chained(Head(todo)) /\ Head(todo)[1] # "record"
  BY <1>1 DEF Chained, Links, Succeeds
<1>4. Items' /\ Kept
  BY <1>1, <1>2, EnterHolds DEF Succeeding
<1>5. DOMAIN req \subseteq DOMAIN req'
  BY <1>1
<1>6. Good(todo)'
  BY <1>1, <1>3, <1>4, <1>5, NothingGood, GoesWriting DEF Succeeding
<1> QED
  BY <1>4, <1>6

(* A write that leaves apart what is told of an item.                        *)
LEMMA SameFields ==
  ASSUME Items, NEW t \in Tools, NEW x, SetItem(t, x), UNCHANGED <<runs, assign>>,
         Told(x, item[t].status, item[t].stage, item[t].retry, item[t].leaf, item[t].cap, item[t].run),
         \A u \in Tools : Unasked(u) => Unasked(u)'
  PROVE  Items' /\ Kept /\ item'[t] = x /\ \A u \in Tools : u # t => item'[u] = item[u]
<1>1. item'[t] = x
  BY DEF Items, SetItem
<1>2. Booked(t)'
  <2>1. Booked(t)
    BY DEF Items
  <2>2. /\ item'[t].status = item[t].status /\ item'[t].stage = item[t].stage /\ item'[t].retry = item[t].retry
        /\ item'[t].leaf = item[t].leaf /\ item'[t].cap = item[t].cap /\ item'[t].run = item[t].run
    BY <1>1 DEF Told
  <2> QED
    BY <2>1, <2>2 DEF Booked, Inscribed, Opened, Chosen, Given, Uncapable, CapabilityOnly
<1>3. Items' /\ item'[t] = x /\ \A u \in Tools : u # t => item'[u] = item[u]
  BY <1>2, ItemsHold DEF Told
<1>4. Kept
  BY <1>3, KeptBy DEF Told
<1> QED
  BY <1>3, <1>4

LEMMA AskedStays ==
  ASSUME UNCHANGED req
  PROVE  \A u : Unasked(u) => Unasked(u)'
BY DEF Unasked

(* An item without a run has not succeeded.                                  *)
LEMMA RunlessOpen ==
  ASSUME Items, NEW t \in Tools, item[t].run = 0
  PROVE  NotSucceeded(t)
BY DEF Items, Booked, Inscribed, Opened, NotSucceeded

LEMMA SaveProfileGood ==
  ASSUME Listing, Succeeding, SaveProfile
  PROVE  Good(todo)' /\ Items'
<1> PICK t, with, c, s, x : /\ t = About /\ with = With /\ c = Call("afterProfile", t, with) /\ s = <<c>>
                            /\ x = [item[t] EXCEPT !.profile = with, !.text = FALSE]
  OBVIOUS
<1>1. /\ todo # <<>> /\ Head(todo)[1] = "saveProfile" /\ UNCHANGED <<req, runs, assign>>
      /\ SetItem(t, x) /\ todo' = s \o Tail(todo)
  BY DEF SaveProfile, Do, Then
<1>2. t \in Tools /\ ~CapabilityOnly(t)
  <2>1. Legal(Head(todo)) /\ Head(todo)[2] = t
    BY <1>1, HeadLegal DEF Succeeding, About
  <2> QED
    BY <1>1, <2>1 DEF Legal, ToolCalls, FullCalls
<1>3. ~Chained(Head(todo)) /\ Head(todo)[1] # "record" /\ ~Calm(Head(todo))
  BY <1>1 DEF Chained, Links, Succeeds, Calm, CalmNames, Begins
<1>4. Items'
  <2>1. Told(x, item[t].status, item[t].stage, item[t].retry, item[t].leaf, item[t].cap, item[t].run)
    BY <1>2, ItemField DEF Succeeding, Items
  <2> QED
    BY <1>1, <1>2, <2>1, AskedStays, SameFields DEF Succeeding
<1>5. c[1] = "afterProfile" /\ c[2] = t
  BY DEF Call
<1>6. Legal(c)'
  BY <1>2, <1>5 DEF Legal, KeyCalls, ToolCalls, FullCalls, Begins, Links, CapabilityOnly
<1>7. Good(s)'
  BY <1>5, <1>6, SimpleAlone DEF Simple, Chained, Succeeds, Links
<1>8. DOMAIN req \subseteq DOMAIN req'
  BY <1>1
<1>9. Good(todo)'
  BY <1>1, <1>3, <1>7, <1>8, GoesWriting DEF Succeeding
<1> QED
  BY <1>4, <1>9

LEMMA HandleFailureGood ==
  ASSUME Listing, Succeeding, HandleFailure
  PROVE  Good(todo)' /\ Items'
<1> PICK k, t, stage, with : k = About /\ t = k[1] /\ stage = k[2] /\ with = With
  OBVIOUS
<1>1. todo # <<>> /\ Head(todo)[1] = "fail" /\ UNCHANGED <<req, runs, assign>>
  BY DEF HandleFailure, Do
<1>2. /\ k \in DOMAIN req /\ t \in Tools /\ stage \in Stages /\ (CapabilityOnly(t) => stage = "capability")
      /\ CapabilityOnly(t) => NotSucceeded(t)
  <2>1. Legal(Head(todo)) /\ Head(todo)[2] = k
    BY <1>1, HeadLegal DEF Succeeding, About
  <2>2. k \in DOMAIN req /\ (CapabilityOnly(t) => NotSucceeded(t))
    BY <1>1, <2>1 DEF Legal, KeyCalls
  <2> QED
    BY <2>2 DEF Succeeding, Requests
<1>3. ~Chained(Head(todo)) /\ Head(todo)[1] # "record"
  BY <1>1 DEF Chained, Links, Succeeds
<1>4. DOMAIN req \subseteq DOMAIN req'
  BY <1>1
<1>5. ASSUME UNCHANGED item, NEW s, Good(s)', Calmly(s)', todo' = s \o Tail(todo)
      PROVE  Good(todo)' /\ Items'
  <2>1. Items'
    BY <1>1, <1>5, AskedStays, ItemsStay DEF Succeeding
  <2>2. Good(todo)'
    BY <1>1, <1>3, <1>4, <1>5, GoesOn DEF Succeeding
  <2> QED
    BY <2>1, <2>2
<1>6. ASSUME UNCHANGED item, NEW to \in Stages, CapabilityOnly(t) => to = "capability",
             todo' = <<Call("enqueue", t, to)>> \o Tail(todo)
      PROVE  Good(todo)' /\ Items'
  <2> PICK c, s : c = Call("enqueue", t, to) /\ s = <<c>>
    OBVIOUS
  <2>1. c[1] = "enqueue" /\ c[2] = t /\ c[3] = to
    BY DEF Call
  <2>2. CapabilityOnly(t) => NotSucceeded(t)'
    BY <1>2, <1>6 DEF NotSucceeded
  <2>3. Legal(c)'
    BY <1>2, <1>6, <2>1, <2>2 DEF Legal, KeyCalls, ToolCalls, FullCalls, Begins, Links, CapabilityOnly
  <2>4. Simple(c) /\ Calm(c)'
    BY <2>1 DEF Simple, Chained, Succeeds, Links, Calm, CalmNames, Begins
  <2>5. Good(s)' /\ Calmly(s)'
    BY <2>3, <2>4, OneSimple
  <2> QED
    BY <1>5, <1>6, <2>5
<1>7. CASE stage = "capability" /\ Then(<<Call("enqueue", t, "capability")>>) /\ UNCHANGED item
  BY <1>2, <1>6, <1>7 DEF Then
<1>8. CASE /\ MayRetry(k, with) /\ Skip
           /\ SetItem(t, [item[t] EXCEPT !.status = "pending", !.retry = "model", !.tries = k[3], !.due = FALSE])
  <2> PICK x : x = [item[t] EXCEPT !.status = "pending", !.retry = "model", !.tries = k[3], !.due = FALSE]
    OBVIOUS
  <2>1. Told(x, "pending", item[t].stage, "model", item[t].leaf, item[t].cap, item[t].run)
    BY <1>2, ItemField DEF Succeeding, Items
  <2>2. SetItem(t, x) /\ item'[t] = x
    BY <1>2, <1>8 DEF Succeeding, Items, SetItem
  <2>3. item[t].stage = stage
    BY <1>8 DEF MayRetry
  <2>4. Booked(t)'
    <3>1. Booked(t)
      BY <1>2 DEF Succeeding, Items
    <3> QED
      BY <1>1, <1>2, <2>1, <2>2, <2>3, <3>1 DEF Booked, Told, TerminalStatuses, CapabilityOnly
  <2>5. Items' /\ \A u \in Tools : u # t => item'[u] = item[u]
    BY <1>1, <1>2, <2>1, <2>2, <2>4, AskedStays, ItemsHold DEF Succeeding, Told
  <2>6. Kept
    <3>1. item'[t].status = "pending" /\ item'[t].cap = item[t].cap
      BY <2>1, <2>2 DEF Told
    <3> QED
      BY <2>5, <3>1, KeptBy
  <2>7. todo' = <<>> \o Tail(todo)
    BY <1>8 DEF Skip, Then
  <2>8. Good(todo)'
    BY <1>1, <1>3, <1>4, <2>6, <2>7, NothingGood, GoesWriting DEF Succeeding
  <2> QED
    BY <2>5, <2>8
<1>9. CASE stage = "capability" /\ Then(<<Call("finalize", t, "error")>>) /\ UNCHANGED item
  <2> PICK c, s : c = Call("finalize", t, "error") /\ s = <<c>>
    OBVIOUS
  <2>1. c[1] = "finalize" /\ c[2] = t /\ c[3] = "error"
    BY DEF Call
  <2>2. CapabilityOnly(t) => NotSucceeded(t)'
    BY <1>2, <1>9 DEF NotSucceeded
  <2>3. Legal(c)' /\ Calm(c)' /\ ~Chained(c) /\ ~Chained(c)'
    BY <1>2, <2>1 DEF Legal, KeyCalls, ToolCalls, FullCalls, Begins, Links, Calm, Chained, Succeeds
  <2>4. Foremost(c)' /\ Reached(c)'
    BY <2>1, <2>2, <2>3 DEF Foremost, Reached, CapabilityOnly
  <2>5. Good(<<c>>)'
    BY <2>3, <2>4, UnchainedIsNamed, Alone
  <2>6. Calmly(s)'
    BY <2>3, CalmTuples
  <2>7. \A q : q = s => Good(q)'
    BY <2>5
  <2>8. todo' = s \o Tail(todo)
    BY <1>9 DEF Then
  <2> QED
    BY <1>5, <1>9, <2>6, <2>7, <2>8
<1>10. CASE /\ stage \in {"l1", "leaf"} /\ UNCHANGED item
            /\ Then(<<Call("enqueue", t, IF stage = "l1" THEN "l1_escalation" ELSE "leaf_escalation")>>)
  <2> PICK to : to = IF stage = "l1" THEN "l1_escalation" ELSE "leaf_escalation"
    OBVIOUS
  <2>1. to \in Stages /\ (CapabilityOnly(t) => to = "capability")
    BY <1>2, <1>10 DEF Stages
  <2>2. todo' = <<Call("enqueue", t, to)>> \o Tail(todo)
    BY <1>10 DEF Then
  <2> QED
    BY <1>6, <1>10, <2>1, <2>2
<1>11. CASE Then(CompleteWithoutLeaf(t, "needs_review")) /\ UNCHANGED item
  <2> PICK s : s = CompleteWithoutLeaf(t, "needs_review")
    OBVIOUS
  <2>1. item[t].run = 0 => NotSucceeded(t)'
    <3>1. item[t].run = 0 => NotSucceeded(t)
      BY <1>2, RunlessOpen DEF Succeeding
    <3> QED
      BY <1>11, <3>1 DEF NotSucceeded
  <2>2. Good(s)' /\ Calmly(s)'
    BY <1>2, <2>1, ClosesGood DEF TerminalStatuses
  <2>3. todo' = s \o Tail(todo)
    BY <1>11 DEF Then
  <2> QED
    BY <1>5, <1>11, <2>2, <2>3
<1> QED
  BY <1>7, <1>8, <1>9, <1>10, <1>11 DEF HandleFailure

LEMMA CreateGood ==
  ASSUME "none" \notin Capabilities, Listing, Succeeding, CreateItem
  PROVE  Good(todo)' /\ Items'
<1> PICK t, with, how, row, x :
      /\ t = About /\ with = With /\ how = with[1]
      /\ row = IF item[t].status # "none" THEN item[t] ELSE [NoItem EXCEPT !.status = "pending", !.judged = with[2]]
      /\ x = CASE how = "captured" -> [row EXCEPT !.text = TRUE]
               [] how = "stored" -> [row EXCEPT !.text = FALSE, !.profile = "product"]
               [] OTHER -> row
  OBVIOUS
<1>1. /\ todo # <<>> /\ Head(todo)[1] = "create" /\ UNCHANGED <<req, runs, assign>> /\ SetItem(t, x)
      /\ Then(CASE how = "captured" -> <<Call("enqueue", t, "profile")>>
                [] how = "stored" ->
                     IF ~CapabilityOnly(t) THEN <<Call("enqueue", t, "l1")>>
                     ELSE IF t \in Capable THEN <<Call("enqueue", t, "capability")>>
                     ELSE <<Call("finalize", t, "ok")>>
                [] OTHER -> <<Call("retrySource", t, how)>>)
  BY DEF CreateItem, Do
<1>2. t \in Tools /\ (CapabilityOnly(t) => how = "stored" /\ NotSucceeded(t) /\ Uncapable(t))
  <2>1. Legal(Head(todo)) /\ Head(todo)[2] = t /\ Head(todo)[3] = with
    BY <1>1, HeadLegal DEF Succeeding, About, With
  <2> QED
    BY <1>1, <2>1 DEF Legal, ToolCalls, Begins
<1>3. ~Chained(Head(todo)) /\ Head(todo)[1] # "record"
  BY <1>1 DEF Chained, Links, Succeeds
<1>4. DOMAIN req \subseteq DOMAIN req'
  BY <1>1
<1>5. Items' /\ Kept /\ item'[t] = x /\ (NotSucceeded(t) => NotSucceeded(t)')
  <2>1. \A y : ItemRow(y) =>
          /\ Told([y EXCEPT !.text = TRUE], y.status, y.stage, y.retry, y.leaf, y.cap, y.run)
          /\ Told([y EXCEPT !.text = FALSE, !.profile = "product"], y.status, y.stage, y.retry, y.leaf, y.cap, y.run)
          /\ Told(y, y.status, y.stage, y.retry, y.leaf, y.cap, y.run)
    <3> SUFFICES ASSUME NEW y, ItemRow(y)
                 PROVE  /\ Told([y EXCEPT !.text = TRUE], y.status, y.stage, y.retry, y.leaf, y.cap, y.run)
                        /\ Told([y EXCEPT !.text = FALSE, !.profile = "product"],
                                y.status, y.stage, y.retry, y.leaf, y.cap, y.run)
                        /\ Told(y, y.status, y.stage, y.retry, y.leaf, y.cap, y.run)
      OBVIOUS
    <3>1. Told([y EXCEPT !.text = TRUE], y.status, y.stage, y.retry, y.leaf, y.cap, y.run)
      BY ItemField
    <3>2. Told([y EXCEPT !.text = FALSE, !.profile = "product"], y.status, y.stage, y.retry, y.leaf, y.cap, y.run)
      BY ItemField
    <3>3. Told(y, y.status, y.stage, y.retry, y.leaf, y.cap, y.run)
      BY DEF Told
    <3> QED
      BY <3>1, <3>2, <3>3
  <2>2. ItemRow(row) => Told(x, row.status, row.stage, row.retry, row.leaf, row.cap, row.run)
    BY <2>1
  <2>3. CASE item[t].status # "none"
    <3>1. Told(x, item[t].status, item[t].stage, item[t].retry, item[t].leaf, item[t].cap, item[t].run)
      BY <1>2, <2>2, <2>3 DEF Succeeding, Items
    <3>2. Items' /\ Kept /\ item'[t] = x
      BY <1>1, <1>2, <3>1, AskedStays, SameFields DEF Succeeding
    <3> QED
      BY <3>1, <3>2 DEF NotSucceeded, Told
  <2>4. CASE item[t].status = "none"
    <3>1. ItemRow(NoItem)
      BY DEF ItemRow, NoItem
    <3>2. Told(row, "pending", "profile", "none", "none", "none", 0)
      <4>1. Told(row, "pending", NoItem.stage, NoItem.retry, NoItem.leaf, NoItem.cap, NoItem.run)
        BY <2>4, <3>1, ItemField
      <4> QED
        BY <4>1 DEF NoItem
    <3>3. Told(x, "pending", "profile", "none", "none", "none", 0)
      BY <2>2, <3>2 DEF Told
    <3>4. item'[t] = x
      BY <1>1, <1>2 DEF Succeeding, Items, SetItem
    <3>5. Booked(t)'
      <4>1. Sequenced(runs[t]) /\ Len(runs[t]) \in Nat
        BY <1>2, IsSequence DEF Succeeding, Items, Sequenced
      <4>2. runs'[t] = runs[t]
        BY <1>1
      <4>3. 0 \in 0..Len(runs'[t])
        BY <4>1, <4>2
      <4> QED
        BY <3>3, <3>4, <4>3 DEF Booked, Told, TerminalStatuses, Stages, Uncapable
    <3>6. Items' /\ \A u \in Tools : u # t => item'[u] = item[u]
      BY <1>1, <1>2, <3>3, <3>5, AskedStays, ItemsHold DEF Succeeding, Told
    <3>7. item'[t].status = "pending" /\ item'[t].cap \notin Capabilities
      BY <3>3, <3>4 DEF Told
    <3>8. Kept
      BY <3>6, <3>7, KeptBy
    <3> QED
      BY <3>4, <3>6, <3>7, <3>8 DEF NotSucceeded
  <2> QED
    BY <2>3, <2>4
<1>6. CapabilityOnly(t) => NotSucceeded(t)' /\ Uncapable(t)'
  BY <1>2, <1>5 DEF Kept
<1>7. ASSUME NEW s, Good(s)', Calmly(s)', todo' = s \o Tail(todo)
      PROVE  Good(todo)'
  BY <1>1, <1>3, <1>4, <1>5, <1>7, GoesWriting DEF Succeeding
<1>8. ASSUME NEW to \in Stages, CapabilityOnly(t) => to = "capability",
             todo' = <<Call("enqueue", t, to)>> \o Tail(todo)
      PROVE  Good(todo)'
  <2> PICK c, s : c = Call("enqueue", t, to) /\ s = <<c>>
    OBVIOUS
  <2>1. c[1] = "enqueue" /\ c[2] = t /\ c[3] = to
    BY DEF Call
  <2>2. Legal(c)'
    BY <1>2, <1>6, <1>8, <2>1 DEF Legal, KeyCalls, ToolCalls, FullCalls, Begins, Links, CapabilityOnly
  <2>3. Simple(c) /\ Calm(c)'
    BY <2>1 DEF Simple, Chained, Succeeds, Links, Calm, CalmNames, Begins
  <2>4. Good(s)' /\ Calmly(s)'
    BY <2>2, <2>3, OneSimple
  <2> QED
    BY <1>7, <1>8, <2>4
<1>9. CASE how = "captured"
  <2>1. todo' = <<Call("enqueue", t, "profile")>> \o Tail(todo) /\ ~CapabilityOnly(t)
    BY <1>1, <1>2, <1>9 DEF Then
  <2> QED
    BY <1>5, <1>8, <2>1 DEF Stages
<1>10. CASE how = "stored" /\ ~CapabilityOnly(t)
  <2>1. todo' = <<Call("enqueue", t, "l1")>> \o Tail(todo)
    BY <1>1, <1>10 DEF Then
  <2> QED
    BY <1>5, <1>8, <1>10, <2>1 DEF Stages
<1>11. CASE how = "stored" /\ CapabilityOnly(t) /\ t \in Capable
  <2>1. todo' = <<Call("enqueue", t, "capability")>> \o Tail(todo)
    BY <1>1, <1>11 DEF Then
  <2> QED
    BY <1>5, <1>8, <1>11, <2>1 DEF Stages
<1>12. CASE how = "stored" /\ CapabilityOnly(t) /\ t \notin Capable
  <2> PICK c, s : c = Call("finalize", t, "ok") /\ s = <<c>>
    OBVIOUS
  <2>1. c[1] = "finalize" /\ c[2] = t /\ todo' = s \o Tail(todo)
    BY <1>1, <1>12 DEF Then, Call
  <2>2. Legal(c)' /\ ~Chained(c) /\ ~Chained(c)'
    BY <1>2, <2>1 DEF Legal, KeyCalls, ToolCalls, FullCalls, Begins, Links, Chained, Succeeds
  <2>3. Calm(c)' /\ Foremost(c)' /\ Reached(c)'
    BY <1>6, <1>12, <2>1, <2>2 DEF Calm, Foremost, Reached, CapabilityOnly
  <2>4. Good(<<c>>)'
    BY <2>2, <2>3, UnchainedIsNamed, Alone
  <2>5. Calmly(s)'
    BY <2>3, CalmTuples
  <2>6. \A q : q = s => Good(q)'
    BY <2>4
  <2> QED
    BY <1>5, <1>7, <2>1, <2>5, <2>6
<1>13. CASE how \notin {"captured", "stored"}
  <2> PICK c, s : c = Call("retrySource", t, how) /\ s = <<c>>
    OBVIOUS
  <2>1. c[1] = "retrySource" /\ c[2] = t /\ todo' = s \o Tail(todo) /\ ~CapabilityOnly(t)
    BY <1>1, <1>2, <1>13 DEF Then, Call
  <2>2. Legal(c)'
    BY <1>2, <2>1 DEF Legal, KeyCalls, ToolCalls, FullCalls, Begins, Links, CapabilityOnly
  <2>3. Simple(c) /\ Calm(c)'
    BY <2>1 DEF Simple, Chained, Succeeds, Links, Calm, CalmNames, Begins
  <2>4. Good(s)' /\ Calmly(s)'
    BY <2>2, <2>3, OneSimple
  <2> QED
    BY <1>5, <1>7, <2>1, <2>4
<1> QED
  BY <1>9, <1>10, <1>11, <1>12, <1>13

LEMMA RetrySourceGood ==
  ASSUME Listing, Succeeding, RetrySource
  PROVE  Good(todo)' /\ Items'
<1> PICK t, tries, with : t = About /\ tries = item[t].tries + 1 /\ with = With
  OBVIOUS
<1>1. todo # <<>> /\ Head(todo)[1] = "retrySource" /\ UNCHANGED <<req, runs, assign>>
  BY DEF RetrySource, Do
<1>2. t \in Tools /\ ~CapabilityOnly(t)
  <2>1. Legal(Head(todo)) /\ Head(todo)[2] = t
    BY <1>1, HeadLegal DEF Succeeding, About
  <2> QED
    BY <1>1, <2>1 DEF Legal, ToolCalls, FullCalls
<1>3. ~Chained(Head(todo)) /\ Head(todo)[1] # "record"
  BY <1>1 DEF Chained, Links, Succeeds
<1>4. DOMAIN req \subseteq DOMAIN req'
  BY <1>1
<1>5. ASSUME Items', Kept, NEW s, Good(s)', Calmly(s)', todo' = s \o Tail(todo)
      PROVE  Good(todo)' /\ Items'
  BY <1>1, <1>3, <1>4, <1>5, GoesWriting DEF Succeeding
<1>6. ASSUME NEW x, SetItem(t, x), NEW stage \in Stages, NEW retry \in {"none", "source", "model"},
             Told(x, "pending", stage, retry, item[t].leaf, item[t].cap, item[t].run)
      PROVE  Items' /\ Kept
  <2>1. item'[t] = x
    BY <1>2, <1>6 DEF Succeeding, Items, SetItem
  <2>2. Booked(t)'
    <3>1. Booked(t)
      BY <1>2 DEF Succeeding, Items
    <3> QED
      BY <1>1, <1>2, <1>6, <2>1, <3>1 DEF Booked, Told, TerminalStatuses, CapabilityOnly
  <2>3. Items' /\ \A u \in Tools : u # t => item'[u] = item[u]
    BY <1>1, <1>2, <1>6, <2>2, AskedStays, ItemsHold DEF Succeeding, Told
  <2>4. item'[t].status = "pending" /\ item'[t].cap = item[t].cap
    BY <1>6, <2>1 DEF Told
  <2>5. Kept
    BY <2>3, <2>4, KeptBy
  <2> QED
    BY <2>3, <2>5
<1>7. item[t].retry \in {"none", "source", "model"} /\ ItemRow(item[t])
  BY <1>2 DEF Succeeding, Items, Booked
<1>8. CASE /\ Skip
           /\ SetItem(t, [item[t] EXCEPT !.status = "pending", !.stage = "profile", !.retry = "source",
                                         !.tries = tries, !.due = FALSE])
  <2> PICK x : x = [item[t] EXCEPT !.status = "pending", !.stage = "profile", !.retry = "source",
                                   !.tries = tries, !.due = FALSE]
    OBVIOUS
  <2>1. Told(x, "pending", "profile", "source", item[t].leaf, item[t].cap, item[t].run)
    BY <1>7, ItemField
  <2>2. SetItem(t, x) /\ todo' = <<>> \o Tail(todo)
    BY <1>8 DEF Skip, Then
  <2>3. Items' /\ Kept
    BY <1>6, <2>1, <2>2 DEF Stages
  <2> QED
    BY <1>5, <2>2, <2>3, NothingGood
<1>9. CASE RecoverUpstream(t)
  <2> PICK x, c, s : /\ x = [item[t] EXCEPT !.status = "pending", !.stage = "l1", !.profile = "upstream", !.text = FALSE]
                     /\ c = Call("enqueue", t, "l1") /\ s = <<c>>
    OBVIOUS
  <2>1. Told(x, "pending", "l1", item[t].retry, item[t].leaf, item[t].cap, item[t].run)
    BY <1>7, ItemField
  <2>2. SetItem(t, x) /\ todo' = s \o Tail(todo)
    BY <1>9 DEF RecoverUpstream, Then
  <2>3. Items' /\ Kept
    BY <1>6, <1>7, <2>1, <2>2 DEF Stages
  <2>4. c[1] = "enqueue" /\ c[2] = t /\ c[3] = "l1"
    BY DEF Call
  <2>5. Legal(c)'
    BY <1>2, <2>4 DEF Legal, KeyCalls, ToolCalls, FullCalls, Begins, Links, CapabilityOnly, Stages
  <2>6. Simple(c) /\ Calm(c)'
    BY <2>4 DEF Simple, Chained, Succeeds, Links, Calm, CalmNames, Begins
  <2>7. Good(s)' /\ Calmly(s)'
    BY <2>5, <2>6, OneSimple
  <2> QED
    BY <1>5, <2>2, <2>3, <2>7
<1>10. CASE SetItem(t, [item[t] EXCEPT !.tries = tries]) /\ Then(CompleteWithoutLeaf(t, "needs_review"))
  <2> PICK x, s : x = [item[t] EXCEPT !.tries = tries] /\ s = CompleteWithoutLeaf(t, "needs_review")
    OBVIOUS
  <2>1. Told(x, item[t].status, item[t].stage, item[t].retry, item[t].leaf, item[t].cap, item[t].run)
    BY <1>7, ItemField
  <2>2. SetItem(t, x) /\ todo' = s \o Tail(todo)
    BY <1>10 DEF Then
  <2>3. Items' /\ Kept
    BY <1>1, <1>2, <2>1, <2>2, AskedStays, SameFields DEF Succeeding
  <2>4. item[t].run = 0 => NotSucceeded(t)'
    BY <1>2, <2>3, RunlessOpen DEF Succeeding, Kept
  <2>5. Good(s)' /\ Calmly(s)'
    BY <1>2, <2>4, ClosesGood DEF TerminalStatuses
  <2> QED
    BY <1>5, <2>2, <2>3, <2>5
<1> QED
  BY <1>8, <1>9, <1>10 DEF RetrySource

-----------------------------------------------------------------------------
(* The assignments.                                                          *)

RowStatus(status) == status \in AutoStatuses \cup {"none", "verified", "superseded"}
RowSet(n) ==
  [source : {"none", "auto", "manual"}, status : AutoStatuses \cup {"none", "verified", "superseded"},
   primary : BOOLEAN, run : 0..n]
FiledRows(rows, n) ==
  rows \in [Terms -> RowSet(n)] /\ \A x \in Terms : rows[x].source = "manual" => x \in ManualPrimaries(rows)

LEMMA FiledIs ==
  ASSUME NEW t
  PROVE  Filed(t) <=> FiledRows(assign[t], Len(runs[t]))
BY DEF Filed, FiledRows, RowSet

RowDropped(s, r, n) == s \in RowSet(n) /\ s.run = r.run /\ s.source = r.source /\ s.primary = FALSE

LEMMA RowRetired ==
  ASSUME NEW n, NEW r, r \in RowSet(n), NEW status, RowStatus(status)
  PROVE  /\ RowDropped([r EXCEPT !.primary = FALSE, !.status = status], r, n)
         /\ RowDropped([r EXCEPT !.status = status, !.primary = FALSE], r, n)
<1> PICK a, b, c, d : /\ a = r.source /\ b = r.status /\ c = r.primary /\ d = r.run
                      /\ r = [source |-> a, status |-> b, primary |-> c, run |-> d]
  BY DEF RowSet
<1>1. ASSUME NEW s, s = [source |-> a, status |-> status, primary |-> FALSE, run |-> d]
      PROVE  RowDropped(s, r, n)
  BY <1>1 DEF RowSet, RowStatus, RowDropped
<1>2. RowDropped([r EXCEPT !.primary = FALSE, !.status = status], r, n)
  <2> PICK s : s = [r EXCEPT !.primary = FALSE, !.status = status]
    OBVIOUS
  <2>1. s = [source |-> a, status |-> status, primary |-> FALSE, run |-> d]
    OBVIOUS
  <2> QED
    BY <1>1, <2>1
<1>3. RowDropped([r EXCEPT !.status = status, !.primary = FALSE], r, n)
  <2> PICK s : s = [r EXCEPT !.status = status, !.primary = FALSE]
    OBVIOUS
  <2>1. s = [source |-> a, status |-> status, primary |-> FALSE, run |-> d]
    OBVIOUS
  <2> QED
    BY <1>1, <2>1
<1> QED
  BY <1>2, <1>3

LEMMA FiledRetired ==
  ASSUME NEW n, NEW rows, FiledRows(rows, n), ManualPrimaries(rows) = {}, NEW term,
         NEW new, new = RetireOtherPrimaries(rows, term)
  PROVE  /\ FiledRows(new, n) /\ ManualPrimaries(new) = {}
         /\ \A x \in Terms : new[x].run = rows[x].run /\ new[x].source = rows[x].source
<1>1. \A x \in Terms : rows[x] \in RowSet(n) /\ rows[x].source # "manual"
  BY DEF FiledRows
<1>2. ASSUME NEW x \in Terms
      PROVE  new[x] \in RowSet(n) /\ new[x].run = rows[x].run /\ new[x].source = rows[x].source
  <2> PICK r, status : r = rows[x] /\ status = IF r.status \in AutoStatuses THEN "superseded" ELSE r.status
    OBVIOUS
  <2>1. r \in RowSet(n) /\ RowStatus(status)
    BY <1>1 DEF RowSet, RowStatus
  <2> PICK s : s = [r EXCEPT !.primary = FALSE, !.status = status]
    OBVIOUS
  <2>2. s \in RowSet(n) /\ s.run = r.run /\ s.source = r.source
    <3>1. RowDropped(s, r, n)
      BY <2>1, RowRetired
    <3> QED
      BY <3>1 DEF RowDropped
  <2>3. CASE x \in Markets \ {term} /\ rows[x].primary
    <3>1. new[x] = s
      BY <2>3 DEF RetireOtherPrimaries
    <3> QED
      BY <2>2, <3>1
  <2>4. CASE ~(x \in Markets \ {term} /\ rows[x].primary)
    <3>1. new[x] = r
      BY <2>4 DEF RetireOtherPrimaries
    <3> QED
      BY <2>1, <3>1
  <2> QED
    BY <2>3, <2>4
<1>3. new \in [Terms -> RowSet(n)]
  BY <1>2 DEF RetireOtherPrimaries
<1>4. ManualPrimaries(new) = {}
  BY <1>1, <1>2 DEF ManualPrimaries, Terms
<1> QED
  BY <1>1, <1>2, <1>3, <1>4 DEF FiledRows

LEMMA FiledUpserted ==
  ASSUME NEW n, NEW rows, FiledRows(rows, n), NEW term \in Terms, NEW primary \in BOOLEAN,
         NEW status, RowStatus(status), NEW run \in 0..n,
         NEW new, new = UpsertAssignment(rows, term, primary, status, run)
  PROVE  /\ FiledRows(new, n) /\ ManualPrimaries(new) = ManualPrimaries(rows)
         /\ \A x \in Terms : x # term => new[x] = rows[x]
         /\ term \notin ManualPrimaries(rows) => new[term].primary = primary /\ new[term].run = run
<1>1. CASE rows[term].source = "manual"
  BY <1>1 DEF UpsertAssignment, FiledRows
<1>2. CASE rows[term].source # "manual"
  <2> PICK r : r = [source |-> "auto", status |-> status, primary |-> primary, run |-> run]
    OBVIOUS
  <2>1. r \in RowSet(n) /\ r.source = "auto" /\ r.primary = primary /\ r.run = run
    BY DEF RowSet, RowStatus
  <2>2. new = [rows EXCEPT ![term] = r]
    BY <1>2 DEF UpsertAssignment
  <2>3. \A x \in Terms : new[x] = IF x = term THEN r ELSE rows[x]
    BY <2>2 DEF FiledRows
  <2>4. new \in [Terms -> RowSet(n)]
    BY <2>1, <2>2 DEF FiledRows
  <2>5. ManualPrimaries(new) = ManualPrimaries(rows)
    BY <1>2, <2>1, <2>3 DEF ManualPrimaries, Terms
  <2> QED
    BY <2>1, <2>3, <2>4, <2>5 DEF FiledRows
<1> QED
  BY <1>1, <1>2

LEMMA FiledSuperseded ==
  ASSUME NEW n, NEW rows, FiledRows(rows, n), NEW terms, NEW run,
         NEW new, new = SupersedeAuto(rows, terms, run)
  PROVE  /\ FiledRows(new, n) /\ ManualPrimaries(new) = ManualPrimaries(rows)
         /\ \A x \in Terms : /\ new[x].run = rows[x].run
                             /\ rows[x].run = run => new[x] = rows[x]
                             /\ new[x].primary => rows[x].primary
<1>1. ASSUME NEW x \in Terms
      PROVE  /\ new[x] \in RowSet(n) /\ new[x].run = rows[x].run /\ new[x].source = rows[x].source
             /\ new[x] = rows[x] \/ (rows[x].source = "auto" /\ rows[x].run # run /\ new[x].primary = FALSE)
  <2> PICK r, s : r = rows[x] /\ s = [r EXCEPT !.status = "superseded", !.primary = FALSE]
    OBVIOUS
  <2>1. r \in RowSet(n)
    BY DEF FiledRows
  <2>2. s \in RowSet(n) /\ s.run = r.run /\ s.source = r.source /\ s.primary = FALSE
    <3>1. RowStatus("superseded")
      BY DEF RowStatus
    <3>2. RowDropped(s, r, n)
      BY <2>1, <3>1, RowRetired
    <3> QED
      BY <3>2 DEF RowDropped
  <2>3. CASE x \in terms /\ r.source = "auto" /\ r.status \in AutoStatuses /\ r.run # run
    <3>1. new[x] = s
      BY <2>3 DEF SupersedeAuto
    <3> QED
      BY <2>2, <2>3, <3>1
  <2>4. CASE ~(x \in terms /\ r.source = "auto" /\ r.status \in AutoStatuses /\ r.run # run)
    <3>1. new[x] = r
      BY <2>4 DEF SupersedeAuto
    <3> QED
      BY <2>1, <3>1
  <2> QED
    BY <2>3, <2>4
<1>2. new \in [Terms -> RowSet(n)]
  BY <1>1 DEF SupersedeAuto
<1>3. ManualPrimaries(new) = ManualPrimaries(rows)
  <2>1. \A m \in Markets : new[m] = rows[m] \/ (rows[m].source # "manual" /\ new[m].source # "manual")
    <3>1. ASSUME NEW m \in Markets
          PROVE  new[m] = rows[m] \/ (rows[m].source # "manual" /\ new[m].source # "manual")
      <4>1. m \in Terms
        BY DEF Terms
      <4>2. new[m].source = rows[m].source /\ (new[m] = rows[m] \/ rows[m].source = "auto")
        BY <1>1, <4>1
      <4> QED
        BY <4>2
    <3> QED
      BY <3>1
  <2> QED
    BY <2>1 DEF ManualPrimaries
<1> QED
  BY <1>1, <1>2, <1>3 DEF FiledRows

LEMMA FiledVerified ==
  ASSUME NEW n \in Nat, NEW rows, FiledRows(rows, n), ManualPrimaries(rows) = {}, NEW term \in Markets,
         NEW new, new = VerifyManually(rows, term)
  PROVE  /\ FiledRows(new, n) /\ ManualPrimaries(new) # {}
         /\ \A x \in Terms : x # term => new[x].run = rows[x].run
<1> PICK old, r : /\ old = RetireOtherPrimaries(rows, term)
                  /\ r = [source |-> "manual", status |-> "verified", primary |-> TRUE, run |-> 0]
  OBVIOUS
<1>1. /\ FiledRows(old, n) /\ ManualPrimaries(old) = {}
      /\ \A x \in Terms : old[x].run = rows[x].run /\ old[x].source = rows[x].source
  BY FiledRetired
<1>2. r \in RowSet(n)
  BY DEF RowSet
<1>3. new = [old EXCEPT ![term] = r] /\ term \in Terms
  BY DEF VerifyManually, Terms
<1>4. new \in [Terms -> RowSet(n)] /\ \A x \in Terms : new[x] = IF x = term THEN r ELSE old[x]
  BY <1>1, <1>2, <1>3 DEF FiledRows
<1>5. term \in ManualPrimaries(new)
  BY <1>3, <1>4 DEF ManualPrimaries
<1>6. \A x \in Terms : x # term => new[x].source # "manual"
  BY <1>1, <1>4 DEF FiledRows
<1> QED
  BY <1>1, <1>4, <1>5, <1>6 DEF FiledRows

-----------------------------------------------------------------------------
(* What happens beside the pass.                                             *)

(* The calls that are left mean the same when the items they name do.        *)
LEMMA CallsStay ==
  ASSUME Requests, UNCHANGED req,
         \A t \in Tools : /\ item'[t].status = item[t].status
                          /\ item'[t].leaf = item[t].leaf /\ item'[t].cap = item[t].cap
  PROVE  /\ \A c : Legal(c) => Legal(c)'
         /\ \A c : Legal(c) /\ Named(c) => Named(c)'
         /\ \A p, c : Legal(c) /\ Linked(p, c) => Linked(p, c)'
<1>1. \A k \in DOMAIN req : k[1] \in Tools
  BY DEF Requests
<1>2. \A c : Legal(c) => Legal(c)'
  BY <1>1 DEF Legal, NotSucceeded, Uncapable, CapabilityOnly, KeyCalls, ToolCalls, Begins
<1>3. \A c : Legal(c) /\ Named(c) => Named(c)'
  BY DEF Legal, Named, CapabilityOnly, Unasked, Succeeds, ToolCalls, Links
<1>4. \A p, c : Legal(c) /\ Linked(p, c) => Linked(p, c)'
  BY DEF Legal, Linked, Uncapable, CapabilityOnly, Succeeds, ToolCalls, Links
<1> QED
  BY <1>2, <1>3, <1>4

LEMMA Aside ==
  ASSUME Succeeding, UNCHANGED <<todo, req, remote, assign, runs>>, Items',
         \A t \in Tools : /\ item'[t].status = item[t].status /\ item'[t].stage = item[t].stage
                          /\ item'[t].leaf = item[t].leaf /\ item'[t].cap = item[t].cap
                          /\ item'[t].run = item[t].run
  PROVE  Succeeding'
<1>1. Requests'
  BY DEF Succeeding, Requests
<1>2. \A k \in DOMAIN req : k[1] \in Tools
  BY DEF Succeeding, Requests
<1>3. \A c : Legal(c) => Legal(c)'
  BY CallsStay DEF Succeeding
<1>4. \A c : Legal(c) /\ Named(c) => Named(c)'
  BY CallsStay DEF Succeeding
<1>5. \A c : Legal(c) /\ Calm(c) => Calm(c)'
  BY DEF Legal, Calm, Uncapable, CapabilityOnly, ToolCalls
<1>6. \A p, c : Legal(c) /\ Linked(p, c) => Linked(p, c)'
  BY CallsStay DEF Succeeding
<1>7. \A c : Legal(c) /\ Reached(c) => Reached(c)'
  <2> SUFFICES ASSUME NEW c, Legal(c), Reached(c), Chained(c)
               PROVE  Reached(c)'
    BY DEF Reached, Chained, Succeeds
  <2>1. c[2] \in Tools
    BY DEF Legal, Chained, Succeeds, ToolCalls
  <2> QED
    BY <2>1 DEF Reached, NotSucceeded, Opened, Chosen, Given, Inscribed, CapabilityOnly
<1>8. \A c : Legal(c) /\ Foremost(c) => Foremost(c)'
  <2> SUFFICES ASSUME NEW c, Legal(c), Foremost(c)
               PROVE  Foremost(c)'
    OBVIOUS
  <2>1. c[1] \in {"record", "react"} => Current(c[2])'
    <3> SUFFICES ASSUME c[1] \in {"record", "react"}
                 PROVE  Current(c[2])'
      OBVIOUS
    <3>1. Current(c[2]) /\ c[2][1] \in Tools
      BY <1>2 DEF Legal, KeyCalls, Foremost
    <3> QED
      BY <3>1 DEF Current, Closed, Newest, Attempts
  <2>2. c[1] = "finalize" => c[2] \in Tools
    BY DEF Legal, ToolCalls
  <2> QED
    BY <2>1, <2>2 DEF Foremost, NotSucceeded, Uncapable, Unasked, CapabilityOnly
<1>9. Good(todo)'
  <2> PICK q : q = todo
    OBVIOUS
  <2>1. Sequenced(q) /\ Placed(q) /\ Tame(q) /\ Strung(q) /\ Lawful(q) /\ Fronted(q)
    BY DEF Succeeding, Good
  <2>2. \A i \in 1..Len(q) : Legal(q[i]) /\ Named(q[i]) /\ Legal(q[i])' /\ Named(q[i])'
    BY <1>3, <1>4, <2>1 DEF Lawful
  <2>3. Len(q) \in Nat
    BY <2>1, IsSequence DEF Sequenced
  <2>4. Tame(q)'
    <3>1. ASSUME NEW i \in 1..Len(q), Waits(q[i]), NEW l \in 1..(i - 1)
          PROVE  Calm(q[l])'
      <4>1. l \in 1..Len(q)
        BY <2>3
      <4> QED
        BY <1>5, <2>1, <2>2, <3>1, <4>1 DEF Tame
    <3> QED
      BY <3>1 DEF Tame, Waits
  <2>5. Strung(q)'
    <3>1. ASSUME NEW i \in 1..Len(q), Chained(q[i]), i # 1
          PROVE  Linked(q[i - 1], q[i])'
      BY <1>6, <2>1, <2>2, <3>1 DEF Strung
    <3> QED
      BY <2>1, <3>1 DEF Strung, Chained, Succeeds
  <2>6. Lawful(q)'
    BY <2>2 DEF Lawful
  <2>7. Fronted(q)'
    <3>1. q # <<>> => 1 \in 1..Len(q)
      BY <2>1, <2>3, Rest
    <3> QED
      BY <1>7, <1>8, <2>1, <2>2, <3>1 DEF Fronted
  <2>8. Good(q)'
    BY <2>1, <2>4, <2>5, <2>6, <2>7 DEF Good, Placed
  <2>9. todo' = q
    OBVIOUS
  <2> QED
    BY <2>8, <2>9, GoodNext
<1> QED
  BY <1>1, <1>9 DEF Succeeding

LEMMA FallsDueHolds ==
  ASSUME Succeeding, NEW t \in Tools, RetryFallsDue(t)
  PROVE  Succeeding'
<1> PICK x : x = [item[t] EXCEPT !.due = TRUE]
  OBVIOUS
<1>1. SetItem(t, x) /\ UNCHANGED <<todo, req, remote, assign, runs>>
  BY DEF RetryFallsDue
<1>2. Told(x, item[t].status, item[t].stage, item[t].retry, item[t].leaf, item[t].cap, item[t].run)
  BY ItemField DEF Succeeding, Items
<1>3. Items' /\ item'[t] = x /\ \A u \in Tools : u # t => item'[u] = item[u]
  BY <1>1, <1>2, AskedStays, SameFields DEF Succeeding
<1>4. \A u \in Tools : /\ item'[u].status = item[u].status /\ item'[u].stage = item[u].stage
                       /\ item'[u].leaf = item[u].leaf /\ item'[u].cap = item[u].cap
                       /\ item'[u].run = item[u].run
  BY <1>2, <1>3 DEF Told
<1> QED
  BY <1>1, <1>3, <1>4, Aside

LEMMA BesideHolds ==
  ASSUME Succeeding, UNCHANGED <<todo, item, req, remote, assign, runs>>
  PROVE  Succeeding'
<1>1. Items'
  BY AskedStays, ItemsStay DEF Succeeding
<1> QED
  BY <1>1, Aside

(* The assignments of one tool are written.                                  *)
LEMMA AssignHolds ==
  ASSUME Items, AssignRows, NEW t \in Tools, NEW rows, SetAssign(t, rows), UNCHANGED <<item, req, runs>>,
         FiledRows(rows, Len(runs[t])), item[t].status = "succeeded" => Inscribed(t)'
  PROVE  Items' /\ assign'[t] = rows /\ \A u \in Tools : u # t => assign'[u] = assign[u]
<1>1. assign'[t] = rows /\ \A u \in Tools : u # t => assign'[u] = assign[u]
  BY DEF AssignRows, SetAssign
<1>2. ASSUME NEW u \in Tools
      PROVE  Filed(u)'
  <2>1. CASE u = t
    BY <1>1, <2>1 DEF Filed, FiledRows, RowSet
  <2>2. CASE u # t
    <3>1. Filed(u) /\ assign'[u] = assign[u]
      BY <1>1, <2>2 DEF Items
    <3> QED
      BY <3>1 DEF Filed
  <2> QED
    BY <2>1, <2>2
<1>3. ASSUME NEW u \in Tools
      PROVE  Booked(u)'
  <2>1. Booked(u)
    BY DEF Items
  <2>2. item[u].status = "succeeded" => Inscribed(u)'
    <3>1. CASE u = t
      BY <3>1
    <3>2. CASE u # t
      <4>1. assign'[u] = assign[u]
        BY <1>1, <3>2
      <4> QED
        BY <2>1, <4>1 DEF Booked, Inscribed, Opened, Chosen, Given, CapabilityOnly
    <3> QED
      BY <3>1, <3>2
  <2>3. Unasked(u) => Unasked(u)'
    BY AskedStays
  <2> QED
    BY <2>1, <2>2, <2>3 DEF Booked, Uncapable, CapabilityOnly
<1>4. (item = [u \in Tools |-> item[u]] /\ runs = [u \in Tools |-> runs[u]]
       /\ \A u \in Tools : ItemRow(item[u]) /\ Sequenced(runs[u]))'
  BY DEF Items
<1> QED
  BY <1>1, <1>2, <1>3, <1>4 DEF Items

LEMMA VerifyHolds ==
  ASSUME Bounded, Succeeding, AssignRows, NEW t \in Tools, NEW m \in Markets, VerifyPrimary(t, m), todo = <<>>
  PROVE  Succeeding'
<1> PICK rows, n : rows = VerifyManually(assign[t], m) /\ n = Len(runs[t])
  OBVIOUS
<1>1. /\ SetAssign(t, rows) /\ UNCHANGED <<item, req, remote, runs, todo>> /\ ManualPrimaries(assign[t]) = {}
  BY DEF VerifyPrimary
<1>2. Filed(t) /\ Booked(t) /\ n \in Nat
  BY IsSequence DEF Succeeding, Items, Sequenced
<1>3. /\ FiledRows(rows, n) /\ ManualPrimaries(rows) # {}
      /\ \A x \in Terms : x # m => rows[x].run = assign[t][x].run
  BY <1>1, <1>2, FiledIs, FiledVerified
<1>4. assign'[t] = rows
  BY <1>1 DEF AssignRows, SetAssign
<1>5. ASSUME Inscribed(t)
      PROVE  Inscribed(t)'
  <2>1. Chosen(t)'
    BY <1>3, <1>4 DEF Chosen
  <2>2. Given(t)'
    <3>1. item[t].cap \in Capabilities => item[t].cap \in Terms /\ item[t].cap # m
      BY DEF Bounded, Terms
    <3> QED
      BY <1>1, <1>3, <1>4, <1>5, <3>1 DEF Given, Inscribed
  <2>3. Opened(t)' /\ (runs[t][item[t].run] = "succeeded")'
    BY <1>1, <1>5 DEF Inscribed, Opened
  <2> QED
    BY <2>1, <2>2, <2>3 DEF Inscribed
<1>6. Items'
  BY <1>1, <1>2, <1>3, <1>5, AssignHolds DEF Succeeding, Booked
<1>7. Requests'
  BY <1>1 DEF Succeeding, Requests
<1>8. Good(todo)'
  <2>1. \A q : q = <<>> => Good(q)'
    BY NothingGood
  <2> QED
    BY <1>1, <2>1, GoodNext
<1> QED
  BY <1>6, <1>7, <1>8 DEF Succeeding

LEMMA SucceedingOutside ==
  ASSUME Bounded, ~ReviewDuringPass, Decided, Succeeding, Outside \/ UNCHANGED vars
  PROVE  Succeeding'
<1>1. CASE UNCHANGED vars
  BY <1>1, BesideHolds DEF vars
<1>2. ASSUME NEW j \in Jobs, HourPasses(j)
      PROVE  Succeeding'
  BY <1>2, BesideHolds DEF HourPasses
<1>3. ASSUME NEW t \in Tools, RetryFallsDue(t)
      PROVE  Succeeding'
  BY <1>3, FallsDueHolds
<1>4. ASSUME NEW t \in Tools, ToolPublished(t) \/ \E kind \in {"product", "non_product"} : SetKindByHand(t, kind)
      PROVE  Succeeding'
  BY <1>4, BesideHolds DEF ToolPublished, SetKindByHand
<1>5. ASSUME NEW t \in Tools, NEW m \in Markets, VerifyPrimary(t, m)
      PROVE  Succeeding'
  <2>1. todo = <<>>
    BY <1>5 DEF VerifyPrimary
  <2> QED
    BY <1>5, <2>1, VerifyHolds DEF Decided
<1> QED
  BY <1>1, <1>2, <1>3, <1>4, <1>5 DEF Outside

-----------------------------------------------------------------------------
(* The links of the closing of an item.                                      *)

LEMMA LinkFollows ==
  ASSUME Listing, Good(todo), todo # <<>>, Skip, Chained(Head(todo)),
         \A c : Later(c) /\ Legal(c) /\ Named(c) => Legal(c)' /\ Named(c)',
         \A p, c : Later(c) /\ Legal(c) /\ Linked(p, c) => Linked(p, c)',
         \A c : Chained(c) /\ c[2] = About /\ c[2] \in Tools /\ Linked(Head(todo), c) /\ Named(c)
                => Reached(c)'
  PROVE  Good(todo)'
<1>1. /\ Head(todo) = todo[1] /\ About = todo[1][2]
      /\ Placed(todo) /\ Strung(todo) /\ Lawful(todo)
  BY HeadLegal DEF Good
<1>2. ASSUME 2 \in 1..Len(todo), NEW c, c = todo[2]
      PROVE  Reached(c)' /\ Foremost(c)'
  <2>1. c[1] \notin {"record", "react", "finalize"}
    <3>1. c[1] = "react" => \E a, w : todo[1] = Call("record", a, w)
      BY <1>1, <1>2 DEF Placed
    <3>2. \A a, w : Call("record", a, w)[1] = "record"
      BY DEF Call
    <3>3. todo[1][1] # "record"
      BY <1>1 DEF Chained, Links, Succeeds
    <3>4. c[1] \notin {"record", "finalize"}
      BY <1>1, <1>2 DEF Placed
    <3> QED
      BY <3>1, <3>2, <3>3, <3>4
  <2>2. Foremost(c)'
    BY <2>1 DEF Foremost
  <2>3. CASE Chained(c)
    <3>1. c[2] = About /\ Linked(Head(todo), c)
      BY <1>1, <1>2, <2>3 DEF Strung
    <3>2. Legal(c) /\ Named(c)
      BY <1>1, <1>2 DEF Lawful
    <3>3. c[2] \in Tools
      BY <2>3, <3>2 DEF Legal, Chained, Succeeds, ToolCalls
    <3> QED
      BY <2>2, <2>3, <3>1, <3>2, <3>3
  <2>4. CASE ~Chained(c)
    BY <2>2, <2>4 DEF Reached, Chained, Succeeds
  <2> QED
    BY <2>3, <2>4
<1>3. \A q : q = todo' => Good(q)'
  BY <1>2, Follows
<1> QED
  BY <1>3, GoodNext

LEMMA LinkStays ==
  ASSUME Listing, Good(todo), Requests, todo # <<>>, Skip, Chained(Head(todo)), UNCHANGED req,
         \A t \in Tools : /\ item'[t].status = item[t].status
                          /\ item'[t].leaf = item[t].leaf /\ item'[t].cap = item[t].cap,
         \A c : Chained(c) /\ c[2] = About /\ c[2] \in Tools /\ Linked(Head(todo), c) /\ Named(c)
                => Reached(c)'
  PROVE  Good(todo)'
<1>1. /\ \A c : Later(c) /\ Legal(c) /\ Named(c) => Legal(c)' /\ Named(c)'
      /\ \A p, c : Later(c) /\ Legal(c) /\ Linked(p, c) => Linked(p, c)'
  BY CallsStay
<1> QED
  BY <1>1, LinkFollows

LEMMA ChainHead ==
  ASSUME Listing, Good(todo), todo # <<>>, Chained(Head(todo))
  PROVE  /\ About \in Tools /\ NotSucceeded(About)
         /\ Head(todo)[2] = About /\ Head(todo)[3] = With
         /\ Legal(Head(todo)) /\ Named(Head(todo)) /\ Reached(Head(todo))
<1>1. Legal(Head(todo)) /\ Named(Head(todo)) /\ Reached(Head(todo))
  BY HeadLegal
<1>2. Head(todo)[2] = About /\ Head(todo)[3] = With
  BY DEF About, With
<1>3. About \in Tools
  BY <1>1, <1>2 DEF Legal, Chained, Succeeds, ToolCalls
<1> QED
  BY <1>1, <1>2, <1>3 DEF Reached

(* What a call may be followed by.                                           *)
LEMMA LinkOrder ==
  ASSUME NEW p, NEW c, Chained(c), Linked(p, c)
  PROVE  /\ p[1] = "insertRun" => c[1] = "checkpointRun"
         /\ p[1] = "checkpointRun" => c[1] = "readManual" \/ (c[1] = "upsertCapability" /\ CapabilityOnly(c[2]))
         /\ p[1] = "readManual" => \/ c[1] = "upsertCapability"
                                   \/ c[1] = "supersede" /\ Uncapable(c[2])
         /\ p[1] = "retire" => c[1] = "upsertPrimary" /\ c[3][2].primary
         /\ p[1] = "upsertPrimary" => \/ c[1] = "upsertCapability"
                                      \/ c[1] = "supersede" /\ Uncapable(c[2])
         /\ p[1] = "upsertCapability" => c[1] = "supersede"
         /\ p[1] = "supersede" => c[1] = "setRun"
         /\ p[1] = "setRun" => Succeeds(c) /\ p[3] = "succeeded"
         /\ p[1] # "finish"
<1>1. c[1] \in Links \cup {"finish"}
  BY DEF Chained, Succeeds
<1> QED
  BY <1>1 DEF Linked, Chained, Succeeds, Links

(* The runs of one tool are written.                                         *)
LEMMA RunsHold ==
  ASSUME Items, NEW t \in Tools, NEW s, runs' = [runs EXCEPT ![t] = s], Sequenced(s), Len(s) >= Len(runs[t]),
         NotSucceeded(t), UNCHANGED <<item, req, assign>>
  PROVE  Items' /\ runs'[t] = s /\ \A u \in Tools : u # t => runs'[u] = runs[u]
<1>1. /\ runs'[t] = s /\ \A u \in Tools : u # t => runs'[u] = runs[u]
      /\ runs' = [u \in Tools |-> runs'[u]]
  BY DEF Items
<1>2. ASSUME NEW u \in Tools
      PROVE  /\ Sequenced(runs'[u]) /\ Len(runs'[u]) \in Nat /\ Len(runs[u]) \in Nat
             /\ Len(runs'[u]) >= Len(runs[u])
  <2>1. Sequenced(runs[u]) /\ Sequenced(s)
    BY DEF Items
  <2>2. Len(runs[u]) \in Nat /\ Len(s) \in Nat
    BY <2>1, IsSequence DEF Sequenced
  <2> QED
    BY <1>1, <2>1, <2>2
<1>3. \A u \in Tools : 0..Len(runs[u]) \subseteq 0..Len(runs'[u])
  BY <1>2
<1>4. ASSUME NEW u \in Tools
      PROVE  Booked(u)' /\ Filed(u)'
  <2>1. Booked(u) /\ Filed(u)
    BY DEF Items
  <2>2. Filed(u)'
    BY <1>3, <2>1 DEF Filed
  <2>3. item[u].status = "succeeded" => u # t
    BY DEF NotSucceeded
  <2>4. item[u].status = "succeeded" => Inscribed(u)'
    BY <1>1, <2>1, <2>3 DEF Booked, Inscribed, Opened, Chosen, Given, CapabilityOnly
  <2>5. item[u].run \in 0..Len(runs'[u])
    BY <1>3, <2>1 DEF Booked
  <2>6. Unasked(u) => Unasked(u)'
    BY AskedStays
  <2>7. Booked(u)'
    BY <2>1, <2>4, <2>5, <2>6 DEF Booked, Uncapable, CapabilityOnly
  <2> QED
    BY <2>2, <2>7
<1>5. (item = [u \in Tools |-> item[u]] /\ runs = [u \in Tools |-> runs[u]] /\ \A u \in Tools : ItemRow(item[u]))'
  BY <1>1 DEF Items
<1>6. (\A u \in Tools : Sequenced(runs[u]))'
  BY <1>2 DEF Sequenced
<1> QED
  BY <1>1, <1>4, <1>5, <1>6 DEF Items

LEMMA SequenceSubset ==
  ASSUME NEW s, Sequenced(s), NEW S, Range(s) \subseteq S
  PROVE  s \in Seq(S)
<1>1. s \in [1..Len(s) -> Range(s)] /\ Len(s) \in Nat
  BY LenProperties DEF Sequenced
<1>2. s \in [1..Len(s) -> S]
  BY <1>1
<1> QED
  BY <1>1, <1>2, SeqDef

LEMMA Appended ==
  ASSUME NEW s, Sequenced(s), NEW x
  PROVE  Sequenced(Append(s, x)) /\ Len(Append(s, x)) = Len(s) + 1 /\ Len(s) \in Nat
<1> PICK S : S = Range(s) \cup {x}
  OBVIOUS
<1>1. s \in Seq(S) /\ x \in S
  BY SequenceSubset
<1>2. Append(s, x) \in Seq(S) /\ Len(Append(s, x)) = Len(s) + 1 /\ Len(s) \in Nat
  BY <1>1
<1> QED
  BY <1>2, IsSequence

LEMMA InsertRunGood ==
  ASSUME Listing, Succeeding, InsertRun
  PROVE  Good(todo)' /\ Items'
<1> PICK t, s : t = About /\ s = Append(runs[t], With)
  OBVIOUS
<1>1. /\ todo # <<>> /\ Head(todo)[1] = "insertRun" /\ UNCHANGED <<item, req, assign>> /\ Skip
      /\ runs' = [runs EXCEPT ![t] = s]
  BY DEF InsertRun, Do
<1>2. Chained(Head(todo))
  BY <1>1 DEF Chained, Links
<1>3. t \in Tools /\ NotSucceeded(t)
  BY <1>1, <1>2, ChainHead DEF Succeeding
<1>4. Sequenced(s) /\ Len(s) = Len(runs[t]) + 1 /\ Len(runs[t]) \in Nat
  BY <1>3, Appended DEF Succeeding, Items
<1>5. Items' /\ runs'[t] = s
  <2>1. Len(s) >= Len(runs[t])
    BY <1>4
  <2> QED
    BY <1>1, <1>3, <1>4, <2>1, RunsHold DEF Succeeding
<1>6. ASSUME NEW c, Chained(c), c[2] = t, Linked(Head(todo), c)
      PROVE  Reached(c)'
  <2>1. c[1] = "checkpointRun"
    BY <1>1, <1>6, LinkOrder
  <2>2. Len(runs'[t]) > 0
    BY <1>4, <1>5
  <2> QED
    BY <1>1, <1>3, <1>6, <2>1, <2>2 DEF Reached, NotSucceeded
<1>7. Good(todo)'
  BY <1>1, <1>2, <1>6, LinkStays DEF Succeeding
<1> QED
  BY <1>5, <1>7

LEMMA SetRunStatusGood ==
  ASSUME Listing, Succeeding, SetRunStatus
  PROVE  Good(todo)' /\ Items'
<1> PICK t, r, with, s : t = About /\ r = item[t].run /\ with = With /\ s = [runs[t] EXCEPT ![r] = with]
  OBVIOUS
<1>1. /\ todo # <<>> /\ Head(todo)[1] = "setRun" /\ UNCHANGED <<item, req, assign>> /\ Skip
      /\ runs' = [runs EXCEPT ![t] = s]
  BY DEF SetRunStatus, Do
<1>2. Chained(Head(todo))
  BY <1>1 DEF Chained, Links
<1>3. t \in Tools /\ NotSucceeded(t) /\ Reached(Head(todo)) /\ Head(todo)[2] = t /\ Head(todo)[3] = with
  BY <1>1, <1>2, ChainHead DEF Succeeding
<1>4. Opened(t) /\ Chosen(t) /\ Given(t)
  BY <1>1, <1>2, <1>3 DEF Reached
<1>5. Sequenced(s) /\ Len(s) = Len(runs[t]) /\ s[r] = with /\ Len(s) \in Nat
  <2>1. Sequenced(runs[t]) /\ r \in 1..Len(runs[t])
    BY <1>3, <1>4 DEF Succeeding, Items, Opened
  <2> PICK S, old : S = Range(old) \cup {with} /\ old = runs[t]
    OBVIOUS
  <2>2. old \in Seq(S) /\ with \in S
    BY <2>1, SequenceSubset
  <2>3. s \in Seq(S) /\ Len(s) = Len(old) /\ s[r] = with
    BY <2>1, <2>2
  <2> QED
    BY <2>3, IsSequence
<1>6. Items' /\ runs'[t] = s
  <2>1. Len(s) >= Len(runs[t])
    BY <1>5
  <2> QED
    BY <1>1, <1>3, <1>5, <2>1, RunsHold DEF Succeeding
<1>7. ASSUME NEW c, Chained(c), c[2] = t, Linked(Head(todo), c)
      PROVE  Reached(c)'
  <2>1. Succeeds(c) /\ with = "succeeded" /\ c[1] = "finish"
    BY <1>1, <1>3, <1>7, LinkOrder DEF Succeeds
  <2>2. Opened(t)' /\ Chosen(t)' /\ Given(t)' /\ NotSucceeded(t)'
    BY <1>1, <1>3, <1>4, <1>5, <1>6 DEF Opened, Chosen, Given, NotSucceeded, CapabilityOnly
  <2>3. Inscribed(t)'
    BY <1>1, <1>5, <1>6, <2>1, <2>2 DEF Inscribed
  <2> QED
    BY <1>7, <2>1, <2>2, <2>3 DEF Reached
<1>8. Good(todo)'
  BY <1>1, <1>2, <1>7, LinkStays DEF Succeeding
<1> QED
  BY <1>6, <1>8

LEMMA CheckpointRunGood ==
  ASSUME Listing, Succeeding, CheckpointRun
  PROVE  Good(todo)' /\ Items'
<1> PICK t, x : t = About /\ x = [item[t] EXCEPT !.run = Len(runs[t])]
  OBVIOUS
<1>1. /\ todo # <<>> /\ Head(todo)[1] = "checkpointRun" /\ UNCHANGED <<req, assign, runs>> /\ Skip
      /\ SetItem(t, x)
  BY DEF CheckpointRun, Do
<1>2. Chained(Head(todo))
  BY <1>1 DEF Chained, Links
<1>3. t \in Tools /\ NotSucceeded(t) /\ Reached(Head(todo)) /\ Head(todo)[2] = t
  BY <1>1, <1>2, ChainHead DEF Succeeding
<1>4. Len(runs[t]) > 0 /\ Len(runs[t]) \in Nat
  <2>1. Len(runs[t]) > 0
    BY <1>1, <1>2, <1>3 DEF Reached
  <2>2. Sequenced(runs[t])
    BY <1>3 DEF Succeeding, Items
  <2> QED
    BY <2>1, <2>2, IsSequence DEF Sequenced
<1>5. Told(x, item[t].status, item[t].stage, item[t].retry, item[t].leaf, item[t].cap, Len(runs[t]))
  BY <1>3, ItemField DEF Succeeding, Items
<1>6. item'[t] = x
  BY <1>1, <1>3 DEF Succeeding, Items, SetItem
<1>7. Booked(t)'
  <2>1. Booked(t)
    BY <1>3 DEF Succeeding, Items
  <2>2. Len(runs[t]) \in 0..Len(runs'[t])
    BY <1>1, <1>4
  <2> QED
    BY <1>1, <1>3, <1>5, <1>6, <2>1, <2>2 DEF Booked, Told, NotSucceeded, Uncapable, CapabilityOnly
<1>8. Items' /\ \A u \in Tools : u # t => item'[u] = item[u]
  BY <1>1, <1>3, <1>5, <1>7, AskedStays, ItemsHold DEF Succeeding, Told
<1>9. \A u \in Tools : /\ item'[u].status = item[u].status
                       /\ item'[u].leaf = item[u].leaf /\ item'[u].cap = item[u].cap
  BY <1>5, <1>6, <1>8 DEF Told
<1>10. ASSUME NEW c, Chained(c), c[2] = t, Linked(Head(todo), c)
       PROVE  Reached(c)'
  <2>1. c[1] = "readManual" \/ (c[1] = "upsertCapability" /\ CapabilityOnly(t))
    BY <1>1, <1>10, LinkOrder
  <2>2. NotSucceeded(t)'
    BY <1>3, <1>9 DEF NotSucceeded
  <2>3. Opened(t)'
    <3>1. item'[t].run = Len(runs[t]) /\ Len(runs[t]) \in 1..Len(runs'[t])
      BY <1>1, <1>4, <1>5, <1>6 DEF Told
    <3> QED
      BY <3>1 DEF Opened
  <2> QED
    BY <1>10, <2>1, <2>2, <2>3 DEF Reached, Chosen, CapabilityOnly
<1>11. Good(todo)'
  BY <1>1, <1>2, <1>9, <1>10, LinkStays DEF Succeeding
<1> QED
  BY <1>8, <1>11

(* A statement of the closing writes the assignments.                        *)
LEMMA WritesGood ==
  ASSUME Listing, Succeeding, AssignRows, todo # <<>>, Chained(Head(todo)), Skip, UNCHANGED <<item, req, runs>>,
         NEW rows, SetAssign(About, rows), FiledRows(rows, Len(runs[About])),
         assign'[About] = rows =>
           \A c : Chained(c) /\ c[2] = About /\ Linked(Head(todo), c) /\ Named(c) => Reached(c)'
  PROVE  Good(todo)' /\ Items'
<1> PICK t : t = About
  OBVIOUS
<1>1. t \in Tools /\ NotSucceeded(t)
  BY ChainHead DEF Succeeding
<1>2. Items' /\ assign'[t] = rows
  BY <1>1, AssignHolds DEF Succeeding, NotSucceeded
<1>3. Good(todo)'
  BY <1>2, LinkStays DEF Succeeding
<1> QED
  BY <1>2, <1>3

LEMMA RetireGood ==
  ASSUME Listing, Succeeding, AssignRows, UNCHANGED <<item, req, runs>>, Skip, Do("retire"),
         SetAssign(About, RetireOtherPrimaries(assign[About], With))
  PROVE  Good(todo)' /\ Items'
<1> PICK t, rows, n : t = About /\ rows = RetireOtherPrimaries(assign[t], With) /\ n = Len(runs[t])
  OBVIOUS
<1>1. todo # <<>> /\ Head(todo)[1] = "retire" /\ Chained(Head(todo))
  BY DEF Do, Chained, Links
<1>2. t \in Tools /\ NotSucceeded(t) /\ Reached(Head(todo)) /\ Head(todo)[2] = t
  BY <1>1, ChainHead DEF Succeeding
<1>3. Opened(t) /\ ManualPrimaries(assign[t]) = {}
  BY <1>1, <1>2 DEF Reached
<1>4. FiledRows(rows, n) /\ ManualPrimaries(rows) = {}
  <2>1. FiledRows(assign[t], n)
    BY <1>2, FiledIs DEF Succeeding, Items
  <2> QED
    BY <1>3, <2>1, FiledRetired
<1>5. ASSUME assign'[t] = rows, NEW c, Chained(c), c[2] = t, Linked(Head(todo), c)
      PROVE  Reached(c)'
  <2>1. c[1] = "upsertPrimary" /\ c[3][2].primary
    BY <1>1, <1>5, LinkOrder
  <2>2. NotSucceeded(t)' /\ Opened(t)' /\ (ManualPrimaries(assign[t]) = {})'
    BY <1>2, <1>3, <1>4, <1>5 DEF NotSucceeded, Opened
  <2> QED
    BY <1>5, <2>1, <2>2 DEF Reached
<1> QED
  BY <1>1, <1>4, <1>5, WritesGood

LEMMA UpsertPrimaryGood ==
  ASSUME Bounded, Listing, Succeeding, AssignRows, UNCHANGED <<item, req, runs>>, Skip, Do("upsertPrimary"),
         Upserts(Head(todo)),
         SetAssign(About, UpsertAssignment(assign[About], With[1], With[2].primary, With[2].status, item[About].run))
  PROVE  Good(todo)' /\ Items'
<1> PICK t, leaf, write, run, rows, n :
      /\ t = About /\ leaf = With[1] /\ write = With[2] /\ run = item[t].run /\ n = Len(runs[t])
      /\ rows = UpsertAssignment(assign[t], leaf, write.primary, write.status, run)
  OBVIOUS
<1>1. todo # <<>> /\ Head(todo)[1] = "upsertPrimary" /\ Chained(Head(todo))
  BY DEF Do, Chained, Links
<1>2. /\ t \in Tools /\ NotSucceeded(t) /\ Reached(Head(todo)) /\ Named(Head(todo)) /\ Head(todo)[2] = t
      /\ Head(todo)[3][1] = leaf /\ Head(todo)[3][2] = write
  BY <1>1, ChainHead DEF Succeeding
<1>3. Opened(t) /\ (write.primary <=> ManualPrimaries(assign[t]) = {})
  BY <1>1, <1>2 DEF Reached
<1>4. leaf = item[t].leaf /\ leaf \in Markets /\ write \in {PrimaryWrite(TRUE), PrimaryWrite(FALSE)}
  BY <1>1, <1>2 DEF Named
<1>5. write.primary \in BOOLEAN /\ RowStatus(write.status) /\ leaf \in Terms
  <2>1. CASE write = PrimaryWrite(TRUE)
    BY <1>4, <2>1 DEF PrimaryWrite, RowStatus, Terms
  <2>2. CASE write = PrimaryWrite(FALSE)
    BY <1>4, <2>2 DEF PrimaryWrite, RowStatus, AutoStatuses, Terms
  <2> QED
    BY <1>4, <2>1, <2>2
<1>6. /\ FiledRows(rows, n) /\ ManualPrimaries(rows) = ManualPrimaries(assign[t])
      /\ \A x \in Terms : x # leaf => rows[x] = assign[t][x]
      /\ leaf \notin ManualPrimaries(assign[t]) => rows[leaf].primary = write.primary /\ rows[leaf].run = run
  <2>1. FiledRows(assign[t], n)
    BY <1>2, FiledIs DEF Succeeding, Items
  <2>2. run \in 0..n
    BY <1>3 DEF Opened
  <2> QED
    BY <1>5, <2>1, <2>2, FiledUpserted
<1>7. ASSUME assign'[t] = rows, NEW c, Chained(c), c[2] = t, Linked(Head(todo), c)
      PROVE  Reached(c)'
  <2>1. c[1] = "upsertCapability" \/ (c[1] = "supersede" /\ Uncapable(t))
    BY <1>1, <1>7, LinkOrder
  <2>2. NotSucceeded(t)' /\ Opened(t)'
    BY <1>2, <1>3 DEF NotSucceeded, Opened
  <2>3. Chosen(t)'
    <3>1. CASE ManualPrimaries(assign[t]) # {}
      BY <1>6, <1>7, <3>1 DEF Chosen
    <3>2. CASE ManualPrimaries(assign[t]) = {}
      <4>1. OnlyPrimary(assign[t], leaf)
        BY <1>1, <1>2, <1>3, <3>2 DEF Upserts
      <4>2. OnlyPrimary(rows, leaf)
        BY <1>6, <4>1 DEF OnlyPrimary, Terms
      <4>3. rows[leaf].primary /\ rows[leaf].run = run
        BY <1>3, <1>6, <3>2
      <4> QED
        BY <1>4, <1>7, <4>2, <4>3 DEF Chosen
    <3> QED
      BY <3>1, <3>2
  <2>4. Uncapable(t) => Given(t)'
    BY DEF Uncapable, Given
  <2> QED
    BY <1>7, <2>1, <2>2, <2>3, <2>4 DEF Reached
<1> QED
  BY <1>1, <1>6, <1>7, WritesGood

LEMMA UpsertCapabilityGood ==
  ASSUME Bounded, Listing, Succeeding, AssignRows, UNCHANGED <<item, req, runs>>, Skip, Do("upsertCapability"),
         SetAssign(About, UpsertAssignment(assign[About], With, FALSE, "provisional", item[About].run))
  PROVE  Good(todo)' /\ Items'
<1> PICK t, cap, run, no, rows, n :
      /\ t = About /\ cap = With /\ run = item[t].run /\ n = Len(runs[t]) /\ no = FALSE
      /\ rows = UpsertAssignment(assign[t], cap, no, "provisional", run)
  OBVIOUS
<1>1. todo # <<>> /\ Head(todo)[1] = "upsertCapability" /\ Chained(Head(todo))
  BY DEF Do, Chained, Links
<1>2. /\ t \in Tools /\ NotSucceeded(t) /\ Reached(Head(todo)) /\ Named(Head(todo)) /\ Head(todo)[2] = t
      /\ Head(todo)[3] = cap
  BY <1>1, ChainHead DEF Succeeding
<1>3. Opened(t) /\ Chosen(t)
  BY <1>1, <1>2 DEF Reached
<1>4. cap = item[t].cap /\ cap \in Capabilities /\ cap \in Terms
  BY <1>1, <1>2 DEF Named, Terms
<1>5. cap \notin Markets /\ cap \notin ManualPrimaries(assign[t])
  BY <1>4 DEF Bounded, ManualPrimaries
<1>6. /\ FiledRows(rows, n) /\ ManualPrimaries(rows) = ManualPrimaries(assign[t])
      /\ \A x \in Terms : x # cap => rows[x] = assign[t][x]
      /\ rows[cap].run = run
  <2>1. FiledRows(assign[t], n)
    BY <1>2, FiledIs DEF Succeeding, Items
  <2>2. run \in 0..n
    BY <1>3 DEF Opened
  <2>3. RowStatus("provisional")
    BY DEF RowStatus, AutoStatuses
  <2> QED
    <3>1. no \in BOOLEAN
      OBVIOUS
    <3>2. /\ FiledRows(rows, n) /\ ManualPrimaries(rows) = ManualPrimaries(assign[t])
          /\ \A x \in Terms : x # cap => rows[x] = assign[t][x]
          /\ cap \notin ManualPrimaries(assign[t]) => rows[cap].primary = no /\ rows[cap].run = run
      BY <1>4, <2>1, <2>2, <2>3, <3>1, FiledUpserted
    <3> QED
      BY <1>5, <3>2
<1>7. ASSUME assign'[t] = rows, NEW c, Chained(c), c[2] = t, Linked(Head(todo), c)
      PROVE  Reached(c)'
  <2>1. c[1] = "supersede"
    BY <1>1, <1>7, LinkOrder
  <2>2. NotSucceeded(t)' /\ Opened(t)'
    BY <1>2, <1>3 DEF NotSucceeded, Opened
  <2>3. Chosen(t)'
    <3>1. \A m \in Markets : rows[m] = assign[t][m]
      BY <1>5, <1>6 DEF Terms
    <3> QED
      BY <1>3, <1>6, <1>7, <3>1 DEF Chosen, OnlyPrimary, CapabilityOnly
  <2>4. Given(t)'
    BY <1>4, <1>6, <1>7 DEF Given
  <2> QED
    BY <1>7, <2>1, <2>2, <2>3, <2>4 DEF Reached
<1> QED
  BY <1>1, <1>6, <1>7, WritesGood

LEMMA SupersedeGood ==
  ASSUME Listing, Succeeding, AssignRows, UNCHANGED <<item, req, runs>>, Skip, Do("supersede"),
         SetAssign(About, SupersedeAuto(assign[About], With, item[About].run))
  PROVE  Good(todo)' /\ Items'
<1> PICK t, run, rows, n :
      t = About /\ run = item[t].run /\ n = Len(runs[t]) /\ rows = SupersedeAuto(assign[t], With, run)
  OBVIOUS
<1>1. todo # <<>> /\ Head(todo)[1] = "supersede" /\ Chained(Head(todo))
  BY DEF Do, Chained, Links
<1>2. t \in Tools /\ NotSucceeded(t) /\ Reached(Head(todo)) /\ Head(todo)[2] = t
  BY <1>1, ChainHead DEF Succeeding
<1>3. Opened(t) /\ Chosen(t) /\ Given(t)
  BY <1>1, <1>2 DEF Reached
<1>4. /\ FiledRows(rows, n) /\ ManualPrimaries(rows) = ManualPrimaries(assign[t])
      /\ \A x \in Terms : /\ rows[x].run = assign[t][x].run
                          /\ assign[t][x].run = run => rows[x] = assign[t][x]
                          /\ rows[x].primary => assign[t][x].primary
  <2>1. FiledRows(assign[t], n)
    BY <1>2, FiledIs DEF Succeeding, Items
  <2> QED
    BY <2>1, FiledSuperseded
<1>5. ASSUME assign'[t] = rows, NEW c, Chained(c), c[2] = t, Linked(Head(todo), c)
      PROVE  Reached(c)'
  <2>1. c[1] = "setRun"
    BY <1>1, <1>5, LinkOrder
  <2>2. NotSucceeded(t)' /\ Opened(t)'
    BY <1>2, <1>3 DEF NotSucceeded, Opened
  <2>3. Chosen(t)'
    <3>1. \A m \in Markets : /\ rows[m].run = assign[t][m].run
                             /\ assign[t][m].run = run => rows[m] = assign[t][m]
                             /\ rows[m].primary => assign[t][m].primary
      BY <1>4 DEF Terms
    <3> QED
      BY <1>3, <1>4, <1>5, <3>1 DEF Chosen, OnlyPrimary, CapabilityOnly
  <2>4. Given(t)'
    <3>1. \A x \in Capabilities : rows[x].run = assign[t][x].run
      BY <1>4 DEF Terms
    <3> QED
      BY <1>3, <1>5, <3>1 DEF Given
  <2> QED
    BY <1>5, <2>1, <2>2, <2>3, <2>4 DEF Reached
<1> QED
  BY <1>1, <1>4, <1>5, WritesGood

LEMMA WriteAssignmentGood ==
  ASSUME Bounded, Decided, Succeeding, WriteAssignment
  PROVE  Good(todo)' /\ Items'
<1>1. Listing /\ AssignRows
  BY TabledFinite DEF Decided
<1>2. UNCHANGED <<item, req, runs>> /\ Skip /\ todo # <<>>
  BY DEF WriteAssignment, Do
<1>3. Upserts(Head(todo))
  BY <1>1, <1>2, HeadCalled DEF Decided
<1>4. \/ Do("retire") /\ SetAssign(About, RetireOtherPrimaries(assign[About], With))
      \/ /\ Do("upsertPrimary")
         /\ SetAssign(About, UpsertAssignment(assign[About], With[1], With[2].primary, With[2].status, item[About].run))
      \/ /\ Do("upsertCapability")
         /\ SetAssign(About, UpsertAssignment(assign[About], With, FALSE, "provisional", item[About].run))
      \/ Do("supersede") /\ SetAssign(About, SupersedeAuto(assign[About], With, item[About].run))
  BY DEF WriteAssignment
<1> QED
  BY <1>1, <1>2, <1>3, <1>4, RetireGood, UpsertPrimaryGood, UpsertCapabilityGood, SupersedeGood

LEMMA ReadManualGood ==
  ASSUME Listing, Succeeding, ReadManual
  PROVE  Good(todo)' /\ Items'
<1> PICK t, leaf, write, c, d :
      /\ t = About /\ leaf = With /\ write = PrimaryWrite(ManualPrimaries(assign[t]) # {})
      /\ c = Call("retire", t, leaf) /\ d = Call("upsertPrimary", t, <<leaf, write>>)
  OBVIOUS
<1>1. /\ todo # <<>> /\ Head(todo)[1] = "readManual" /\ UNCHANGED <<item, req, assign, runs>>
      /\ Then((IF write.primary THEN <<c>> ELSE <<>>) \o <<d>>)
  BY DEF ReadManual, Do, tables
<1>2. Chained(Head(todo)) /\ Head(todo) = todo[1]
  BY <1>1, HeadLegal DEF Chained, Links, Succeeding
<1>3. /\ t \in Tools /\ NotSucceeded(t) /\ Reached(Head(todo)) /\ Named(Head(todo)) /\ Head(todo)[2] = t
      /\ Head(todo)[3] = leaf
  BY <1>1, <1>2, ChainHead DEF Succeeding
<1>4. Opened(t) /\ ~CapabilityOnly(t) /\ leaf = item[t].leaf /\ item[t].leaf \in Markets
  BY <1>1, <1>2, <1>3 DEF Reached, Named
<1>5. /\ c[1] = "retire" /\ c[2] = t /\ c[3] = leaf
      /\ d[1] = "upsertPrimary" /\ d[2] = t /\ d[3][1] = leaf /\ d[3][2] = write
  BY DEF Call
<1>6. Legal(c)' /\ Legal(d)'
  BY <1>3, <1>5 DEF Legal, KeyCalls, ToolCalls, FullCalls, Begins, Links
<1>7. Named(c)' /\ Named(d)'
  <2>1. Named(c)'
    BY <1>1, <1>4, <1>5 DEF Named, Succeeds, CapabilityOnly
  <2>2. write \in {PrimaryWrite(TRUE), PrimaryWrite(FALSE)}
    <3>1. CASE ManualPrimaries(assign[t]) # {}
      <4>1. (ManualPrimaries(assign[t]) # {}) = TRUE
        BY <3>1
      <4>2. write = PrimaryWrite(TRUE)
        BY <4>1
      <4> QED
        BY <4>2
    <3>2. CASE ManualPrimaries(assign[t]) = {}
      <4>1. (ManualPrimaries(assign[t]) # {}) = FALSE
        BY <3>2
      <4>2. write = PrimaryWrite(FALSE)
        BY <4>1
      <4> QED
        BY <4>2
    <3> QED
      BY <3>1, <3>2
  <2>3. Named(d)'
    BY <1>1, <1>4, <1>5, <2>2 DEF Named, Succeeds, CapabilityOnly
  <2> QED
    BY <2>1, <2>3
<1>8. (write.primary <=> ManualPrimaries(assign[t]) = {}) /\ write.primary \in BOOLEAN
  BY DEF PrimaryWrite
<1>9. NotSucceeded(t)' /\ Opened(t)' /\ (write.primary <=> ManualPrimaries(assign'[t]) = {})
  BY <1>1, <1>3, <1>4, <1>8 DEF NotSucceeded, Opened
<1>10. c[1] \in Links /\ d[1] \in Links
  BY <1>5 DEF Links
<1>11. \A b : b[1] \in {"upsertCapability", "supersede"} /\ Linked(Head(todo), b) => Linked(d, b)'
  BY <1>1, <1>5 DEF Linked, Uncapable, CapabilityOnly, Succeeds
<1>12. ASSUME NEW s, Good(s)', s # <<>>, todo' = s \o Tail(todo), s[Len(s)] = d, Piece(t, s)', Bare(s)
       PROVE  Good(todo)'
  <2>0. \A i \in 1..Len(s) : s[i][1] \in Links /\ s[i][2] = t
    BY <1>12 DEF Piece, Bare
  <2>1. \A a : Legal(a) /\ Named(a) => Legal(a)' /\ Named(a)'
    BY <1>1, CallsStay DEF Succeeding
  <2>2. \A p, a : Linked(p, a) => Linked(p, a)'
    BY <1>1 DEF Linked, Uncapable, CapabilityOnly, Succeeds
  <2>3. ASSUME NEW p, NEW a, p = s[Len(s)], Chained(a), Linked(todo[1], a)
        PROVE  Linked(p, a)'
    <3>1. a[1] \in {"upsertCapability", "supersede"}
      BY <1>1, <1>2, <2>3, LinkOrder
    <3> QED
      BY <1>2, <1>11, <1>12, <2>3, <3>1
  <2>4. todo[1][2] = t
    BY <1>2, <1>3
  <2>5. \A q : q = todo' => Good(q)'
    BY <1>1, <1>2, <1>12, <2>0, <2>1, <2>2, <2>3, <2>4, Reads DEF Succeeding
  <2> QED
    BY <2>5, GoodNext
<1>13. Items'
  BY <1>1, AskedStays, ItemsStay DEF Succeeding
<1>14. CASE write.primary
  <2> PICK s : s = <<c, d>>
    OBVIOUS
  <2>1. Linked(c, d)'
    BY <1>5, <1>14 DEF Linked, Succeeds
  <2>2. Reached(c)'
    BY <1>5, <1>9, <1>14 DEF Reached
  <2>3. Piece(t, s)' /\ Bare(s) /\ s # <<>> /\ s[1] = c /\ s[Len(s)] = d
    BY <1>5, <1>6, <1>7, <1>10, <2>1, PiecePair
  <2>4. Good(s)'
    BY <2>2, <2>3, PieceIsGood
  <2>5. todo' = s \o Tail(todo)
    BY <1>1, <1>14, Coupled DEF Then
  <2> QED
    BY <1>12, <1>13, <2>3, <2>4, <2>5
<1>15. CASE ~write.primary
  <2> PICK s : s = <<d>>
    OBVIOUS
  <2>1. Reached(d)'
    BY <1>5, <1>9 DEF Reached
  <2>2. Piece(t, s)' /\ Bare(s) /\ s # <<>> /\ s[1] = d /\ s[Len(s)] = d
    BY <1>5, <1>6, <1>7, <1>10, PieceAlone
  <2>3. Good(s)'
    BY <2>1, <2>2, PieceIsGood
  <2>4. todo' = s \o Tail(todo)
    BY <1>1, <1>15 DEF Then
  <2> QED
    BY <1>12, <1>13, <2>2, <2>3, <2>4
<1> QED
  BY <1>13, <1>14, <1>15

(* An item closes.                                                           *)
LEMMA FinishGood ==
  ASSUME Listing, Succeeding, Finish
  PROVE  Good(todo)' /\ Items'
<1> PICK t, with, n, x :
      /\ t = About /\ with = With /\ n = IF item[t].run = 0 THEN Len(runs[t]) ELSE item[t].run
      /\ x = [item[t] EXCEPT !.status = with, !.stage = "complete", !.text = FALSE, !.retry = "none", !.due = FALSE,
                             !.run = n]
  OBVIOUS
<1>1. /\ todo # <<>> /\ Head(todo)[1] = "finish" /\ UNCHANGED <<req, assign, runs>> /\ Skip
  BY DEF Finish, Do
<1>2. t \in Tools /\ with \in TerminalStatuses /\ Head(todo)[2] = t /\ Head(todo)[3] = with
  <2>1. Legal(Head(todo)) /\ Head(todo)[2] = t /\ Head(todo)[3] = with
    BY <1>1, HeadLegal DEF Succeeding, About, With
  <2> QED
    BY <1>1, <2>1 DEF Legal, ToolCalls
<1>3. SetItem(t, x)
  <2>1. SetItem(t, [item[t] EXCEPT !.status = with, !.stage = "complete", !.text = FALSE, !.retry = "none",
                                   !.due = FALSE, !.run = IF @ = 0 THEN Len(runs[t]) ELSE @])
    BY DEF Finish
  <2>2. ItemRow(item[t])
    BY <1>2 DEF Succeeding, Items
  <2>3. x = [item[t] EXCEPT !.status = with, !.stage = "complete", !.text = FALSE, !.retry = "none",
                            !.due = FALSE, !.run = IF @ = 0 THEN Len(runs[t]) ELSE @]
    BY <2>2 DEF ItemRow
  <2> QED
    BY <2>1, <2>3
<1>4. Told(x, with, "complete", "none", item[t].leaf, item[t].cap, n)
  BY <1>2, ItemField DEF Succeeding, Items
<1>5. item'[t] = x
  BY <1>2, <1>3 DEF Succeeding, Items, SetItem
<1>6. n \in 0..Len(runs'[t]) /\ Booked(t)
  <2>1. Sequenced(runs[t]) /\ Booked(t)
    BY <1>2 DEF Succeeding, Items
  <2>2. Len(runs[t]) \in Nat /\ item[t].run \in 0..Len(runs[t])
    BY <2>1, IsSequence DEF Sequenced, Booked
  <2> QED
    BY <1>1, <2>1, <2>2
<1>7. ASSUME Booked(t)'
      PROVE  Items' /\ \A u \in Tools : u # t => item'[u] = item[u]
  BY <1>1, <1>2, <1>3, <1>4, <1>7, AskedStays, ItemsHold DEF Succeeding, Told
<1>8. CASE with # "succeeded"
  <2>1. Booked(t)'
    BY <1>2, <1>4, <1>5, <1>6, <1>8 DEF Booked, Told, TerminalStatuses
  <2>2. Items' /\ \A u \in Tools : u # t => item'[u] = item[u]
    BY <1>7, <2>1
  <2>3. Kept
    <3>1. item'[t].status # "succeeded" /\ item'[t].cap = item[t].cap
      BY <1>4, <1>5, <1>8 DEF Told
    <3> QED
      BY <2>2, <3>1, KeptBy
  <2>4. ~Chained(Head(todo)) /\ Head(todo)[1] # "record"
    BY <1>1, <1>2, <1>8 DEF Chained, Links, Succeeds
  <2>5. DOMAIN req \subseteq DOMAIN req' /\ todo' = <<>> \o Tail(todo)
    BY <1>1 DEF Skip, Then
  <2>6. Good(todo)'
    BY <1>1, <2>3, <2>4, <2>5, NothingGood, GoesWriting DEF Succeeding
  <2> QED
    BY <2>2, <2>6
<1>9. CASE with = "succeeded"
  <2>1. Succeeds(Head(todo)) /\ Chained(Head(todo))
    BY <1>1, <1>2, <1>9 DEF Chained, Succeeds
  <2>2. Inscribed(t) /\ (CapabilityOnly(t) => Unasked(t))
    <3>1. Reached(Head(todo)) /\ Named(Head(todo))
      BY <1>1, <2>1, ChainHead DEF Succeeding
    <3> QED
      BY <1>1, <1>2, <2>1, <3>1 DEF Reached, Named
  <2>3. item'[t].run = item[t].run /\ item'[t].leaf = item[t].leaf /\ item'[t].cap = item[t].cap
    <3>1. item[t].run # 0
      BY <2>2 DEF Inscribed, Opened
    <3> QED
      BY <1>4, <1>5, <3>1 DEF Told
  <2>4. Booked(t)'
    <3>1. Inscribed(t)'
      BY <1>1, <2>2, <2>3 DEF Inscribed, Opened, Chosen, Given, CapabilityOnly
    <3>2. CapabilityOnly(t) => Unasked(t)'
      BY <1>1, <2>2, AskedStays
    <3>3. CapabilityOnly(t)' <=> CapabilityOnly(t)
      BY DEF CapabilityOnly
    <3> QED
      BY <1>2, <1>4, <1>5, <1>6, <3>1, <3>2, <3>3 DEF Booked, Told, TerminalStatuses
  <2>5. Items' /\ \A u \in Tools : u # t => item'[u] = item[u]
    BY <1>7, <2>4
  <2>6. \A u \in Tools : /\ item'[u].leaf = item[u].leaf /\ item'[u].cap = item[u].cap
    BY <2>3, <2>5
  <2>7. Head(todo) = todo[1] /\ Len(todo) \in Nat
    BY <1>1, HeadLegal, IsSequence DEF Succeeding, Listing, Sequenced
  <2>8. \A c : Later(c) => ~Waits(c)
    <3>1. ASSUME NEW i \in 2..Len(todo), Waits(todo[i])
          PROVE  FALSE
      <4>1. i \in 1..Len(todo) /\ 1 \in 1..(i - 1)
        BY <2>7
      <4>2. Calm(todo[1])
        BY <3>1, <4>1 DEF Succeeding, Good, Tame
      <4> QED
        BY <1>1, <1>2, <1>9, <2>7, <4>2 DEF Calm, CalmNames, Begins, Links
    <3> QED
      BY <3>1 DEF Later
  <2>9. ASSUME NEW c, Later(c), Legal(c), Named(c)
        PROVE  Legal(c)' /\ Named(c)'
    <3>1. ~Waits(c)
      BY <2>8, <2>9
    <3>2. Legal(c)'
      BY <1>1, <2>9, <3>1 DEF Legal, Waits, CapabilityOnly, Begins
    <3>3. c[1] \in ToolCalls => c[2] \in Tools
      BY <2>9 DEF Legal
    <3>4. Named(c)'
      BY <1>1, <2>6, <2>9, <3>3 DEF Named, CapabilityOnly, Unasked, Succeeds, ToolCalls, Links
    <3> QED
      BY <3>2, <3>4
  <2>10. ASSUME NEW p, NEW c, Later(c), Legal(c), Linked(p, c)
         PROVE  Linked(p, c)'
    BY <2>6, <2>10 DEF Legal, Linked, Uncapable, CapabilityOnly, Succeeds, ToolCalls, Links
  <2>11. \A c : ~(Chained(c) /\ Linked(Head(todo), c))
    BY <1>1, LinkOrder
  <2>12. Good(todo)'
    BY <1>1, <2>1, <2>9, <2>10, <2>11, LinkFollows DEF Succeeding
  <2> QED
    BY <2>5, <2>12
<1> QED
  BY <1>8, <1>9

-----------------------------------------------------------------------------
(* A result is recorded, and what follows from it.                           *)

LEMMA RecordGood ==
  ASSUME Listing, Tabled, Succeeding, Record
  PROVE  Succeeding'
<1> PICK k, with : k = About /\ with = With
  OBVIOUS
<1>1. todo # <<>> /\ Head(todo)[1] = "record" /\ UNCHANGED <<item, runs, assign>> /\ Skip
  BY DEF Record, Do
<1>2. Head(todo) = todo[1] /\ Head(todo)[2] = k /\ Head(todo)[3] = with
  BY <1>1, HeadLegal DEF Succeeding, About, With
<1>3. k \in DOMAIN req /\ Current(k)
  <2>1. Legal(Head(todo)) /\ Foremost(Head(todo))
    BY <1>1, HeadLegal DEF Succeeding
  <2> QED
    BY <1>1, <1>2, <2>1 DEF Legal, Foremost, KeyCalls
<1>4. /\ Requests' /\ DOMAIN req' = DOMAIN req /\ \A t : Unasked(t) => Unasked(t)'
      /\ with \notin Errors => req'[k].status = "succeeded"
  BY <1>3, RecordHolds DEF Succeeding
<1>5. Items'
  BY <1>1, <1>4, ItemsStay DEF Succeeding
<1>6. Current(k)'
  <2>1. \A t, stage : Attempts(t, stage)' = Attempts(t, stage)
    BY <1>4 DEF Attempts
  <2> QED
    BY <1>1, <1>3, <2>1 DEF Current, Newest, Closed
<1>7. \A c : Legal(c) /\ Named(c) => Legal(c)' /\ Named(c)'
  <2>1. \A c : Legal(c) => Legal(c)'
    BY <1>1, <1>4 DEF Legal, NotSucceeded, Uncapable, CapabilityOnly
  <2>2. \A c : Named(c) => Named(c)'
    BY <1>1, <1>4 DEF Named, CapabilityOnly, Succeeds
  <2> QED
    BY <2>1, <2>2
<1>8. \A p, c : Linked(p, c) => Linked(p, c)'
  BY <1>1 DEF Linked, Uncapable, CapabilityOnly, Succeeds
<1>9. ASSUME 2 \in 1..Len(todo), NEW c, c = todo[2]
      PROVE  Reached(c)' /\ Foremost(c)'
  <2>1. /\ c[1] \notin {"record", "finalize"}
        /\ c[1] = "react" => todo[1] = Call("record", c[2], c[3])
    BY <1>9 DEF Succeeding, Good, Placed
  <2>2. ~Chained(c)
    <3>1. Chained(c) => Chained(todo[1])
      BY <1>9 DEF Succeeding, Good, Strung
    <3> QED
      BY <1>1, <1>2, <3>1 DEF Chained, Links, Succeeds
  <2>3. Reached(c)'
    BY <2>2 DEF Reached, Chained, Succeeds
  <2>4. c[1] = "react" => c[2] = k /\ c[3] = with
    BY <1>2, <2>1 DEF Call
  <2>5. Foremost(c)'
    BY <1>4, <1>6, <2>1, <2>4 DEF Foremost
  <2> QED
    BY <2>3, <2>5
<1>10. Good(todo)'
  <2>1. \A q : q = todo' => Good(q)'
    BY <1>1, <1>7, <1>8, <1>9, Follows DEF Succeeding
  <2> QED
    BY <2>1, GoodNext
<1> QED
  BY <1>4, <1>5, <1>10 DEF Succeeding

(* A stage of full classification goes on, or the item closes.               *)
LEMMA GoesToStage ==
  ASSUME NEW t \in Tools, NEW to \in Stages, CapabilityOnly(t) => to = "capability" /\ NotSucceeded(t)',
         NEW s, s = <<Call("enqueue", t, to)>>
  PROVE  Good(s)' /\ Calmly(s)'
<1> PICK c : c = Call("enqueue", t, to)
  OBVIOUS
<1>1. c[1] = "enqueue" /\ c[2] = t /\ c[3] = to
  BY DEF Call
<1>2. Legal(c)'
  BY <1>1 DEF Legal, KeyCalls, ToolCalls, FullCalls, Begins, Links, CapabilityOnly
<1>3. Simple(c) /\ Calm(c)'
  BY <1>1 DEF Simple, Chained, Succeeds, Links, Calm, CalmNames, Begins
<1> QED
  BY <1>2, <1>3, OneSimple

LEMMA GoesToFinal ==
  ASSUME NEW t \in Tools, NEW c, NEW s, s = <<c>>,
         \/ c = Call("finalize", t, "ok") /\ (CapabilityOnly(t) => NotSucceeded(t)' /\ Unasked(t)')
         \/ /\ ~CapabilityOnly(t)
            /\ \E with : c = Call("afterLeaf", t, with)
  PROVE  Good(s)'
<1>1. c[2] = t /\ c[1] \in {"finalize", "afterLeaf"} /\ (c[1] = "afterLeaf" => ~CapabilityOnly(t))
  BY DEF Call
<1>2. c[1] = "finalize" /\ CapabilityOnly(t) => NotSucceeded(t)' /\ Unasked(t)'
  BY DEF Call
<1>3. Legal(c)'
  BY <1>1 DEF Legal, KeyCalls, ToolCalls, FullCalls, Begins, Links, CapabilityOnly
<1>4. ~Chained(c) /\ ~Chained(c)'
  BY <1>1 DEF Chained, Succeeds, Links
<1>5. Named(c)' /\ Reached(c)'
  BY <1>4, UnchainedIsNamed DEF Reached
<1>6. Foremost(c)'
  BY <1>1, <1>2 DEF Foremost, CapabilityOnly
<1>7. Good(<<c>>)'
  BY <1>3, <1>5, <1>6, Alone
<1>8. \A q : q = s => Good(q)'
  BY <1>7
<1> QED
  BY <1>8

LEMMA DecideGood ==
  ASSUME Listing, Succeeding, Decide
  PROVE  Good(todo)' /\ Items'
<1> PICK t, with : t = About /\ with = With
  OBVIOUS
<1>1. /\ todo # <<>> /\ Head(todo)[1] \in {"afterProfile", "afterLeaf"} /\ UNCHANGED <<item, req, runs, assign>>
      /\ Then(AfterProfile(t, with)) \/ Then(AfterLeaf(t, with))
  BY DEF Decide, Do, tables
<1>2. t \in Tools /\ ~CapabilityOnly(t)
  <2>1. Legal(Head(todo)) /\ Head(todo)[2] = t
    BY <1>1, HeadLegal DEF Succeeding, About
  <2> QED
    BY <1>1, <2>1 DEF Legal, ToolCalls, FullCalls
<1>3. ~Chained(Head(todo)) /\ Head(todo)[1] # "record" /\ ~Calm(Head(todo))
  BY <1>1 DEF Chained, Links, Succeeds, Calm, CalmNames, Begins
<1>4. Items'
  BY <1>1, AskedStays, ItemsStay DEF Succeeding
<1>5. DOMAIN req \subseteq DOMAIN req'
  BY <1>1
<1>6. ASSUME NEW s, Good(s)', todo' = s \o Tail(todo)
      PROVE  Good(todo)'
  BY <1>1, <1>3, <1>5, <1>6, GoesWriting DEF Succeeding
<1>7. ASSUME NEW to \in Stages, todo' = <<Call("enqueue", t, to)>> \o Tail(todo)
      PROVE  Good(todo)'
  BY <1>2, <1>6, <1>7, GoesToStage
<1>8. ASSUME NEW status \in TerminalStatuses \ {"succeeded"}, todo' = CompleteWithoutLeaf(t, status) \o Tail(todo)
      PROVE  Good(todo)'
  <2>1. item[t].run = 0 => NotSucceeded(t)'
    BY <1>1, <1>2, RunlessOpen DEF Succeeding, NotSucceeded
  <2> QED
    BY <1>2, <1>6, <1>8, <2>1, ClosesGood
<1>9. ASSUME todo' = <<Call("finalize", t, "ok")>> \o Tail(todo)
      PROVE  Good(todo)'
  <2> PICK c, s : c = Call("finalize", t, "ok") /\ s = <<c>>
    OBVIOUS
  <2>1. Good(s)'
    BY <1>2, GoesToFinal
  <2> QED
    BY <1>6, <1>9, <2>1
<1>10. /\ {"l1", "leaf_escalation", "capability"} \subseteq Stages
       /\ {"skipped", "partial", "needs_review"} \subseteq TerminalStatuses \ {"succeeded"}
  BY DEF Stages, TerminalStatuses
<1>11. CASE Then(AfterProfile(t, with))
  <2>1. \/ todo' = <<Call("enqueue", t, "l1")>> \o Tail(todo)
        \/ todo' = CompleteWithoutLeaf(t, "skipped") \o Tail(todo)
        \/ todo' = CompleteWithoutLeaf(t, "partial") \o Tail(todo)
    BY <1>11 DEF Then, AfterProfile
  <2> QED
    BY <1>4, <1>7, <1>8, <1>10, <2>1
<1>12. CASE Then(AfterLeaf(t, with))
  <2>1. \/ todo' = <<Call("enqueue", t, "leaf_escalation")>> \o Tail(todo)
        \/ todo' = CompleteWithoutLeaf(t, "needs_review") \o Tail(todo)
        \/ todo' = <<Call("enqueue", t, "capability")>> \o Tail(todo)
        \/ todo' = <<Call("finalize", t, "ok")>> \o Tail(todo)
    BY <1>12 DEF Then, AfterLeaf
  <2> QED
    BY <1>4, <1>7, <1>8, <1>9, <1>10, <2>1
<1> QED
  BY <1>1, <1>11, <1>12

LEMMA FinalizeGood ==
  ASSUME Listing, Succeeding, Finalize
  PROVE  Good(todo)' /\ Items'
<1> PICK t, failed : t = About /\ failed = (With = "error") /\ failed \in BOOLEAN
  OBVIOUS
<1>1. /\ todo # <<>> /\ Head(todo)[1] = "finalize" /\ UNCHANGED <<item, req, runs, assign>>
      /\ Then(IF CapabilityOnly(t) THEN FinalizeCapabilityOnly(t, failed)
              ELSE IF item[t].stage = "complete" /\ item[t].status \in {"succeeded", "partial"} THEN <<>>
              ELSE IF ~Eligible(t) THEN CompleteWithoutLeaf(t, "needs_review")
              ELSE FinalizeFull(t, failed))
  BY DEF Finalize, Do, tables
<1>2. /\ t \in Tools
      /\ CapabilityOnly(t) => NotSucceeded(t) /\ (failed \/ Uncapable(t) \/ Unasked(t))
  <2>1. Legal(Head(todo)) /\ Foremost(Head(todo)) /\ Head(todo)[2] = t /\ Head(todo)[3] = With
    BY <1>1, HeadLegal DEF Succeeding, About, With
  <2> QED
    BY <1>1, <2>1 DEF Legal, ToolCalls, Foremost
<1>3. ~Chained(Head(todo)) /\ Head(todo)[1] # "record"
  BY <1>1 DEF Chained, Links, Succeeds
<1>4. Calm(Head(todo)) => failed \/ (CapabilityOnly(t) /\ Uncapable(t))
  <2>1. Head(todo)[2] = t /\ Head(todo)[3] = With
    BY DEF About, With
  <2> QED
    BY <1>1, <2>1 DEF Calm, CalmNames, Begins, Links
<1>5. Items'
  BY <1>1, AskedStays, ItemsStay DEF Succeeding
<1>6. DOMAIN req \subseteq DOMAIN req'
  BY <1>1
<1>7. Booked(t) /\ Sequenced(runs[t])
  BY <1>2 DEF Succeeding, Items
<1>8. ASSUME NEW s, Good(s)', Calm(Head(todo)) => Calmly(s)', todo' = s \o Tail(todo)
      PROVE  Good(todo)'
  BY <1>1, <1>3, <1>6, <1>8, GoesOn DEF Succeeding
<1>9. CASE CapabilityOnly(t)
  <2> PICK s : s = FinalizeCapabilityOnly(t, failed)
    OBVIOUS
  <2>1. Good(s)' /\ (failed \/ Uncapable(t) => Calmly(s)')
    BY <1>1, <1>2, <1>7, <1>9, FinalizesCapability
  <2>2. todo' = s \o Tail(todo)
    BY <1>1, <1>9 DEF Then
  <2> QED
    BY <1>4, <1>5, <1>8, <2>1, <2>2
<1>10. CASE ~CapabilityOnly(t) /\ item[t].stage = "complete" /\ item[t].status \in {"succeeded", "partial"}
  <2>1. todo' = <<>> \o Tail(todo)
    BY <1>1, <1>10 DEF Then
  <2> QED
    BY <1>5, <1>8, <2>1, NothingGood
<1>11. CASE /\ ~CapabilityOnly(t) /\ ~Eligible(t)
            /\ ~(item[t].stage = "complete" /\ item[t].status \in {"succeeded", "partial"})
  <2> PICK s : s = CompleteWithoutLeaf(t, "needs_review")
    OBVIOUS
  <2>1. item[t].run = 0 => NotSucceeded(t)'
    BY <1>1, <1>2, RunlessOpen DEF Succeeding, NotSucceeded
  <2>2. Good(s)' /\ Calmly(s)'
    BY <1>2, <2>1, ClosesGood DEF TerminalStatuses
  <2>3. todo' = s \o Tail(todo)
    BY <1>1, <1>11 DEF Then
  <2> QED
    BY <1>5, <1>8, <2>2, <2>3
<1>12. CASE /\ ~CapabilityOnly(t) /\ Eligible(t)
            /\ ~(item[t].stage = "complete" /\ item[t].status \in {"succeeded", "partial"})
  <2> PICK s : s = FinalizeFull(t, failed)
    OBVIOUS
  <2>1. NotSucceeded(t)
    BY <1>7, <1>12 DEF Booked, NotSucceeded
  <2>2. Good(s)' /\ (failed => Calmly(s)')
    BY <1>1, <1>2, <1>7, <1>12, <2>1, FinalizesFull
  <2>3. todo' = s \o Tail(todo)
    BY <1>1, <1>12 DEF Then
  <2> QED
    BY <1>4, <1>5, <1>8, <1>12, <2>2, <2>3
<1> QED
  BY <1>9, <1>10, <1>11, <1>12

-----------------------------------------------------------------------------
(* What an answer of the model brings about.                                 *)

(* The newest attempt succeeded, so that none is open in its stage.          *)
LEMMA NoneAsked ==
  ASSUME Requests, IsFiniteSet(DOMAIN req), NEW k \in DOMAIN req, CapabilityOnly(k[1]),
         k[3] = Newest(k[1], k[2]), req[k].status = "succeeded"
  PROVE  Unasked(k[1])
<1>1. SUFFICES ASSUME NEW l \in DOMAIN req, l[1] = k[1]
               PROVE  req[l].status \notin OpenStatuses
  BY DEF Unasked
<1>2. k \in Tools \X Stages \X (Nat \ {0}) /\ l \in Tools \X Stages \X (Nat \ {0}) /\ k[2] = l[2]
  BY <1>1 DEF Requests, CapabilityOnly
<1>3. l[3] <= k[3]
  BY <1>1, <1>2, NewestAttempt
<1>4. CASE l[3] = k[3]
  <2>1. l = k
    BY <1>1, <1>2, <1>4
  <2> QED
    BY <2>1 DEF OpenStatuses
<1>5. CASE l[3] < k[3]
  <2>1. req[l].status = "failed"
    BY <1>1, <1>2, <1>5 DEF Requests
  <2> QED
    BY <2>1 DEF OpenStatuses
<1> QED
  BY <1>2, <1>3, <1>4, <1>5

LEMMA ReactGood ==
  ASSUME Listing, Finite, Succeeding, React
  PROVE  Good(todo)' /\ Items'
<1> PICK k, t, stage, with, verdict :
      k = About /\ t = k[1] /\ stage = k[2] /\ with = With /\ verdict = ProfileVerdict(t, with)
  OBVIOUS
<1>1. todo # <<>> /\ Head(todo)[1] = "react" /\ UNCHANGED <<req, runs, assign>>
  BY DEF React, Do
<1>2. \/ Then(<<Call("fail", k, with)>>) /\ UNCHANGED item
      \/ /\ stage = "profile" /\ UNCHANGED item
         /\ Then((IF item[t].judged = "none" THEN <<Call("setKind", t, verdict)>> ELSE <<>>)
                 \o <<Call("saveProfile", t, verdict)>>)
      \/ /\ stage \in {"l1", "l1_escalation"}
         /\ SetItem(t, [item[t] EXCEPT !.l1 = with]) /\ Then(AfterL1(t, stage, with))
      \/ /\ stage \in {"leaf", "leaf_escalation"}
         /\ SetItem(t, [item[t] EXCEPT !.leaf = with]) /\ Then(<<Call("afterLeaf", t, stage)>>)
      \/ /\ with \notin Errors /\ stage \notin {"profile", "l1", "l1_escalation", "leaf", "leaf_escalation"}
         /\ SetItem(t, [item[t] EXCEPT !.cap = with]) /\ Then(<<Call("finalize", t, "ok")>>)
  BY DEF React
<1>3. /\ k \in DOMAIN req /\ Current(k) /\ (with \notin Errors => req[k].status = "succeeded")
      /\ t \in Tools /\ stage \in Stages /\ (CapabilityOnly(t) => stage = "capability")
  <2>1. Legal(Head(todo)) /\ Foremost(Head(todo)) /\ Head(todo)[2] = k /\ Head(todo)[3] = with
    BY <1>1, HeadLegal DEF Succeeding, About, With
  <2>2. k \in DOMAIN req /\ Current(k) /\ (with \notin Errors => req[k].status = "succeeded")
    BY <1>1, <2>1 DEF Legal, KeyCalls, Foremost
  <2> QED
    BY <2>2 DEF Succeeding, Requests
<1>4. /\ k[3] = Newest(t, stage) /\ item[t].stage = stage
      /\ NotSucceeded(t) /\ item[t].status \notin TerminalStatuses
  BY <1>3 DEF Current, Closed, NotSucceeded, TerminalStatuses
<1>5. ~Chained(Head(todo)) /\ Head(todo)[1] # "record" /\ ~Calm(Head(todo))
  BY <1>1 DEF Chained, Links, Succeeds, Calm, CalmNames, Begins
<1>6. DOMAIN req \subseteq DOMAIN req'
  BY <1>1
<1>7. ASSUME NEW s, Good(s)', todo' = s \o Tail(todo)
      PROVE  Good(todo)'
  BY <1>1, <1>5, <1>6, <1>7, GoesWriting DEF Succeeding
<1>8. ASSUME UNCHANGED item
      PROVE  Items'
  BY <1>1, <1>8, AskedStays, ItemsStay DEF Succeeding
<1>9. Items /\ Booked(t) /\ ItemRow(item[t])
  BY <1>3 DEF Succeeding, Items
<1>10. CASE Then(<<Call("fail", k, with)>>) /\ UNCHANGED item
  <2> PICK c, s : c = Call("fail", k, with) /\ s = <<c>>
    OBVIOUS
  <2>1. c[1] = "fail" /\ c[2] = k
    BY DEF Call
  <2>2. NotSucceeded(t)'
    BY <1>4, <1>10 DEF NotSucceeded
  <2>3. Legal(c)'
    BY <1>3, <1>6, <2>1, <2>2 DEF Legal, KeyCalls, ToolCalls, FullCalls, Begins, Links, CapabilityOnly
  <2>4. Good(s)'
    BY <2>1, <2>3, SimpleAlone DEF Simple, Chained, Succeeds, Links
  <2>5. todo' = s \o Tail(todo)
    BY <1>10 DEF Then
  <2> QED
    BY <1>7, <1>8, <1>10, <2>4, <2>5
<1>11. CASE /\ stage = "profile" /\ UNCHANGED item
            /\ Then((IF item[t].judged = "none" THEN <<Call("setKind", t, verdict)>> ELSE <<>>)
                    \o <<Call("saveProfile", t, verdict)>>)
  <2> PICK c, d, s : /\ c = Call("setKind", t, verdict) /\ d = Call("saveProfile", t, verdict)
                     /\ s = (IF item[t].judged = "none" THEN <<c>> ELSE <<>>) \o <<d>>
    OBVIOUS
  <2>1. c[1] = "setKind" /\ c[2] = t /\ d[1] = "saveProfile" /\ d[2] = t
    BY DEF Call
  <2>2. ~CapabilityOnly(t)
    BY <1>3, <1>11
  <2>3. Legal(c)' /\ Legal(d)'
    BY <1>3, <2>1, <2>2 DEF Legal, KeyCalls, ToolCalls, FullCalls, Begins, Links, CapabilityOnly
  <2>4. Simple(c) /\ Simple(d) /\ ~Waits(d)
    BY <2>1 DEF Simple, Chained, Succeeds, Links, Waits, Begins
  <2>5. Good(<<c, d>>)' /\ Good(<<d>>)'
    BY <2>3, <2>4, Both, SimpleAlone
  <2>6. s = <<c, d>> \/ s = <<d>>
    <3>1. <<c>> \o <<d>> = <<c, d>> /\ <<>> \o <<d>> = <<d>>
      <4>1. \A x : x = <<d>> => <<>> \o x = x
        OBVIOUS
      <4> QED
        BY <4>1, Coupled
    <3>2. s = <<c>> \o <<d>> \/ s = <<>> \o <<d>>
      OBVIOUS
    <3> QED
      BY <3>1, <3>2
  <2>7. Good(s)'
    BY <2>5, <2>6
  <2>8. todo' = s \o Tail(todo)
    BY <1>11 DEF Then
  <2> QED
    BY <1>7, <1>8, <1>11, <2>7, <2>8
<1>12. CASE /\ stage \in {"l1", "l1_escalation"}
            /\ SetItem(t, [item[t] EXCEPT !.l1 = with]) /\ Then(AfterL1(t, stage, with))
  <2> PICK x : x = [item[t] EXCEPT !.l1 = with]
    OBVIOUS
  <2>1. Told(x, item[t].status, item[t].stage, item[t].retry, item[t].leaf, item[t].cap, item[t].run)
    BY <1>9, ItemField
  <2>2. Items' /\ item'[t] = x
    BY <1>1, <1>3, <1>9, <1>12, <2>1, AskedStays, SameFields
  <2>3. NotSucceeded(t)' /\ ~CapabilityOnly(t)
    BY <1>3, <1>4, <1>12, <2>1, <2>2 DEF NotSucceeded, Told
  <2>4. ASSUME NEW to \in Stages, todo' = <<Call("enqueue", t, to)>> \o Tail(todo)
        PROVE  Good(todo)'
    BY <1>3, <1>7, <2>3, <2>4, GoesToStage
  <2>5. ASSUME todo' = CompleteWithoutLeaf(t, "needs_review") \o Tail(todo)
        PROVE  Good(todo)'
    <3>1. "needs_review" \in TerminalStatuses \ {"succeeded"}
      BY DEF TerminalStatuses
    <3> QED
      BY <1>3, <1>7, <2>3, <2>5, <3>1, ClosesGood
  <2>6. \/ todo' = <<Call("enqueue", t, "l1_escalation")>> \o Tail(todo)
        \/ todo' = CompleteWithoutLeaf(t, "needs_review") \o Tail(todo)
        \/ todo' = <<Call("enqueue", t, "leaf")>> \o Tail(todo)
    BY <1>12 DEF Then, AfterL1
  <2>7. "l1_escalation" \in Stages /\ "leaf" \in Stages
    BY DEF Stages
  <2> QED
    BY <2>2, <2>4, <2>5, <2>6, <2>7
<1>13. CASE /\ stage \in {"leaf", "leaf_escalation"}
            /\ SetItem(t, [item[t] EXCEPT !.leaf = with]) /\ Then(<<Call("afterLeaf", t, stage)>>)
  <2> PICK x, c, s : x = [item[t] EXCEPT !.leaf = with] /\ c = Call("afterLeaf", t, stage) /\ s = <<c>>
    OBVIOUS
  <2>1. Told(x, item[t].status, item[t].stage, item[t].retry, with, item[t].cap, item[t].run)
    BY <1>9, ItemField
  <2>2. item'[t] = x
    BY <1>3, <1>9, <1>13 DEF Items, SetItem
  <2>3. Booked(t)'
    <3>1. /\ item'[t].status = item[t].status /\ item'[t].stage = item[t].stage /\ item'[t].retry = item[t].retry
          /\ item'[t].cap = item[t].cap /\ item'[t].run = item[t].run
      BY <2>1, <2>2 DEF Told
    <3> QED
      BY <1>1, <1>4, <1>9, <3>1 DEF Booked, Uncapable, CapabilityOnly, NotSucceeded
  <2>4. Items'
    BY <1>1, <1>3, <1>9, <1>13, <2>1, <2>3, AskedStays, ItemsHold DEF Told
  <2>5. ~CapabilityOnly(t)
    BY <1>3, <1>13
  <2>6. Good(s)'
    BY <1>3, <2>5, GoesToFinal
  <2>7. todo' = s \o Tail(todo)
    BY <1>13 DEF Then
  <2> QED
    BY <1>7, <2>4, <2>6, <2>7
<1>14. CASE /\ with \notin Errors /\ stage \notin {"profile", "l1", "l1_escalation", "leaf", "leaf_escalation"}
            /\ SetItem(t, [item[t] EXCEPT !.cap = with]) /\ Then(<<Call("finalize", t, "ok")>>)
  <2> PICK x, c, s : x = [item[t] EXCEPT !.cap = with] /\ c = Call("finalize", t, "ok") /\ s = <<c>>
    OBVIOUS
  <2>1. Told(x, item[t].status, item[t].stage, item[t].retry, item[t].leaf, with, item[t].run)
    BY <1>9, ItemField
  <2>2. item'[t] = x
    BY <1>3, <1>9, <1>14 DEF Items, SetItem
  <2>3. /\ item'[t].status = item[t].status /\ item'[t].stage = item[t].stage /\ item'[t].retry = item[t].retry
        /\ item'[t].run = item[t].run
    BY <2>1, <2>2 DEF Told
  <2>4. Booked(t)'
    <3>1. item[t].status # "none"
      BY <1>4, <1>9, <1>14 DEF Booked
    <3> QED
      BY <1>1, <1>4, <1>9, <2>3, <3>1 DEF Booked, CapabilityOnly, NotSucceeded
  <2>5. Items'
    BY <1>1, <1>3, <1>9, <1>14, <2>1, <2>4, AskedStays, ItemsHold DEF Told
  <2>6. NotSucceeded(t)'
    BY <1>4, <2>3 DEF NotSucceeded
  <2>7. CapabilityOnly(t) => Unasked(t)'
    <3>1. CapabilityOnly(t) => Unasked(t)
      BY <1>3, <1>4, <1>14, NoneAsked DEF Succeeding, Finite
    <3> QED
      BY <1>1, <3>1, AskedStays
  <2>8. Good(s)'
    BY <1>3, <2>6, <2>7, GoesToFinal
  <2>9. todo' = s \o Tail(todo)
    BY <1>14 DEF Then
  <2> QED
    BY <1>7, <2>5, <2>8, <2>9
<1> QED
  BY <1>2, <1>10, <1>11, <1>12, <1>13, <1>14

-----------------------------------------------------------------------------
(* Every step.                                                               *)

(* A step that leaves the items, the assignments and the runs alone.         *)
LEMMA ApartHolds ==
  ASSUME Tabled, Succeeding, UNCHANGED <<item, runs, assign>>,
         \/ UNCHANGED req
         \/ MarkSubmitted \/ JevInterrupted \/ Submit \/ Reserve \/ JevSubmit \/ CreateBatch \/ Release
         \/ FailRequests,
         UNCHANGED remote \/ Submit \/ CreateBatch \/ \E j \in Jobs : RetrieveEnded(j)
  PROVE  /\ Requests' /\ Items' /\ DOMAIN req \subseteq DOMAIN req'
         /\ (Good(todo)' => Succeeding')
<1>1. Progressing /\ DOMAIN req' = DOMAIN req
  BY RequestsProgress DEF Progressing
<1>2. Remotely => Remotely'
  BY <1>1, RemotesHold
<1>3. Requests' /\ \A t : Unasked(t) => Unasked(t)'
  BY <1>1, <1>2, RequestsHold DEF Succeeding
<1>4. Items'
  BY <1>3, ItemsStay DEF Succeeding
<1> QED
  BY <1>1, <1>3, <1>4 DEF Succeeding

Fetching == \/ RetrieveRunning \/ EndOfPolledJob \/ (\E j \in Jobs : RetrieveEnded(j))
            \/ Reconcile \/ Lines \/ Unreturned \/ Fallback \/ Poll \/ MarkSubmitted
Handing == \/ Submit \/ Select \/ JevRecover \/ JevClaim \/ JevInterrupted \/ JevSelect \/ JevStart
           \/ JevSubmit \/ JevAnswer \/ JevDone \/ Build \/ Reserve \/ FailJob \/ CreateBatch \/ Persist
           \/ PersistFails \/ MarkFails

LEMMA FetchingHolds ==
  ASSUME Bounded, Listing, Finite, Tabled, Succeeding, Fetching
  PROVE  Succeeding'
<1>1. /\ UNCHANGED <<item, runs, assign>>
      /\ UNCHANGED req \/ MarkSubmitted
      /\ UNCHANGED remote \/ \E j \in Jobs : RetrieveEnded(j)
  BY DEF Fetching, RetrieveRunning, EndOfPolledJob, RetrieveEnded, Reconcile, Lines, Unreturned, Fallback, Poll,
         MarkSubmitted, tables
<1>2. Loosely
  <2>1. Remotely
    BY DEF Remotely, Succeeding, Requests
  <2>2. CASE Reconcile \/ Lines \/ Unreturned \/ Fallback
    BY <2>1, <2>2, LooseResultsKept
  <2>3. CASE RetrieveRunning \/ EndOfPolledJob
    BY <2>3, LooseSkips
  <2>4. CASE MarkSubmitted \/ \E j \in Jobs : RetrieveEnded(j)
    BY <2>4, LooseSingles DEF Succeeding
  <2>5. CASE Poll
    BY <2>5, LoosePoll
  <2> QED
    BY <2>2, <2>3, <2>4, <2>5 DEF Fetching
<1>3. DOMAIN req \subseteq DOMAIN req' /\ (Good(todo)' => Succeeding')
  BY <1>1, ApartHolds
<1>4. Good(todo)'
  BY <1>2, <1>3, LooselyGood DEF Succeeding
<1> QED
  BY <1>3, <1>4

LEMMA HandingHolds ==
  ASSUME Bounded, Listing, Finite, Tabled, Succeeding, Handing
  PROVE  Succeeding'
<1>1. /\ UNCHANGED <<item, runs, assign>>
      /\ UNCHANGED req \/ JevInterrupted \/ Submit \/ Reserve \/ JevSubmit \/ CreateBatch
      /\ UNCHANGED remote \/ Submit \/ CreateBatch
  BY DEF Handing, Submit, Select, JevRecover, JevClaim, JevInterrupted, JevSelect, JevStart, JevSubmit, JevAnswer,
         JevDone, Build, Reserve, FailJob, CreateBatch, Persist, PersistFails, MarkFails, tables
<1>2. Loosely
  <2>1. CASE PersistFails \/ MarkFails \/ JevDone
    BY <2>1, LooseSkips
  <2>2. CASE Submit \/ Select \/ JevRecover \/ JevClaim \/ JevSubmit
    BY <2>2, LooseSubmission
  <2>3. CASE \/ JevInterrupted \/ JevAnswer \/ JevStart \/ Persist \/ Reserve \/ CreateBatch
             \/ Build \/ JevSelect \/ FailJob
    BY <2>3, LooseSingles DEF Succeeding
  <2> QED
    BY <2>1, <2>2, <2>3 DEF Handing
<1>3. DOMAIN req \subseteq DOMAIN req' /\ (Good(todo)' => Succeeding')
  BY <1>1, ApartHolds
<1>4. Good(todo)'
  BY <1>2, <1>3, LooselyGood DEF Succeeding
<1> QED
  BY <1>3, <1>4

Seeding == \/ Seed \/ SeedRow \/ SourceFailed \/ EndOfSeedRow \/ ResumeRetries \/ Apply \/ CallFails
           \/ Route \/ MoveTools \/ SetKind \/ ReconcileTerminalTools
           \/ StartPass \/ StopPass \/ Release \/ FailRequests

LEMMA SeedingHolds ==
  ASSUME Bounded, Listing, Finite, Tabled, Succeeding, Seeding
  PROVE  Succeeding'
<1>1. /\ UNCHANGED <<item, runs, assign, remote>>
      /\ UNCHANGED req \/ Release \/ FailRequests
  BY DEF Seeding, Seed, SeedRow, SourceFailed, EndOfSeedRow, ResumeRetries, Apply, CallFails, Route, MoveTools,
         SetKind, ReconcileTerminalTools, StartPass, StopPass, Release, FailRequests, tables
<1>2. DOMAIN req \subseteq DOMAIN req' /\ (Good(todo)' => Succeeding')
  BY <1>1, ApartHolds
<1>3. CASE FailRequests
  BY <1>2, <1>3, FailRequestsGood
<1>4. CASE StartPass \/ StopPass \/ Release
  BY <1>2, <1>4, PassGood
<1>5. CASE SetKind \/ ReconcileTerminalTools
  <2>1. Loosely
    BY <1>5, LooseSkips, LooseTerminal
  <2> QED
    BY <1>2, <2>1, LooselyGood DEF Succeeding
<1>6. CASE Seed \/ SeedRow \/ SourceFailed \/ EndOfSeedRow \/ ResumeRetries \/ Apply \/ CallFails \/ Route \/ MoveTools
  <2>1. UNCHANGED <<item, req>>
    BY <1>6 DEF Seed, SeedRow, SourceFailed, EndOfSeedRow, ResumeRetries, Apply, CallFails, Route, MoveTools, tables
  <2>2. CASE Seed \/ ResumeRetries
    BY <1>2, <2>1, <2>2, SeedGood, ResumeGood
  <2>3. CASE SeedRow \/ SourceFailed
    BY <1>2, <2>1, <2>3, SeedRowGood, SourceFailedGood
  <2>4. CASE CallFails
    BY <1>2, <2>1, <2>4, FailedCallGood
  <2>5. CASE Apply
    BY <1>2, <2>1, <2>5, ApplyGood DEF Succeeding
  <2>6. CASE Route \/ MoveTools \/ EndOfSeedRow
    BY <1>2, <2>1, <2>6, SimpleSkips DEF Succeeding
  <2> QED
    BY <1>6, <2>2, <2>3, <2>4, <2>5, <2>6
<1> QED
  BY <1>3, <1>4, <1>5, <1>6 DEF Seeding

(* The steps of classification and of closing leave the requests alone.      *)
Closing == \/ CreateItem \/ RetrySource \/ React \/ SaveProfile \/ Decide \/ HandleFailure \/ Enter \/ Finalize
           \/ InsertRun \/ CheckpointRun \/ ReadManual \/ WriteAssignment \/ SetRunStatus \/ Finish

LEMMA ClosingHolds ==
  ASSUME Bounded, "none" \notin Capabilities, Listing, Finite, Decided, Succeeding, Closing
  PROVE  Succeeding'
<1>1. UNCHANGED <<req, remote>>
  BY DEF Closing, CreateItem, RetrySource, React, SaveProfile, Decide, HandleFailure, Enter, Finalize, InsertRun,
         CheckpointRun, ReadManual, WriteAssignment, SetRunStatus, Finish, tables
<1>2. Requests'
  BY <1>1 DEF Succeeding, Requests, CapabilityOnly
<1>3. Good(todo)' /\ Items'
  <2>1. CASE CreateItem \/ RetrySource
    BY <2>1, CreateGood, RetrySourceGood
  <2>2. CASE React \/ SaveProfile \/ Decide
    BY <2>2, ReactGood, SaveProfileGood, DecideGood
  <2>3. CASE HandleFailure \/ Enter \/ Finalize
    BY <2>3, HandleFailureGood, EnterGood, FinalizeGood
  <2>4. CASE InsertRun \/ CheckpointRun \/ ReadManual
    BY <2>4, InsertRunGood, CheckpointRunGood, ReadManualGood
  <2>5. CASE WriteAssignment \/ SetRunStatus \/ Finish
    BY <2>5, WriteAssignmentGood, SetRunStatusGood, FinishGood
  <2> QED
    BY <2>1, <2>2, <2>3, <2>4, <2>5 DEF Closing
<1> QED
  BY <1>2, <1>3 DEF Succeeding

LEMMA SucceedingStep ==
  ASSUME Bounded, ~ReviewDuringPass, "none" \notin Capabilities, Decided, Succeeding, [Next]_vars
  PROVE  Succeeding'
<1>1. Listing /\ Finite /\ Tabled
  BY TabledFinite DEF Decided, Handover
<1>2. \/ Fetching \/ Handing \/ Seeding \/ Closing \/ Enqueue \/ Record
      \/ Outside \/ UNCHANGED vars
  BY EveryStep DEF Elsewhere, Deciding, Fetching, Handing, Seeding, Closing
<1>3. CASE Fetching \/ Handing \/ Seeding
  BY <1>1, <1>3, FetchingHolds, HandingHolds, SeedingHolds
<1>4. CASE Closing
  BY <1>1, <1>4, ClosingHolds
<1>5. CASE Enqueue \/ Record
  BY <1>1, <1>5, EnqueueGood, RecordGood
<1>6. CASE Outside \/ UNCHANGED vars
  BY <1>6, SucceedingOutside
<1> QED
  BY <1>2, <1>3, <1>4, <1>5, <1>6

-----------------------------------------------------------------------------
(* What the tables hold at the beginning, and what follows.                  *)

LEMMA SucceedingInit ==
  ASSUME "none" \notin Capabilities, Init
  PROVE  Succeeding
<1>1. todo = <<>> /\ Len(todo) = 0 /\ Sequenced(todo)
  BY Tuples DEF Init
<1>2. Good(todo)
  <2>1. \A i \in 1..Len(todo) : FALSE
    BY <1>1
  <2> QED
    BY <1>1, <2>1 DEF Good, Placed, Tame, Strung, Lawful, Fronted
<1>3. Requests
  <2>1. DOMAIN req = {}
    BY DEF Init
  <2>2. \A j \in Jobs : remote[j].keys = {} /\ DOMAIN remote[j].lines = {}
    BY DEF Init, NoRemote
  <2> QED
    BY <2>1, <2>2 DEF Requests
<1>4. ASSUME NEW t \in Tools
      PROVE  ItemRow(item[t]) /\ Sequenced(runs[t]) /\ Booked(t) /\ Filed(t)
  <2>1. item[t] = NoItem /\ runs[t] = <<>> /\ Len(runs[t]) = 0 /\ Sequenced(runs[t])
    BY Tuples DEF Init
  <2>2. ItemRow(item[t]) /\ Booked(t)
    BY <2>1 DEF ItemRow, NoItem, Booked, Uncapable, Stages, TerminalStatuses
  <2>3. FiledRows(NoRows, 0)
    <3>1. NoRow \in RowSet(0) /\ NoRow.source = "none"
      BY DEF NoRow, RowSet
    <3> QED
      BY <3>1 DEF NoRows, FiledRows
  <2>4. ASSUME NEW first, NEW status, RowStatus(status), NEW rows,
               rows = [NoRows EXCEPT ![first] =
                         [source |-> "auto", status |-> status, primary |-> TRUE, run |-> 0]]
        PROVE  FiledRows(rows, 0)
    <3> PICK r : r = [source |-> "auto", status |-> status, primary |-> TRUE, run |-> 0]
      OBVIOUS
    <3>1. r \in RowSet(0) /\ r.source = "auto"
      BY <2>4 DEF RowSet, RowStatus
    <3>2. rows = [x \in Terms |-> IF x = first THEN r ELSE NoRow]
      BY <2>4 DEF NoRows
    <3>3. NoRow \in RowSet(0) /\ NoRow.source = "none"
      BY DEF NoRow, RowSet
    <3> QED
      BY <3>1, <3>2, <3>3 DEF FiledRows
  <2> DEFINE first == CHOOSE m \in Markets : TRUE
             Older(status) == [NoRows EXCEPT ![first] =
                                 [source |-> "auto", status |-> status, primary |-> TRUE, run |-> 0]]
  <2>5. assign = [u \in Tools |-> CASE u \in Backfill -> Older("auto_accepted")
                                    [] u \in Demoted -> Older("provisional")
                                    [] OTHER -> NoRows]
    BY DEF Init
  <2>6. RowStatus("auto_accepted") /\ RowStatus("provisional")
    BY DEF RowStatus, AutoStatuses
  <2>7. FiledRows(Older("auto_accepted"), 0) /\ FiledRows(Older("provisional"), 0)
    BY <2>4, <2>6
  <2> HIDE DEF Older
  <2>8. assign[t] \in {Older("auto_accepted"), Older("provisional"), NoRows}
    BY <2>5
  <2>9. FiledRows(assign[t], Len(runs[t]))
    BY <2>1, <2>3, <2>7, <2>8
  <2> QED
    BY <2>1, <2>2, <2>9, FiledIs
<1>5. item = [t \in Tools |-> item[t]] /\ runs = [t \in Tools |-> runs[t]]
  BY DEF Init
<1> QED
  BY <1>2, <1>3, <1>4, <1>5 DEF Succeeding, Items

LEMMA SucceedingHolds ==
  ASSUME Bounded, ~ReviewDuringPass, "none" \notin Capabilities
  PROVE  Spec => [](Decided /\ Succeeding)
<1>1. Init => Decided /\ Succeeding
  BY DecidedInit, SucceedingInit
<1>2. Decided /\ Succeeding /\ [Next]_vars => (Decided /\ Succeeding)'
  BY DecidedStep, SucceedingStep
<1> QED
  BY <1>1, <1>2, PTL DEF Spec

(* A closed item that succeeded left the tool with exactly the primary it    *)
(* chose, unless a human had chosen, and with the capability it was given,   *)
(* and its run says so too, however often the process stopped in between:    *)
(* finalize_full and finalize_capability_only write the run, the             *)
(* assignments and the status of the run before complete_item closes the     *)
(* item, and take up what an earlier pass left half written.                 *)
THEOREM SuccessesAreWritten ==
  ASSUME Bounded, ~ReviewDuringPass, "none" \notin Capabilities
  PROVE  Spec => []SucceededIsWritten
<1>1. Succeeding => SucceededIsWritten
  <2>1. SUFFICES ASSUME Succeeding, NEW t \in Tools, item[t].status = "succeeded"
                 PROVE  /\ runs[t][item[t].run] = "succeeded"
                        /\ item[t].cap \in Capabilities => assign[t][item[t].cap].run = item[t].run
                        /\ ~CapabilityOnly(t) /\ ManualPrimaries(assign[t]) = {} =>
                             /\ {m \in Markets : assign[t][m].primary} = {item[t].leaf}
                             /\ assign[t][item[t].leaf].run = item[t].run
    BY DEF SucceededIsWritten
  <2>2. Inscribed(t)
    BY <2>1 DEF Succeeding, Items, Booked
  <2>3. ASSUME ~CapabilityOnly(t), ManualPrimaries(assign[t]) = {}
        PROVE  /\ {m \in Markets : assign[t][m].primary} = {item[t].leaf}
               /\ assign[t][item[t].leaf].run = item[t].run
    BY <2>2, <2>3 DEF Inscribed, Chosen, OnlyPrimary
  <2> QED
    BY <2>2, <2>3 DEF Inscribed, Given
<1> QED
  BY <1>1, SucceedingHolds, PTL

(* The tables hold what their columns may hold; a run an assignment or an    *)
(* item refers to exists, and so does every request of a remote batch.       *)
THEOREM TypesHold ==
  ASSUME Bounded, ~ReviewDuringPass, "none" \notin Capabilities
  PROVE  Spec => []TypeOK
<1>1. Decided /\ Succeeding => TypeOK
  <2>1. SUFFICES ASSUME Decided, Succeeding
                 PROVE  TypeOK
    OBVIOUS
  <2>2. \A t \in Tools : Booked(t) /\ Filed(t)
    BY <2>1 DEF Succeeding, Items
  <2>3. \A k \in DOMAIN req : req[k].job \in Jobs \cup {"none"}
    BY <2>1 DEF Decided, Handover, Tabled, Asked
  <2>4. /\ \A k \in DOMAIN req : /\ k \in Tools \X Stages \X (Nat \ {0})
                                 /\ req[k].status \in OpenStatuses \cup {"succeeded", "failed"}
        /\ \A j \in Jobs : remote[j].keys \subseteq DOMAIN req
    BY <2>1 DEF Succeeding, Requests
  <2> QED
    BY <2>2, <2>3, <2>4 DEF TypeOK, Booked, Filed
<1> QED
  BY <1>1, SucceedingHolds, PTL

(* A stage of a tool is asked anew only when every attempt before it has     *)
(* failed (enqueue_stage takes over an open or an answered request), so that *)
(* a late answer to an older attempt finds its request closed; and a         *)
(* backfilled item that succeeded has no question left open.                 *)
THEOREM OneAttemptIsLive ==
  ASSUME Bounded, ~ReviewDuringPass, "none" \notin Capabilities
  PROVE  Spec => []( /\ \A k, l \in DOMAIN req :
                          k[1] = l[1] /\ k[2] = l[2] /\ k[3] < l[3] => req[k].status = "failed"
                     /\ \A k \in DOMAIN req :
                          CapabilityOnly(k[1]) /\ item[k[1]].status = "succeeded" =>
                            req[k].status \notin OpenStatuses )
<1> DEFINE Live == /\ \A k, l \in DOMAIN req :
                        k[1] = l[1] /\ k[2] = l[2] /\ k[3] < l[3] => req[k].status = "failed"
                   /\ \A k \in DOMAIN req :
                        CapabilityOnly(k[1]) /\ item[k[1]].status = "succeeded" =>
                          req[k].status \notin OpenStatuses
<1>1. Succeeding => Live
  <2>1. ASSUME Succeeding, NEW k \in DOMAIN req, CapabilityOnly(k[1]), item[k[1]].status = "succeeded"
        PROVE  req[k].status \notin OpenStatuses
    <3>1. k[1] \in Tools
      BY <2>1 DEF Succeeding, Requests
    <3>2. Unasked(k[1])
      BY <2>1, <3>1 DEF Succeeding, Items, Booked
    <3> QED
      BY <3>2 DEF Unasked
  <2> QED
    BY <2>1 DEF Succeeding, Requests
<1>2. Spec => []Live
  <2> HIDE DEF Live
  <2> QED
    BY <1>1, SucceedingHolds, PTL
<1> QED
  BY <1>2
=============================================================================
