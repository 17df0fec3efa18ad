---------------------- MODULE ShadowClassifier_proofs ----------------------
(***************************************************************************)
(* Theorems of the pass without the batch pipeline, for every number of    *)
(* tools and requests, every limit of a batch, whatever is answered, and   *)
(* whatever raises or stops.                                               *)
(***************************************************************************)
EXTENDS ShadowClassifier, SequenceTheorems, TLAPS

(* Rows are numbered from 1, the tools that change are in the catalog, there  *)
(* is a market, and none is a capability or the mark for no market; what       *)
(* names no market is one of the outcomes the code tells apart.                *)
Bounded ==
  /\ Tools \subseteq Nat \ {0} /\ Requests \subseteq Nat \ {0} /\ MaxAttempts \in Nat
  /\ Classified \subseteq Tools /\ Changing \subseteq Tools
  /\ Markets # {} /\ "none" \notin Markets /\ Markets \cap Capabilities = {}
  /\ Outcomes \subseteq {"unreadable", "blocked", "unclear", "silent", "weak", "nonproduct", "l1_failed"}

-----------------------------------------------------------------------------
(* Types.                                                                    *)
Kinds == {"product", "non_product", "unresolved"}

Candidate == [status : {"none", "pending", "approved", "rejected", "resolved"},
              cooling : BOOLEAN, request : Requests \cup {0}]

Request == [status : Active \cup Settled \cup {"none"}, tool : Tools \cup {0},
            attempts : 0..MaxAttempts, lease : {"none", "held", "expired"}, run : Nat]

Run == [status : {"succeeded", "partial", "skipped", "failed"}, of : {"full", "backfill", "older"}]

Answer == [outcome : Outcomes \cup {"none", "accepted", "backfill"},
           market : Markets \cup {"none"}, capability : CapabilityAnswers \cup {"none"}]

Idle == {"none", "waiting"}

Row == [at : Idle \cup Statements \cup {"classify", "settle", "failing", "anomaly"},
        reason : {"none", "queued", "normal", "backfill"}, kind : Kinds \cup {"none"},
        request : Requests \cup {0}, token : Nat, answer : Answer, run : Nat]

Tables ==
  /\ polluted \subseteq Tools /\ profiles \subseteq Tools
  /\ candidates \in [Tools -> Candidate] /\ requests \in [Requests -> Request]
  /\ kinds \in [Tools -> Kinds] /\ assign \in [Tools -> Rows] /\ runs \in [Tools -> Seq(Run)]

Formed(pass) == pass = [at |-> pass.at, cursor |-> pass.cursor, found |-> pass.found,
                        requests |-> pass.requests, blocked |-> pass.blocked]

Passes == passes = [w \in Workers |-> passes[w]] /\ \A w \in Workers : Formed(passes[w])

(* The request of a row was made for its tool, and its answer names what it  *)
(* is about to write.                                                        *)
Founded(t, task) ==
  /\ task.request # 0 => requests[task.request].tool = t /\ requests[task.request].status # "none"
  /\ task.at \in {"settle", "failing", "anomaly"} => task.request # 0
  /\ task.at \in {"retire", "primary"} => task.answer.market \in Markets
  /\ task.at = "capability" => task.answer.capability \in Capabilities

(* A row that is worked on is worked on by a pass. *)
Placed(w, task) == task.at \notin Idle => passes[w].at = "work"

Typed ==
  /\ Tables /\ Passes
  /\ work \in [Workers -> [Tools -> Row]]
  /\ \A w \in Workers, t \in Tools : Founded(t, work[w][t]) /\ Placed(w, work[w][t])

-----------------------------------------------------------------------------
(* What the answers of a question are.                                       *)
LEMMA AnswersTyped ==
  ASSUME Bounded, NEW answer \in Answers
  PROVE  /\ answer \in Answer /\ answer.outcome \notin {"none", "backfill"}
         /\ answer.outcome = "accepted" <=> answer.market # "none"
         /\ answer.market # "none" => answer.market \in Markets
<1>1. ASSUME NEW o \in Outcomes, answer = Says(o)
      PROVE  /\ answer \in Answer /\ answer.outcome = o /\ answer.market = "none"
  BY <1>1 DEF Says, Answer
<1>2. CASE answer \in [outcome : {"accepted"}, market : Markets, capability : CapabilityAnswers]
  BY <1>2 DEF Bounded, Answer
<1> QED
  BY <1>1, <1>2 DEF Answers, Bounded

LEMMA CapabilityTyped ==
  ASSUME Bounded, NEW answer \in CapabilityOnly
  PROVE  answer \in Answer /\ answer.outcome = "backfill" /\ answer.market = "none"
BY DEF CapabilityOnly, Answer

LEMMA NothingTyped ==
  NoTask \in Row /\ NoTask.at = "none" /\ NoTask.request = 0 /\ NoTask.reason = "none"
<1>1. NoAnswer \in Answer
  BY DEF NoAnswer, Says, Answer
<1>2. NoTask = [at |-> "none", reason |-> "none", kind |-> "none", request |-> 0, token |-> 0,
                answer |-> NoAnswer, run |-> 0]
  BY DEF NoTask
<1> QED
  BY <1>1, <1>2 DEF Row, Idle

LEMMA WaitingTyped ==
  ASSUME Tables, NEW t \in Tools, NEW reason \in {"queued", "normal", "backfill"}
  PROVE  /\ Task(reason, t) \in Row /\ Task(reason, t).at = "waiting"
         /\ Task(reason, t).request = 0 /\ Task(reason, t).reason = reason
<1>1. PICK row \in Row : row = NoTask /\ row.request = 0
  BY NothingTyped
<1>2. PICK kind \in Kinds : kind = kinds[t]
  BY DEF Tables
<1>3. PICK next : next = [row EXCEPT !.at = "waiting", !.reason = reason, !.kind = kind]
  OBVIOUS
<1>4. next \in Row /\ next.at = "waiting" /\ next.reason = reason /\ next.request = 0
  BY <1>1, <1>2, <1>3 DEF Row, Idle
<1>5. next = Task(reason, t)
  BY <1>1, <1>2, <1>3 DEF Task
<1> QED
  BY <1>4, <1>5

LEMMA EndsTyped ==
  ASSUME NEW answer, NEW kind
  PROVE  EndStatus(answer, kind) \in {"succeeded", "partial", "skipped", "failed"}
BY DEF EndStatus

-----------------------------------------------------------------------------
(* The rows of a tool stay rows.                                             *)
LEMMA RetireTyped ==
  ASSUME NEW rows \in Rows, NEW term
  PROVE  RetireOtherPrimaries(rows, term) \in Rows
<1>1. ASSUME NEW x \in Terms
      PROVE  [rows[x] EXCEPT !.primary = FALSE,
                             !.status = IF @ \in AutoStatuses THEN "superseded" ELSE @]
               \in [source : {"none", "auto", "manual"},
                    status : AutoStatuses \cup {"none", "verified", "superseded"}, primary : BOOLEAN, run : Nat]
  <2>1. PICK row \in [source : {"none", "auto", "manual"},
                      status : AutoStatuses \cup {"none", "verified", "superseded"}, primary : BOOLEAN, run : Nat] :
             row = rows[x]
    BY DEF Rows
  <2>2. PICK status : status = IF row.status \in AutoStatuses THEN "superseded" ELSE row.status
    OBVIOUS
  <2>3. status \in AutoStatuses \cup {"none", "verified", "superseded"}
    BY <2>2
  <2>4. [row EXCEPT !.primary = FALSE, !.status = status]
               \in [source : {"none", "auto", "manual"},
                    status : AutoStatuses \cup {"none", "verified", "superseded"}, primary : BOOLEAN, run : Nat]
    BY <2>3
  <2>5. [row EXCEPT !.primary = FALSE, !.status = IF @ \in AutoStatuses THEN "superseded" ELSE @]
          = [row EXCEPT !.primary = FALSE, !.status = status]
    BY <2>2
  <2> QED
    BY <2>1, <2>4, <2>5
<1> QED
  BY <1>1 DEF RetireOtherPrimaries, Rows

LEMMA UpsertTyped ==
  ASSUME NEW rows \in Rows, NEW term \in Terms, NEW primary \in BOOLEAN, NEW run \in Nat,
         NEW status \in AutoStatuses \cup {"none", "verified", "superseded"}
  PROVE  UpsertAssignment(rows, term, primary, status, run) \in Rows
BY DEF UpsertAssignment, Rows

LEMMA SupersedeTyped ==
  ASSUME NEW rows \in Rows, NEW terms, NEW run
  PROVE  SupersedeAuto(rows, terms, run) \in Rows
<1>1. ASSUME NEW x \in Terms
      PROVE  [rows[x] EXCEPT !.status = "superseded", !.primary = FALSE]
               \in [source : {"none", "auto", "manual"},
                    status : AutoStatuses \cup {"none", "verified", "superseded"}, primary : BOOLEAN, run : Nat]
  BY DEF Rows
<1> QED
  BY <1>1 DEF SupersedeAuto, Rows

(* What a statement writes is of the type of its table.                      *)
LEMMA WriteTyped ==
  ASSUME Bounded, Tables, NEW t \in Tools, NEW task \in Row, Founded(t, task), Write(t, task)
  PROVE  /\ kinds' \in [Tools -> Kinds] /\ profiles' \subseteq Tools
         /\ assign' \in [Tools -> Rows] /\ runs' \in [Tools -> Seq(Run)]
<1>1. /\ kinds \in [Tools -> Kinds] /\ profiles \subseteq Tools
      /\ assign \in [Tools -> Rows] /\ runs \in [Tools -> Seq(Run)] /\ task.run \in Nat
  BY DEF Tables, Row
<1>2. CASE /\ task.at = "label" /\ kinds' = [kinds EXCEPT ![t] = KindOf(task.answer)]
           /\ UNCHANGED <<profiles, assign, runs>>
  <2>1. KindOf(task.answer) \in Kinds
    BY DEF KindOf, Kinds
  <2> QED
    BY <1>1, <1>2, <2>1
<1>3. CASE task.at = "profile" /\ profiles' \subseteq profiles \cup {t} /\ UNCHANGED <<kinds, assign, runs>>
  BY <1>1, <1>3
<1>4. ASSUME UNCHANGED <<kinds, profiles, assign>>, NEW of \in {"backfill", "full"},
             runs' = [runs EXCEPT ![t] = Append(@, [status |-> Recorded(task), of |-> of])]
      PROVE  runs' \in [Tools -> Seq(Run)]
  <2>1. PICK run : run = [status |-> Recorded(task), of |-> of]
    OBVIOUS
  <2>2. run \in Run
    BY <2>1, EndsTyped DEF Recorded, Run
  <2>3. Append(runs[t], run) \in Seq(Run)
    BY <1>1, <2>2, AppendProperties
  <2> QED
    BY <1>1, <1>4, <2>1, <2>3
<1>5. CASE UNCHANGED <<kinds, profiles, runs>> /\ \E rows \in Rows : SetAssign(t, rows)
  BY <1>1, <1>5 DEF SetAssign
<1>6. CASE runs' = [runs EXCEPT ![t][task.run].status = EndStatus(task.answer, task.kind)]
           /\ UNCHANGED <<kinds, profiles, assign>>
  <2>1. PICK status \in {"succeeded", "partial", "skipped", "failed"} : status = EndStatus(task.answer, task.kind)
    BY EndsTyped
  <2>2. [runs[t] EXCEPT ![task.run].status = status] \in Seq(Run)
    <3>1. runs[t] \in Seq(Run) /\ DOMAIN runs[t] = 1..Len(runs[t]) /\ Len(runs[t]) \in Nat
      BY <1>1
    <3>2. CASE task.run \in DOMAIN runs[t]
      <4>1. runs[t][task.run] \in Run
        BY <3>1, <3>2, ElementOfSeq
      <4>2. PICK run : run = [runs[t][task.run] EXCEPT !.status = status]
        OBVIOUS
      <4>3. run \in Run
        BY <4>1, <4>2 DEF Run
      <4>4. [runs[t] EXCEPT ![task.run] = run] \in Seq(Run)
        BY <3>1, <3>2, <4>3, ExceptSeq
      <4>5. [runs[t] EXCEPT ![task.run].status = status] = [runs[t] EXCEPT ![task.run] = run]
        BY <4>2
      <4> QED
        BY <4>4, <4>5
    <3>3. CASE task.run \notin DOMAIN runs[t]
      <4>1. PICK run : run = [runs[t][task.run] EXCEPT !.status = status]
        OBVIOUS
      <4>2. [runs[t] EXCEPT ![task.run] = run] = runs[t]
        BY <3>1, <3>3
      <4>3. [runs[t] EXCEPT ![task.run].status = status] = [runs[t] EXCEPT ![task.run] = run]
        BY <4>1
      <4> QED
        BY <3>1, <4>2, <4>3
    <3> QED
      BY <3>2, <3>3
  <2> QED
    BY <1>1, <1>6, <2>1, <2>2
<1>7. assign[t] \in Rows
  BY <1>1
<1>8. CASE task.at = "retire" \/ task.at = "primary" \/ task.at = "capability" \/ task.at = "supersede"
  <2>1. task.at \in {"retire", "primary"} => task.answer.market \in Terms
    BY DEF Founded, Terms
  <2>2. task.at = "capability" => task.answer.capability \in Terms
    BY DEF Founded, Terms
  <2>3. PrimaryWrite(FALSE) = [primary |-> TRUE, status |-> "auto_accepted"]
    BY DEF PrimaryWrite
  <2>4. task.at = "retire" => RetireOtherPrimaries(assign[t], task.answer.market) \in Rows
    BY <1>7, RetireTyped
  <2>5. task.at = "primary" =>
          UpsertAssignment(assign[t], task.answer.market, TRUE, "auto_accepted", task.run) \in Rows
    BY <1>1, <1>7, <2>1, UpsertTyped DEF AutoStatuses
  <2>6. task.at = "capability" =>
          UpsertAssignment(assign[t], task.answer.capability, FALSE, "provisional", task.run) \in Rows
    BY <1>1, <1>7, <2>2, UpsertTyped DEF AutoStatuses
  <2>7. task.at = "supersede" => SupersedeAuto(assign[t], Spoken(task.answer), task.run) \in Rows
    BY <1>7, SupersedeTyped
  <2>8. UNCHANGED <<kinds, profiles, runs>>
    BY <1>8 DEF Write
  <2>9. CASE task.at = "retire"
    BY <1>1, <1>5, <2>4, <2>8, <2>9 DEF Write
  <2>10. CASE task.at = "primary"
    <3>1. SetAssign(t, UpsertAssignment(assign[t], task.answer.market, PrimaryWrite(FALSE).primary,
                                        PrimaryWrite(FALSE).status, task.run))
      BY <2>10 DEF Write
    <3>2. PrimaryWrite(FALSE).primary = TRUE /\ PrimaryWrite(FALSE).status = "auto_accepted"
      <4>1. [primary |-> TRUE, status |-> "auto_accepted"].primary = TRUE
        OBVIOUS
      <4>2. [primary |-> TRUE, status |-> "auto_accepted"].status = "auto_accepted"
        OBVIOUS
      <4> QED
        BY <2>3, <4>1, <4>2, Zenon
    <3>3. SetAssign(t, UpsertAssignment(assign[t], task.answer.market, TRUE, "auto_accepted", task.run))
      BY <3>1, <3>2
    <3>4. PICK rows \in Rows : SetAssign(t, rows)
      BY <2>5, <2>10, <3>3
    <3>5. assign' \in [Tools -> Rows]
      BY <1>1, <3>4 DEF SetAssign
    <3> QED
      BY <1>1, <2>8, <3>5
  <2>11. CASE task.at = "capability"
    BY <1>1, <1>5, <2>6, <2>8, <2>11 DEF Write
  <2>12. CASE task.at = "supersede"
    BY <1>1, <1>5, <2>7, <2>8, <2>12 DEF Write
  <2> QED
    BY <1>8, <2>9, <2>10, <2>11, <2>12
<1> QED
  BY <1>1, <1>2, <1>3, <1>4, <1>6, <1>8 DEF Write

-----------------------------------------------------------------------------
(* A pass goes on.                                                           *)
LEMMA Reformed ==
  ASSUME NEW pass, Formed(pass), NEW at, NEW cursor, NEW found, NEW blocked
  PROVE  /\ Formed([pass EXCEPT !.at = at]) /\ [pass EXCEPT !.at = at].at = at
         /\ Formed([pass EXCEPT !.at = at, !.cursor = cursor])
         /\ [pass EXCEPT !.at = at, !.cursor = cursor].at = at
         /\ Formed([pass EXCEPT !.at = at, !.found = found])
         /\ [pass EXCEPT !.at = at, !.found = found].at = at
         /\ Formed([pass EXCEPT !.blocked = blocked])
         /\ [pass EXCEPT !.blocked = blocked].at = pass.at
<1>1. PICK a, c, f, r, b : pass = [at |-> a, cursor |-> c, found |-> f, requests |-> r, blocked |-> b]
  BY DEF Formed
<1>2. ASSUME NEW p, NEW a1, NEW c1, NEW f1, NEW r1, NEW b1,
             p = [at |-> a1, cursor |-> c1, found |-> f1, requests |-> r1, blocked |-> b1]
      PROVE  Formed(p) /\ p.at = a1
  BY <1>2 DEF Formed
<1>3. PICK p : p = [at |-> at, cursor |-> c, found |-> f, requests |-> r, blocked |-> b]
  OBVIOUS
<1>4. p = [pass EXCEPT !.at = at]
  BY <1>1, <1>3
<1>5. PICK q : q = [at |-> at, cursor |-> cursor, found |-> f, requests |-> r, blocked |-> b]
  OBVIOUS
<1>6. q = [pass EXCEPT !.at = at, !.cursor = cursor]
  <2>1. q = [p EXCEPT !.cursor = cursor]
    BY <1>3, <1>5
  <2> QED
    BY <1>4, <2>1
<1>7. PICK s : s = [at |-> at, cursor |-> c, found |-> found, requests |-> r, blocked |-> b]
  OBVIOUS
<1>8. s = [pass EXCEPT !.at = at, !.found = found]
  <2>1. s = [p EXCEPT !.found = found]
    BY <1>3, <1>7
  <2> QED
    BY <1>4, <2>1
<1>9. PICK u : u = [at |-> a, cursor |-> c, found |-> f, requests |-> r, blocked |-> blocked]
  OBVIOUS
<1>10. u = [pass EXCEPT !.blocked = blocked]
  BY <1>1, <1>9
<1>11. pass.at = a
  BY <1>1
<1> QED
  BY <1>2, <1>3, <1>4, <1>5, <1>6, <1>7, <1>8, <1>9, <1>10, <1>11

LEMMA NewPass ==
  ASSUME NEW at
  PROVE  /\ Formed(NoPass) /\ NoPass.at = "idle"
         /\ Formed([NoPass EXCEPT !.at = at]) /\ [NoPass EXCEPT !.at = at].at = at
<1>1. NoPass = [at |-> "idle", cursor |-> 0, found |-> {}, requests |-> {}, blocked |-> FALSE]
  BY DEF NoPass
<1>2. Formed(NoPass) /\ NoPass.at = "idle"
  BY <1>1 DEF Formed
<1> QED
  BY <1>2, Reformed

LEMMA PassGoes ==
  ASSUME Passes, NEW w \in Workers, NEW next, Formed(next), Goes(w, next)
  PROVE  Passes' /\ passes'[w] = next /\ \A v \in Workers \ {w} : passes'[v] = passes[v]
<1>1. passes' = [v \in Workers |-> IF v = w THEN next ELSE passes[v]]
  BY DEF Passes, Goes
<1> QED
  BY <1>1 DEF Passes, Formed

-----------------------------------------------------------------------------
(* A request that was made stays the request of its tool.                    *)
RequestsStay ==
  \A r \in Requests : requests[r].status # "none" =>
    requests'[r].status # "none" /\ requests'[r].tool = requests[r].tool

LEMMA StaysFounded ==
  ASSUME NEW task \in Row, NEW t \in Tools, Founded(t, task), RequestsStay
  PROVE  Founded(t, task)'
BY DEF Founded, RequestsStay, Row

LEMMA UnchangedStay ==
  ASSUME UNCHANGED requests
  PROVE  RequestsStay
BY DEF RequestsStay

LEMMA SetTyped ==
  ASSUME Tables, NEW r \in Requests, NEW status \in Settled \cup {"queued"}, NEW run \in Nat,
         SetRequest(r, status, run)
  PROVE  /\ requests' \in [Requests -> Request] /\ RequestsStay
         /\ requests'[r].status = status /\ requests'[r].run = run
         /\ \A q \in Requests \ {r} : requests'[q] = requests[q]
<1>1. PICK request \in Request : request = requests[r]
  BY DEF Tables
<1>2. PICK next : next = [request EXCEPT !.status = status, !.lease = "none", !.run = run]
  OBVIOUS
<1>3. next \in Request /\ next.status = status /\ next.run = run /\ next.tool = request.tool /\ status # "none"
  BY <1>1, <1>2 DEF Request, Active, Settled
<1>4. requests' = [requests EXCEPT ![r] = next]
  BY <1>1, <1>2 DEF SetRequest, Tables
<1> QED
  BY <1>1, <1>3, <1>4 DEF Tables, RequestsStay

LEMMA ClaimTyped ==
  ASSUME Bounded, Tables, NEW r \in Requests, Claimable(requests[r]), Claim(r)
  PROVE  /\ requests' \in [Requests -> Request] /\ RequestsStay
         /\ requests[r].status \in Active /\ requests'[r].status = "running"
         /\ \A q \in Requests \ {r} : requests'[q] = requests[q]
         /\ requests[r].attempts + 1 \in Nat
<1>1. PICK request \in Request : request = requests[r]
  BY DEF Tables
<1>2. PICK attempts : attempts = request.attempts + 1
  OBVIOUS
<1>3. request.attempts \in Nat /\ attempts \in 0..MaxAttempts /\ attempts \in Nat
  BY <1>1, <1>2 DEF Bounded, Claimable, Request
<1>4. PICK next : next = [request EXCEPT !.status = "running", !.lease = "held", !.attempts = attempts]
  OBVIOUS
<1>5. next \in Request /\ next.status = "running" /\ next.tool = request.tool
  BY <1>1, <1>3, <1>4 DEF Request, Active
<1>6. requests' = [requests EXCEPT ![r] = next]
  BY <1>1, <1>2, <1>4 DEF Claim, Tables
<1>7. request.status \in Active
  BY <1>1 DEF Claimable, Free, Active
<1> QED
  BY <1>1, <1>2, <1>3, <1>5, <1>6, <1>7 DEF Tables, RequestsStay

-----------------------------------------------------------------------------
(* The rows of one pass are others; those of the others stay.                *)
LEMMA Shifts ==
  ASSUME Typed, NEW w \in Workers, NEW new \in [Tools -> Row], work' = [work EXCEPT ![w] = new],
         Tables', Passes', RequestsStay, \A v \in Workers \ {w} : passes'[v].at = passes[v].at,
         \A t \in Tools : Founded(t, new[t])' /\ Placed(w, new[t])'
  PROVE  Typed'
<1>1. work' \in [Workers -> [Tools -> Row]]
  BY DEF Typed
<1>2. ASSUME NEW v \in Workers, NEW t \in Tools, NEW task, task = work'[v][t]
      PROVE  Founded(t, task)' /\ Placed(v, task)'
  <2>1. CASE v = w
    <3>1. task = new[t]
      BY <1>2, <2>1 DEF Typed
    <3> QED
      BY <2>1, <3>1
  <2>2. CASE v # w
    <3>1. task = work[v][t] /\ task \in Row /\ Founded(t, task) /\ Placed(v, task)
      BY <1>2, <2>2 DEF Typed
    <3> QED
      BY <2>2, <3>1, StaysFounded DEF Placed
  <2> QED
    BY <2>1, <2>2
<1>3. \A v \in Workers, t \in Tools : Founded(t, work[v][t])' /\ Placed(v, work[v][t])'
  BY <1>2 DEF Founded, Placed
<1> QED
  BY <1>1, <1>3 DEF Typed

LEMMA RowMoves ==
  ASSUME Typed, NEW w \in Workers, NEW t \in Tools, NEW next \in Row, Moves(w, t, next),
         Tables', Passes', RequestsStay, \A v \in Workers : passes'[v].at = passes[v].at,
         Founded(t, next)', Placed(w, next)'
  PROVE  Typed'
<1>1. PICK new : new = [work[w] EXCEPT ![t] = next]
  OBVIOUS
<1>2. work' = [work EXCEPT ![w] = new]
  BY <1>1 DEF Moves, Typed
<1>3. new \in [Tools -> Row]
  BY <1>1 DEF Typed
<1>4. ASSUME NEW u \in Tools, NEW task, task = new[u]
      PROVE  Founded(u, task)' /\ Placed(w, task)'
  <2>1. CASE u = t
    <3>1. task = next
      BY <1>1, <1>4, <2>1 DEF Typed
    <3> QED
      BY <2>1, <3>1
  <2>2. CASE u # t
    <3>1. task = work[w][u] /\ task \in Row /\ Founded(u, task) /\ Placed(w, task)
      BY <1>1, <1>4, <2>2 DEF Typed
    <3> QED
      BY <3>1, StaysFounded DEF Placed
  <2> QED
    BY <2>1, <2>2
<1> QED
  BY <1>2, <1>3, <1>4, Shifts

LEMMA Drops ==
  ASSUME Typed, NEW w \in Workers, NEW t \in Tools, Dropped(w, t),
         Tables', Passes', RequestsStay, \A v \in Workers : passes'[v].at = passes[v].at
  PROVE  Typed'
<1>1. PICK next : next = NoTask
  OBVIOUS
<1>2. next \in Row /\ next.at = "none" /\ next.request = 0
  BY <1>1, NothingTyped
<1>3. Founded(t, next)' /\ Placed(w, next)'
  BY <1>2 DEF Founded, Placed, Idle
<1>4. Moves(w, t, next)
  BY <1>1 DEF Dropped, Moves
<1> QED
  BY <1>2, <1>3, <1>4, RowMoves

LEMMA StopsTyped ==
  ASSUME Typed, NEW w \in Workers, Stops(w), Tables', RequestsStay
  PROVE  Typed' /\ Passes' /\ passes'[w] = NoPass /\ (\A v \in Workers \ {w} : passes'[v] = passes[v])
         /\ work' = [work EXCEPT ![w] = [t \in Tools |-> NoTask]]
<1>1. Passes' /\ passes'[w] = NoPass /\ \A v \in Workers \ {w} : passes'[v] = passes[v]
  BY NewPass, PassGoes DEF Stops, Typed
<1>2. PICK next : next = NoTask
  OBVIOUS
<1>3. next \in Row /\ next.at = "none" /\ next.request = 0
  BY <1>2, NothingTyped
<1>4. PICK new : new = [t \in Tools |-> next]
  OBVIOUS
<1>5. new \in [Tools -> Row] /\ work' = [work EXCEPT ![w] = new]
  BY <1>2, <1>3, <1>4 DEF Stops
<1>6. \A t \in Tools : Founded(t, new[t])' /\ Placed(w, new[t])'
  BY <1>3, <1>4 DEF Founded, Placed, Idle
<1> QED
  BY <1>1, <1>5, <1>6, Shifts DEF Stops

-----------------------------------------------------------------------------
LEMMA ScanMoves ==
  ASSUME Typed, UNCHANGED restVars, polluted' \subseteq Tools, candidates' \in [Tools -> Candidate],
         Passes', \A v \in Workers : passes[v].at = "work" => passes'[v].at = "work"
  PROVE  Typed'
<1>1. UNCHANGED <<kinds, profiles, assign, runs, requests, work>>
  BY DEF restVars, toolVars
<1>2. Tables'
  BY <1>1 DEF Typed, Tables
<1>3. ASSUME NEW v \in Workers, NEW t \in Tools, NEW task, task = work[v][t]
      PROVE  Founded(t, task)' /\ Placed(v, task)'
  <2>1. task \in Row /\ Founded(t, task) /\ Placed(v, task)
    BY <1>3 DEF Typed
  <2> QED
    BY <1>1, <2>1, UnchangedStay, StaysFounded DEF Placed
<1>4. \A v \in Workers, t \in Tools : Founded(t, work[v][t])' /\ Placed(v, work[v][t])'
  BY <1>1, <1>3 DEF Founded, Placed
<1> QED
  BY <1>1, <1>2, <1>4 DEF Typed

(* The scan, or a reviewer who turns a candidate down, leaves what is         *)
(* approved or resolved alone, or takes it for new.                          *)
Spared(t) ==
  \/ candidates'[t].status = candidates[t].status /\ candidates'[t].request = candidates[t].request
  \/ candidates[t].status # "approved" /\ candidates'[t].status \notin {"approved", "resolved"}

LEMMA UpsertsTyped ==
  ASSUME Bounded, Tables, NEW found, Upsert(found)
  PROVE  candidates' \in [Tools -> Candidate] /\ \A t \in Tools : Spared(t)
<1>1. ASSUME NEW t \in Tools
      PROVE  /\ Upserted(candidates[t]) \in Candidate
             /\ \/ candidates[t].status = "approved" /\ Upserted(candidates[t]).status = "approved"
                     /\ Upserted(candidates[t]).request = candidates[t].request
                \/ candidates[t].status # "approved" /\ Upserted(candidates[t]).status \in {"rejected", "pending"}
  <2>1. PICK c \in Candidate : c = candidates[t]
    BY DEF Tables
  <2>2. PICK status, request :
          /\ status = IF c.status = "approved" \/ (c.status = "rejected" /\ c.cooling) THEN c.status ELSE "pending"
          /\ request = IF c.status = "resolved" THEN 0 ELSE c.request
    OBVIOUS
  <2>3. PICK next : next = [c EXCEPT !.status = status, !.request = request]
    OBVIOUS
  <2>4. next \in Candidate /\ next.status = status /\ next.request = request
    BY <2>1, <2>2, <2>3 DEF Candidate
  <2>5. next = Upserted(candidates[t])
    BY <2>1, <2>2, <2>3 DEF Upserted
  <2> QED
    BY <2>1, <2>2, <2>4, <2>5
<1>2. \A t \in Tools : candidates'[t] = Upserted(candidates[t]) \/ candidates'[t] = candidates[t]
  BY DEF Upsert
<1>3. candidates' \in [Tools -> Candidate]
  BY <1>1, <1>2 DEF Upsert, Tables
<1> QED
  BY <1>1, <1>2, <1>3 DEF Spared

LEMMA ScanEffects ==
  ASSUME Bounded, Typed,
         \/ \E w \in Workers : ScanStep(w) \/ ClaimRaises(w) \/ ScanRaises(w)
         \/ ScanFallsDue \/ DetectorLeaseExpires
         \/ \E t \in Tools : Reject(t) \/ CooldownEnds(t)
         \/ \E t \in Changing : PollutionChanges(t)
  PROVE  /\ polluted' \subseteq Tools /\ candidates' \in [Tools -> Candidate] /\ Passes'
         /\ \A v \in Workers : passes[v].at = "work" => passes'[v] = passes[v]
         /\ \A t \in Tools : Spared(t)
<1>1. Tables /\ Passes /\ \A v \in Workers : Formed(passes[v])
  BY DEF Typed, Passes
<1>2. ASSUME UNCHANGED candidates
      PROVE  candidates' \in [Tools -> Candidate] /\ \A t \in Tools : Spared(t)
  BY <1>1, <1>2 DEF Tables, Spared
<1>3. ASSUME UNCHANGED passes
      PROVE  Passes' /\ \A v \in Workers : passes[v].at = "work" => passes'[v] = passes[v]
  BY <1>1, <1>3 DEF Passes, Formed
<1>4. ASSUME NEW w \in Workers, NEW next, Formed(next), Goes(w, next), passes[w].at # "work"
      PROVE  Passes' /\ \A v \in Workers : passes[v].at = "work" => passes'[v] = passes[v]
  BY <1>1, <1>4, PassGoes
<1>5. ASSUME NEW w \in Workers, Scanned(w)
      PROVE  \E next : Formed(next) /\ Goes(w, next)
  BY <1>5, NewPass DEF Scanned
<1>6. ASSUME NEW w \in Workers, ScanStep(w) \/ ClaimRaises(w) \/ ScanRaises(w)
      PROVE  /\ UNCHANGED polluted /\ passes[w].at # "work"
             /\ \/ UNCHANGED candidates
                \/ Upsert(passes[w].found)
             /\ \E next : Formed(next) /\ Goes(w, next)
  <2>1. CASE ClaimScan(w) \/ ClaimRaises(w)
    BY <1>5, <2>1, NewPass DEF ClaimScan, ClaimRaises
  <2>2. CASE LoadCursor(w)
    BY <1>1, <2>2, Reformed DEF LoadCursor
  <2>3. CASE ReadPage(w)
    BY <1>1, <2>3, Reformed DEF ReadPage
  <2>4. CASE UpsertCandidates(w)
    BY <1>1, <2>4, Reformed DEF UpsertCandidates
  <2>5. CASE CompleteScan(w) \/ FailScan(w)
    BY <1>5, <2>5 DEF CompleteScan, FailScan
  <2>6. CASE ScanRaises(w)
    <3>1. /\ UNCHANGED polluted /\ passes[w].at # "work" /\ Goes(w, [passes[w] EXCEPT !.at = "failing"])
          /\ UNCHANGED candidates \/ Upsert(passes[w].found)
      BY <2>6 DEF ScanRaises, Scanning
    <3> QED
      BY <1>1, <3>1, Reformed
  <2> QED
    BY <1>6, <2>1, <2>2, <2>3, <2>4, <2>5, <2>6 DEF ScanStep
<1>7. CASE \E w \in Workers : ScanStep(w) \/ ClaimRaises(w) \/ ScanRaises(w)
  <2>1. PICK w \in Workers : ScanStep(w) \/ ClaimRaises(w) \/ ScanRaises(w)
    BY <1>7
  <2>2. candidates' \in [Tools -> Candidate] /\ \A t \in Tools : Spared(t)
    BY <1>1, <1>2, <1>6, <2>1, UpsertsTyped
  <2>3. Passes' /\ \A v \in Workers : passes[v].at = "work" => passes'[v] = passes[v]
    BY <1>4, <1>6, <2>1
  <2> QED
    BY <1>1, <1>6, <2>1, <2>2, <2>3 DEF Tables
<1>8. CASE ScanFallsDue \/ DetectorLeaseExpires
  BY <1>1, <1>2, <1>3, <1>8 DEF ScanFallsDue, DetectorLeaseExpires, Tables
<1>9. CASE \E t \in Tools : Reject(t) \/ CooldownEnds(t)
  <2>1. PICK t \in Tools : Reject(t) \/ CooldownEnds(t)
    BY <1>9
  <2>2. PICK c \in Candidate : c = candidates[t]
    BY <1>1 DEF Tables
  <2>3. PICK status \in {c.status, "rejected"}, cooling \in BOOLEAN :
          /\ candidates' = [candidates EXCEPT ![t] = [c EXCEPT !.status = status, !.cooling = cooling]]
          /\ status = c.status \/ c.status = "pending"
    <3>1. [c EXCEPT !.cooling = FALSE] = [c EXCEPT !.status = c.status, !.cooling = FALSE]
      BY <2>2 DEF Candidate
    <3>2. CASE Reject(t)
      BY <2>2, <3>2 DEF Reject
    <3>3. CASE CooldownEnds(t)
      BY <2>2, <3>1, <3>3 DEF CooldownEnds
    <3> QED
      BY <2>1, <3>2, <3>3
  <2>4. PICK next : next = [c EXCEPT !.status = status, !.cooling = cooling]
    OBVIOUS
  <2>5. next \in Candidate /\ next.status = status /\ next.request = c.request
    BY <2>2, <2>3, <2>4 DEF Candidate
  <2>6. candidates' = [candidates EXCEPT ![t] = next]
    BY <2>3, <2>4
  <2>7. candidates' \in [Tools -> Candidate] /\ \A u \in Tools : Spared(u)
    BY <1>1, <2>2, <2>3, <2>5, <2>6 DEF Tables, Spared
  <2>8. UNCHANGED <<polluted, passes>>
    BY <2>1 DEF Reject, CooldownEnds
  <2> QED
    BY <1>1, <1>3, <2>7, <2>8 DEF Tables
<1>10. CASE \E t \in Changing : PollutionChanges(t)
  BY <1>1, <1>2, <1>3, <1>10 DEF PollutionChanges, Tables, Bounded
<1> QED
  BY <1>7, <1>8, <1>9, <1>10

(* What changes beside the rows of a pass and the tables of a result.        *)
Beside ==
  \/ \E w \in Workers : ScanStep(w) \/ ClaimRaises(w) \/ ScanRaises(w)
  \/ ScanFallsDue \/ DetectorLeaseExpires
  \/ \E t \in Tools : Reject(t) \/ CooldownEnds(t)
  \/ \E t \in Changing : PollutionChanges(t)

LEMMA ScansTyped ==
  ASSUME Bounded, Typed, UNCHANGED restVars, Beside
  PROVE  Typed'
BY ScanEffects, ScanMoves DEF Beside

-----------------------------------------------------------------------------
(* A pass loads its rows.                                                    *)
LEMMA LoadsTyped ==
  ASSUME Bounded, Typed, NEW w \in Workers, LoadQueue(w) \/ LoadNormal(w) \/ LoadBackfill(w)
  PROVE  /\ Typed'
         /\ \A v \in Workers \ {w} : work'[v] = work[v]
         /\ \A t \in Tools :
              \/ work'[w][t] = work[w][t]
              \/ work'[w][t] = NoTask
              \/ /\ work'[w][t].at = "waiting"
                 /\ \/ /\ work'[w][t].reason = "queued"
                       /\ \E r \in QueuedRows : requests[r].tool = t
                    \/ /\ work'[w][t].reason = "normal" /\ work'[w][t].request = 0
                       /\ Wanted(t)
                    \/ work'[w][t].reason = "backfill" /\ work'[w][t].request = 0
<1>1. Tables /\ Passes /\ work \in [Workers -> [Tools -> Row]] /\ UNCHANGED <<scanVars, toolVars, requests>>
  BY DEF Typed, LoadQueue, LoadNormal, LoadBackfill
<1>2. Tables' /\ RequestsStay
  BY <1>1, UnchangedStay DEF Tables, scanVars, toolVars
<1>3. passes[w].at # "work" /\ \E at : Goes(w, [passes[w] EXCEPT !.at = at])
  BY DEF LoadQueue, LoadNormal, LoadBackfill
<1>4. PICK at : Goes(w, [passes[w] EXCEPT !.at = at])
  BY <1>3
<1>5. Formed(passes[w])
  BY <1>1 DEF Passes
<1>6. Passes' /\ \A v \in Workers \ {w} : passes'[v] = passes[v]
  BY <1>1, <1>4, <1>5, Reformed, PassGoes
<1>7. \A t \in Tools : work[w][t] \in Row /\ work[w][t].at \in Idle /\ Founded(t, work[w][t])
  BY <1>3 DEF Typed, Placed
<1>8. ASSUME NEW t \in Tools, NEW reason \in {"normal", "backfill"}
      PROVE  /\ Task(reason, t) \in Row /\ Task(reason, t).at = "waiting" /\ Task(reason, t).request = 0
             /\ Task(reason, t).reason = reason
  BY <1>1, <1>8, WaitingTyped
<1>9. ASSUME NEW t \in Tools, NEW r \in QueuedRows, requests[r].tool = t
      PROVE  LET row == [Task("queued", t) EXCEPT !.request = r]
             IN row \in Row /\ row.at = "waiting" /\ row.reason = "queued" /\ row.request = r
                  /\ requests[r].status # "none"
  <2>1. PICK row \in Row : row = Task("queued", t) /\ row.at = "waiting" /\ row.reason = "queued"
    BY <1>1, WaitingTyped
  <2>2. r \in Requests /\ requests[r].status # "none"
    BY DEF QueuedRows, Loadable, Free
  <2>3. PICK next : next = [row EXCEPT !.request = r]
    OBVIOUS
  <2>4. next \in Row /\ next.at = "waiting" /\ next.reason = "queued" /\ next.request = r
    BY <2>1, <2>2, <2>3 DEF Row
  <2> QED
    BY <2>1, <2>2, <2>3, <2>4
<1>10. NoTask \in Row /\ NoTask.at = "none" /\ NoTask.request = 0
  BY NothingTyped
<1> DEFINE Loaded(t, row) ==
             \/ row = work[w][t]
             \/ row = NoTask
             \/ /\ row.at = "waiting"
                /\ \/ /\ row.reason = "queued" /\ requests[row.request].tool = t /\ requests[row.request].status # "none"
                      /\ \E r \in QueuedRows : requests[r].tool = t
                   \/ /\ row.reason = "normal" /\ row.request = 0
                      /\ Wanted(t)
                   \/ row.reason = "backfill" /\ row.request = 0
<1>11. \E new \in [Tools -> Row] : work' = [work EXCEPT ![w] = new] /\ \A t \in Tools : Loaded(t, new[t])
  <2>1. CASE LoadNormal(w)
    <3>1. PICK new : new = [t \in Tools |-> IF t \in NormalRows(BatchLimit - Cardinality(RowsOf(w))) \ RowsOf(w)
                                              THEN Task("normal", t) ELSE work[w][t]]
      OBVIOUS
    <3>2. work' = [work EXCEPT ![w] = new]
      BY <2>1, <3>1 DEF LoadNormal, Adds
    <3>3. \A t \in Tools : new[t] = work[w][t] \/ (new[t] = Task("normal", t) /\ Wanted(t))
      BY <3>1 DEF NormalRows
    <3>4. \A t \in Tools : new[t] \in Row /\ Loaded(t, new[t])
      BY <1>7, <1>8, <3>3
    <3>5. new \in [Tools -> Row]
      BY <3>1, <3>4
    <3> QED
      BY <3>2, <3>4, <3>5
  <2>2. CASE LoadBackfill(w)
    <3>1. PICK new : new = [t \in Tools |-> IF t \in BackfillRows(BatchLimit - Cardinality(RowsOf(w))) \ RowsOf(w)
                                              THEN Task("backfill", t) ELSE work[w][t]]
      OBVIOUS
    <3>2. work' = [work EXCEPT ![w] = new]
      BY <2>2, <3>1 DEF LoadBackfill, Adds
    <3>3. \A t \in Tools : new[t] = work[w][t] \/ new[t] = Task("backfill", t)
      BY <3>1
    <3>4. \A t \in Tools : new[t] \in Row /\ Loaded(t, new[t])
      BY <1>7, <1>8, <3>3
    <3>5. new \in [Tools -> Row]
      BY <3>1, <3>4
    <3> QED
      BY <3>2, <3>4, <3>5
  <2>3. CASE LoadQueue(w)
    <3>1. CASE UNCHANGED work
      <4>1. PICK new : new = work[w]
        OBVIOUS
      <4>2. new \in [Tools -> Row] /\ work' = [work EXCEPT ![w] = new] /\ \A t \in Tools : new[t] = work[w][t]
        BY <1>1, <3>1, <4>1
      <4> QED
        BY <4>2
    <3>2. CASE ~UNCHANGED work
      <4>1. PICK new : new = [t \in Tools |->
             IF \E r \in QueuedRows : requests[r].tool = t
               THEN [Task("queued", t) EXCEPT !.request = CHOOSE r \in QueuedRows : requests[r].tool = t]
               ELSE NoTask]
        OBVIOUS
      <4>2. work' = [work EXCEPT ![w] = new]
        BY <2>3, <3>2, <4>1 DEF LoadQueue
      <4>3. ASSUME NEW t \in Tools
            PROVE  new[t] \in Row /\ Loaded(t, new[t])
        <5>1. CASE \E r \in QueuedRows : requests[r].tool = t
          <6>1. PICK r : r \in QueuedRows /\ requests[r].tool = t
                           /\ r = CHOOSE q \in QueuedRows : requests[q].tool = t
            BY <5>1
          <6>2. new[t] = [Task("queued", t) EXCEPT !.request = r]
            BY <4>1, <5>1, <6>1
          <6>3. PICK row : row = [Task("queued", t) EXCEPT !.request = r]
            OBVIOUS
          <6>4. /\ row \in Row /\ row.at = "waiting" /\ row.reason = "queued" /\ row.request = r
                /\ requests[r].status # "none"
            BY <1>9, <6>1, <6>3
          <6>5. Loaded(t, row)
            BY <5>1, <6>1, <6>4
          <6> QED
            BY <6>2, <6>3, <6>4, <6>5
        <5>2. CASE ~\E r \in QueuedRows : requests[r].tool = t
          BY <1>10, <4>1, <5>2
        <5> QED
          BY <5>1, <5>2
      <4>4. new \in [Tools -> Row]
        BY <4>1, <4>3
      <4> QED
        BY <4>2, <4>3, <4>4
    <3> QED
      BY <3>1, <3>2
  <2> QED
    BY <2>1, <2>2, <2>3
<1>12. PICK new \in [Tools -> Row] : work' = [work EXCEPT ![w] = new] /\ \A t \in Tools : Loaded(t, new[t])
  BY <1>11
<1>13. ASSUME NEW t \in Tools, NEW row, row = new[t]
       PROVE  Founded(t, row)' /\ Placed(w, row)'
  <2>1. row.at \in Idle /\ (row.request # 0 => requests[row.request].tool = t /\ requests[row.request].status # "none")
    BY <1>7, <1>10, <1>12, <1>13 DEF Founded, Idle
  <2> QED
    BY <1>1, <2>1 DEF Founded, Placed, Idle
<1>14. Typed'
  BY <1>2, <1>6, <1>12, <1>13, Shifts
<1> QED
  BY <1>1, <1>12, <1>14

-----------------------------------------------------------------------------
(* A row goes on.  What is settled stays settled, and nothing is opened.      *)
Narrows ==
  /\ RequestsStay
  /\ \A r \in Requests : /\ requests'[r].status \in Active => requests[r].status \in Active
                         /\ requests'[r].status # "none" => requests[r].status # "none"
                         /\ requests[r].status \in Settled =>
                              requests'[r].status = requests[r].status /\ requests'[r].run = requests[r].run

Gone(w, t) == Moves(w, t, NoTask)

LEMMA RowTyped ==
  ASSUME Typed, NEW w \in Workers, NEW t \in Tools
  PROVE  work[w][t] \in Row /\ Founded(t, work[w][t]) /\ Placed(w, work[w][t])
BY DEF Typed

LEMMA UnchangedNarrow ==
  ASSUME UNCHANGED requests
  PROVE  Narrows
BY UnchangedStay DEF Narrows

LEMMA TablesStay ==
  ASSUME Tables, UNCHANGED <<scanVars, toolVars>>, requests' \in [Requests -> Request]
  PROVE  Tables'
BY DEF Tables, scanVars, toolVars

LEMMA BeginsTyped ==
  ASSUME Bounded, Typed, NEW w \in Workers, NEW t \in Tools, NEW task, task = work[w][t], Begin(w, t)
  PROVE  /\ Typed' /\ Narrows
         /\ \/ Gone(w, t)
            \/ \E next \in Row : /\ Moves(w, t, next)
                                 /\ next.at = "classify" /\ next.reason = task.reason
                                 /\ next.request = task.request /\ next.kind = task.kind
<1>1. task \in Row /\ Founded(t, task) /\ task.at = "waiting" /\ passes[w].at = "work" /\ Tables /\ Passes
  BY RowTyped DEF Begin, Typed
<1>2. UNCHANGED <<scanVars, toolVars, passes>>
  BY DEF Begin
<1>3. Passes' /\ \A v \in Workers : passes'[v].at = passes[v].at
  BY <1>1, <1>2 DEF Passes, Formed
<1>4. CASE Dropped(w, t) /\ UNCHANGED requests
  <2>1. Tables' /\ Narrows /\ RequestsStay
    BY <1>1, <1>2, <1>4, UnchangedNarrow, TablesStay DEF Tables, Narrows
  <2> QED
    BY <1>3, <1>4, <2>1, Drops DEF Gone, Dropped, Moves
<1>5. ASSUME NEW next \in Row, Moves(w, t, next), Narrows, requests' \in [Requests -> Request],
             next.at = "classify", next.reason = task.reason, next.request = task.request, next.kind = task.kind
      PROVE  Typed'
  <2>1. Tables' /\ RequestsStay
    BY <1>1, <1>2, <1>5, TablesStay DEF Narrows
  <2>2. Founded(t, task)'
    BY <1>1, <2>1, StaysFounded
  <2>3. Founded(t, next)' /\ Placed(w, next)'
    BY <1>1, <1>2, <1>5, <2>2 DEF Founded, Placed
  <2> QED
    BY <1>3, <1>5, <2>1, <2>3, RowMoves
<1>6. CASE Moves(w, t, [task EXCEPT !.at = "classify"]) /\ UNCHANGED requests
  <2>1. PICK next : next = [task EXCEPT !.at = "classify"]
    OBVIOUS
  <2>2. next \in Row /\ next.at = "classify" /\ next.reason = task.reason
        /\ next.request = task.request /\ next.kind = task.kind
    BY <1>1, <2>1 DEF Row
  <2>3. Narrows /\ requests' \in [Requests -> Request] /\ Moves(w, t, next)
    BY <1>1, <1>6, <2>1, UnchangedNarrow DEF Tables
  <2> QED
    BY <1>5, <2>2, <2>3
<1>7. CASE /\ task.request # 0 /\ Claimable(requests[task.request]) /\ Claim(task.request)
           /\ Moves(w, t, [task EXCEPT !.at = "classify", !.token = requests[task.request].attempts + 1])
  <2>1. task.request \in Requests
    BY <1>1, <1>7 DEF Row
  <2>2. PICK token \in Nat : token = requests[task.request].attempts + 1
    BY <1>1, <1>7, <2>1, ClaimTyped
  <2>3. PICK next : next = [task EXCEPT !.at = "classify", !.token = token]
    OBVIOUS
  <2>4. next \in Row /\ next.at = "classify" /\ next.reason = task.reason
        /\ next.request = task.request /\ next.kind = task.kind
    BY <1>1, <2>2, <2>3 DEF Row
  <2>5. Moves(w, t, next)
    BY <1>7, <2>2, <2>3
  <2>6. Narrows /\ requests' \in [Requests -> Request]
    BY <1>1, <1>7, <2>1, ClaimTyped DEF Narrows, Active, Settled
  <2> QED
    BY <1>5, <2>4, <2>5, <2>6
<1> QED
  BY <1>4, <1>6, <1>7 DEF Begin

LEMMA ClassifiesTyped ==
  ASSUME Bounded, Typed, NEW w \in Workers, NEW t \in Tools, NEW task, task = work[w][t], Classify(w, t)
  PROVE  /\ Typed'
         /\ \E next \in Row :
              /\ Moves(w, t, next)
              /\ next.reason = task.reason /\ next.request = task.request /\ next.kind = task.kind
              /\ IF task.reason = "backfill" THEN next.at = "record" /\ next.answer \in CapabilityOnly
                                             ELSE next.at = "label" /\ next.answer \in Answers
<1>1. task \in Row /\ Founded(t, task) /\ Placed(w, task) /\ task.at = "classify" /\ Tables /\ Passes
  BY RowTyped DEF Classify, Typed
<1>2. UNCHANGED <<scanVars, toolVars, passes, requests>>
  BY DEF Classify
<1>3. Passes' /\ \A v \in Workers : passes'[v].at = passes[v].at
  BY <1>1, <1>2 DEF Passes, Formed
<1>4. PICK answer \in IF task.reason = "backfill" THEN CapabilityOnly ELSE Answers :
        Moves(w, t, [task EXCEPT !.answer = answer,
                                 !.at = IF task.reason = "backfill" THEN "record" ELSE "label"])
  BY DEF Classify
<1>5. answer \in Answer
  BY <1>4, AnswersTyped, CapabilityTyped
<1>6. PICK at \in {"record", "label"} : at = IF task.reason = "backfill" THEN "record" ELSE "label"
  OBVIOUS
<1>7. PICK next : next = [task EXCEPT !.answer = answer, !.at = at]
  OBVIOUS
<1>8. /\ next \in Row /\ next.at = at /\ next.answer = answer /\ next.reason = task.reason
      /\ next.request = task.request /\ next.kind = task.kind
  BY <1>1, <1>5, <1>6, <1>7 DEF Row, Statements
<1>9. Moves(w, t, next)
  BY <1>4, <1>6, <1>7
<1>10. Tables' /\ RequestsStay
  BY <1>1, <1>2, UnchangedStay, TablesStay DEF Tables
<1>11. Founded(t, next)' /\ Placed(w, next)'
  <2>1. Founded(t, task)'
    BY <1>1, <1>10, StaysFounded
  <2> QED
    BY <1>1, <1>2, <1>6, <1>8, <2>1 DEF Founded, Placed, Idle
<1>12. Typed'
  BY <1>3, <1>8, <1>9, <1>10, <1>11, RowMoves
<1> QED
  BY <1>4, <1>6, <1>8, <1>9, <1>12

-----------------------------------------------------------------------------
(* A statement writes, and its row goes on to the next one.                  *)
Steps == (Statements \ {"label"}) \cup {"settle", "failing"}

Same(task, next) ==
  /\ next.reason = task.reason /\ next.request = task.request /\ next.kind = task.kind
  /\ next.answer = task.answer /\ next.token = task.token

LEMMA FollowingTyped ==
  ASSUME Bounded, NEW t \in Tools, NEW task \in Row, Founded(t, task), task.at \in Statements
  PROVE  /\ Following(task) \in Steps /\ Following(task) # "failing"
         /\ Following(task) \in {"retire", "primary"} => task.answer.market \in Markets
         /\ Following(task) = "capability" => task.answer.capability \in Capabilities
<1>1. task.answer.market # "none" => task.answer.market \in Markets
  BY DEF Row, Answer
<1> QED
  BY <1>1 DEF Following, WritesRows, Statements, Steps, Founded

LEMMA AdvancesTyped ==
  ASSUME Bounded, Typed, NEW w \in Workers, NEW t \in Tools, NEW task, task = work[w][t],
         task.at \in Statements, NEW at \in Steps,
         at \in {"retire", "primary"} => task.answer.market \in Markets,
         at = "capability" => task.answer.capability \in Capabilities,
         UNCHANGED requests, Tables', Passes', \A v \in Workers : passes'[v].at = passes[v].at,
         Advances(w, t, task, at)
  PROVE  /\ Typed' /\ passes[w].at = "work"
         /\ IF at \in {"settle", "failing"} /\ task.request = 0 THEN Gone(w, t)
            ELSE \E next \in Row :
                   /\ Moves(w, t, next) /\ next.at = at /\ Same(task, next)
                   /\ next.run = IF task.at = "record" /\ at # "failing" THEN Len(runs[t]) + 1 ELSE task.run
<1>1. task \in Row /\ Founded(t, task) /\ Placed(w, task) /\ RequestsStay
  BY RowTyped, UnchangedStay
<1>2. CASE at \in {"settle", "failing"} /\ task.request = 0
  <2>1. Dropped(w, t)
    BY <1>2 DEF Advances
  <2> QED
    BY <1>1, <1>2, <2>1, Drops DEF Gone, Dropped, Moves, Placed, Idle, Statements
<1>3. CASE ~(at \in {"settle", "failing"} /\ task.request = 0)
  <2>1. Len(runs[t]) + 1 \in Nat
    <3>1. runs[t] \in Seq(Run)
      BY DEF Typed, Tables
    <3>2. Len(runs[t]) \in Nat
      BY <3>1
    <3> QED
      BY <3>2
  <2>2. PICK run : run = IF task.at = "record" /\ at # "failing" THEN Len(runs[t]) + 1 ELSE task.run
    OBVIOUS
  <2>3. run \in Nat
    BY <1>1, <2>1, <2>2 DEF Row
  <2>4. PICK next : next = [task EXCEPT !.at = at, !.run = run]
    OBVIOUS
  <2>5. next \in Row /\ next.at = at /\ Same(task, next) /\ next.run = run
    BY <1>1, <2>3, <2>4 DEF Row, Same, Steps
  <2>6. Moves(w, t, next)
    <3>1. Moves(w, t, [task EXCEPT !.at = at,
                                   !.run = IF task.at = "record" /\ at # "failing" THEN Len(runs[t]) + 1 ELSE task.run])
      BY <1>3 DEF Advances
    <3> QED
      BY <2>2, <2>4, <3>1
  <2>7. Founded(t, next)'
    <3>1. Founded(t, task)'
      BY <1>1, StaysFounded
    <3> QED
      BY <1>3, <2>5, <3>1 DEF Founded, Same, Steps, Statements
  <2>8. passes[w].at = "work" /\ Placed(w, next)'
    BY <1>1 DEF Placed, Idle, Statements
  <2>9. Typed'
    BY <1>1, <2>5, <2>6, <2>7, <2>8, RowMoves
  <2> QED
    BY <1>3, <2>2, <2>5, <2>6, <2>8, <2>9
<1> QED
  BY <1>2, <1>3

LEMMA WrittenTyped ==
  ASSUME Bounded, Typed, NEW w \in Workers, NEW t \in Tools, NEW task, task = work[w][t],
         task.at \in Statements, Write(t, task) \/ UNCHANGED toolVars, UNCHANGED <<scanVars, requests>>
  PROVE  Tables'
<1>1. Tables /\ task \in Row /\ Founded(t, task)
  BY RowTyped DEF Typed
<1>2. UNCHANGED <<polluted, candidates, requests>>
  BY DEF scanVars
<1>3. CASE Write(t, task)
  BY <1>1, <1>2, <1>3, WriteTyped DEF Tables
<1>4. CASE UNCHANGED toolVars
  BY <1>1, <1>2, <1>4 DEF Tables, toolVars
<1> QED
  BY <1>3, <1>4

LEMMA StatementsTyped ==
  ASSUME Bounded, Typed, NEW w \in Workers, NEW t \in Tools, NEW task, task = work[w][t],
         Statement(w, t) \/ StatementRaises(w, t)
  PROVE  /\ Typed' /\ passes[w].at = "work" /\ task.at \in Statements
         /\ UNCHANGED <<scanVars, requests>>
         /\ \E at \in {"failing", Following(task)} :
              /\ Write(t, task) \/ (at = "failing" /\ UNCHANGED toolVars)
              /\ at = "failing" \/ Write(t, task)
              /\ IF at \in {"settle", "failing"} /\ task.request = 0 THEN Gone(w, t)
                 ELSE \E next \in Row :
                        /\ Moves(w, t, next) /\ next.at = at /\ Same(task, next)
                        /\ next.run = IF task.at = "record" /\ at # "failing" THEN Len(runs[t]) + 1 ELSE task.run
<1>1. task \in Row /\ Founded(t, task) /\ task.at \in Statements /\ Passes /\ UNCHANGED <<scanVars, requests>>
  BY RowTyped DEF Statement, StatementRaises, Typed
<1>2. CASE Statement(w, t)
  <2>1. Write(t, task) /\ Advances(w, t, task, Following(task))
    BY <1>2 DEF Statement
  <2>2. Passes' /\ \A v \in Workers : passes'[v].at = passes[v].at
    <3>1. PICK blocked : passes' = [passes EXCEPT ![w].blocked = blocked]
      <4>1. PICK blocked \in BOOLEAN :
              blocked = (passes[w].blocked \/ (Following(task) = "settle" /\ Blocks(task.answer)))
        OBVIOUS
      <4>2. passes' = [passes EXCEPT ![w].blocked = blocked]
        BY <1>2, <4>1 DEF Statement
      <4> QED
        BY <4>2
    <3>2. Goes(w, [passes[w] EXCEPT !.blocked = blocked])
      BY <3>1 DEF Goes
    <3>3. Formed(passes[w])
      BY <1>1 DEF Passes
    <3>4. PICK next : next = [passes[w] EXCEPT !.blocked = blocked]
      OBVIOUS
    <3>5. Formed(next) /\ next.at = passes[w].at
      BY <3>3, <3>4, Reformed
    <3> QED
      BY <1>1, <3>2, <3>4, <3>5, PassGoes
  <2>3. Tables'
    BY <1>1, <2>1, WrittenTyped
  <2>4. /\ Following(task) \in Steps /\ Following(task) # "failing"
        /\ Following(task) \in {"retire", "primary"} => task.answer.market \in Markets
        /\ Following(task) = "capability" => task.answer.capability \in Capabilities
    BY <1>1, FollowingTyped
  <2>5. PICK at \in Steps : at = Following(task)
    BY <2>4
  <2> QED
    BY <1>1, <2>1, <2>2, <2>3, <2>4, <2>5, AdvancesTyped
<1>3. CASE StatementRaises(w, t)
  <2>1. (Write(t, task) \/ UNCHANGED toolVars) /\ Advances(w, t, task, "failing") /\ UNCHANGED passes
    BY <1>3 DEF StatementRaises
  <2>2. Passes' /\ \A v \in Workers : passes'[v].at = passes[v].at
    BY <1>1, <2>1 DEF Passes, Formed
  <2>3. Tables'
    BY <1>1, <2>1, WrittenTyped
  <2>4. PICK at \in Steps : at = "failing"
    BY DEF Steps
  <2> QED
    BY <1>1, <2>1, <2>2, <2>3, <2>4, AdvancesTyped
<1> QED
  BY <1>2, <1>3

-----------------------------------------------------------------------------
(* The request of a row is settled, and its candidate told.                   *)
LEMMA Results ==
  ASSUME Bounded, Tables, NEW t \in Tools, NEW task \in Row, task.request \in Requests,
         task.at \in {"settle", "failing"}, Holds(task), Result(t, task)
  PROVE  /\ requests' \in [Requests -> Request] /\ Narrows
         /\ \A q \in Requests \ {task.request} : requests'[q] = requests[q]
         /\ Completes(task) =>
              /\ requests'[task.request].status \in {"succeeded", "needs_manual"}
              /\ requests'[task.request].run = task.run
              /\ requests'[task.request].status = "succeeded" => EndStatus(task.answer, task.kind) = "succeeded"
<1>1. requests[task.request].run \in Nat /\ task.run \in Nat /\ requests[task.request].status = "running"
  BY DEF Tables, Request, Row, Holds
<1>2. \E status \in Settled \cup {"queued"}, run \in Nat :
        /\ SetRequest(task.request, status, run)
        /\ Completes(task) =>
             /\ status \in {"succeeded", "needs_manual"} /\ run = task.run
             /\ status = "succeeded" => EndStatus(task.answer, task.kind) = "succeeded"
  <2>1. CASE FailRequest(task) /\ ~Completes(task)
    <3>1. PICK status : /\ status = IF requests[task.request].attempts < MaxAttempts THEN "queued" ELSE "failed"
                        /\ SetRequest(task.request, status, requests[task.request].run)
      BY <2>1 DEF FailRequest
    <3> QED
      BY <1>1, <2>1, <3>1 DEF Settled
  <2>2. CASE CompleteRequest(t, task)
    <3>1. PICK clean \in BOOLEAN :
            SetRequest(task.request, IF Repairs(EndStatus(task.answer, task.kind)) /\ clean
                                       THEN "succeeded" ELSE "needs_manual", task.run)
      BY <2>2 DEF CompleteRequest
    <3>2. PICK status : status = IF Repairs(EndStatus(task.answer, task.kind)) /\ clean
                                   THEN "succeeded" ELSE "needs_manual"
      OBVIOUS
    <3>3. SetRequest(task.request, status, task.run)
      BY <3>1, <3>2
    <3> QED
      BY <1>1, <3>2, <3>3 DEF Settled, Repairs
  <2> QED
    BY <2>1, <2>2 DEF Result, Completes
<1>3. PICK status \in Settled \cup {"queued"}, run \in Nat :
        /\ SetRequest(task.request, status, run)
        /\ Completes(task) =>
             /\ status \in {"succeeded", "needs_manual"} /\ run = task.run
             /\ status = "succeeded" => EndStatus(task.answer, task.kind) = "succeeded"
  BY <1>2
<1>4. /\ requests' \in [Requests -> Request] /\ RequestsStay
      /\ requests'[task.request].status = status /\ requests'[task.request].run = run
      /\ \A q \in Requests \ {task.request} : requests'[q] = requests[q]
  BY <1>3, SetTyped
<1>5. Narrows
  BY <1>1, <1>4 DEF Narrows, Active, Settled
<1> QED
  BY <1>3, <1>4, <1>5

LEMMA TellsTyped ==
  ASSUME Tables, NEW t \in Tools, NEW r \in Requests, TellCandidate(t, r)
  PROVE  /\ candidates' \in [Tools -> Candidate]
         /\ \A u \in Tools \ {t} : candidates'[u] = candidates[u]
         /\ candidates'[t].request = r
         /\ candidates'[t].status = IF requests[r].status = "succeeded" THEN "resolved" ELSE "approved"
<1>1. PICK c \in Candidate : c = candidates[t]
  BY DEF Tables
<1>2. PICK status \in {"resolved", "approved"} :
        status = IF requests[r].status = "succeeded" THEN "resolved" ELSE "approved"
  OBVIOUS
<1>3. PICK next : next = [c EXCEPT !.request = r, !.status = status]
  OBVIOUS
<1>4. next \in Candidate /\ next.request = r /\ next.status = status
  BY <1>1, <1>2, <1>3 DEF Candidate
<1>5. candidates' = [candidates EXCEPT ![t] = next]
  BY <1>1, <1>2, <1>3 DEF TellCandidate, Tables
<1> QED
  BY <1>1, <1>2, <1>4, <1>5 DEF Tables

(* The steps that end the work at a row: they settle its request, or tell    *)
(* its candidate, or raise.                                                  *)
Ending(w, t) == Settle(w, t) \/ Tell(w, t) \/ SettleRaises(w, t)

LEMMA EndingsTyped ==
  ASSUME Bounded, Typed, NEW w \in Workers, NEW t \in Tools, NEW task, task = work[w][t], Ending(w, t)
  PROVE  /\ Typed' /\ Narrows /\ UNCHANGED <<polluted, toolVars, passes>> /\ passes[w].at = "work"
         /\ task.request \in Requests /\ task.at \in {"settle", "failing", "anomaly"}
         /\ \A q \in Requests \ {task.request} : requests'[q] = requests[q]
         /\ UNCHANGED candidates \/ (task.at = "anomaly" /\ TellCandidate(t, task.request) /\ UNCHANGED requests)
         /\ \/ Gone(w, t)
            \/ /\ Completes(task) /\ UNCHANGED candidates /\ requests[task.request].status = "running"
               /\ requests'[task.request].status \in {"succeeded", "needs_manual"}
               /\ requests'[task.request].run = task.run
               /\ requests'[task.request].status = "succeeded" => EndStatus(task.answer, task.kind) = "succeeded"
               /\ \E next \in Row : /\ Moves(w, t, next) /\ next.at = "anomaly"
                                    /\ Same(task, next) /\ next.run = task.run
<1>1. task \in Row /\ Founded(t, task) /\ Placed(w, task) /\ Tables /\ Passes
  BY RowTyped DEF Typed
<1>2. /\ task.at \in {"settle", "failing", "anomaly"} /\ UNCHANGED <<polluted, toolVars, passes>>
  BY DEF Ending, Settle, Tell, SettleRaises, scanVars
<1>3. /\ task.request \in Requests /\ passes[w].at = "work"
      /\ Passes' /\ \A v \in Workers : passes'[v].at = passes[v].at
  BY <1>1, <1>2 DEF Founded, Placed, Row, Idle, Passes, Formed
<1>4. ASSUME requests' \in [Requests -> Request], candidates' \in [Tools -> Candidate]
      PROVE  Tables'
  BY <1>1, <1>2, <1>4 DEF Tables, toolVars
<1>5. requests \in [Requests -> Request] /\ candidates \in [Tools -> Candidate]
  BY <1>1 DEF Tables
<1>6. CASE /\ UNCHANGED candidates /\ task.at \in {"settle", "failing"} /\ Holds(task) /\ Result(t, task)
           /\ Dropped(w, t) \/ (Completes(task) /\ Moves(w, t, [task EXCEPT !.at = "anomaly"]))
  <2>1. /\ requests' \in [Requests -> Request] /\ Narrows
        /\ \A q \in Requests \ {task.request} : requests'[q] = requests[q]
        /\ Completes(task) =>
              /\ requests'[task.request].status \in {"succeeded", "needs_manual"}
              /\ requests'[task.request].run = task.run
              /\ requests'[task.request].status = "succeeded" => EndStatus(task.answer, task.kind) = "succeeded"
    BY <1>1, <1>3, <1>6, Results
  <2>2. Tables' /\ RequestsStay
    BY <1>4, <1>5, <1>6, <2>1 DEF Narrows
  <2>3. CASE Dropped(w, t)
    BY <1>2, <1>3, <1>6, <2>1, <2>2, <2>3, Drops DEF Gone, Dropped, Moves
  <2>4. CASE Completes(task) /\ Moves(w, t, [task EXCEPT !.at = "anomaly"])
    <3>1. PICK next : next = [task EXCEPT !.at = "anomaly"]
      OBVIOUS
    <3>2. next \in Row /\ next.at = "anomaly" /\ Same(task, next) /\ next.run = task.run
      BY <1>1, <3>1 DEF Row, Same
    <3>3. Founded(t, task)'
      BY <1>1, <2>2, StaysFounded
    <3>4. Founded(t, next)' /\ Placed(w, next)'
      BY <1>3, <3>2, <3>3, <1>2 DEF Founded, Placed, Same
    <3>5. Moves(w, t, next)
      BY <2>4, <3>1
    <3>6. Typed'
      BY <1>3, <2>2, <3>2, <3>4, <3>5, RowMoves
    <3> QED
      BY <1>2, <1>3, <1>6, <2>1, <2>4, <3>2, <3>5, <3>6 DEF Holds
  <2> QED
    BY <1>6, <2>3, <2>4
<1>7. CASE UNCHANGED <<candidates, requests>> /\ Dropped(w, t)
  <2>1. Tables' /\ Narrows /\ RequestsStay
    BY <1>4, <1>5, <1>7, UnchangedNarrow DEF Narrows
  <2> QED
    BY <1>2, <1>3, <1>7, <2>1, Drops DEF Gone, Dropped, Moves
<1>8. CASE task.at = "anomaly" /\ TellCandidate(t, task.request) /\ UNCHANGED requests /\ Dropped(w, t)
  <2>1. Tables' /\ Narrows /\ RequestsStay
    BY <1>1, <1>3, <1>4, <1>5, <1>8, TellsTyped, UnchangedNarrow DEF Narrows
  <2> QED
    BY <1>2, <1>3, <1>8, <2>1, Drops DEF Gone, Dropped, Moves
<1>9. CASE Settle(w, t)
  <2>1. task.at \in {"settle", "failing"} /\ UNCHANGED candidates
    BY <1>9 DEF Settle, scanVars
  <2> QED
    BY <1>6, <1>7, <1>9, <2>1 DEF Settle
<1>10. CASE Tell(w, t)
  BY <1>8, <1>10 DEF Tell
<1>11. CASE SettleRaises(w, t)
  BY <1>6, <1>7, <1>8, <1>11 DEF SettleRaises
<1> QED
  BY <1>9, <1>10, <1>11 DEF Ending

-----------------------------------------------------------------------------
(* A pass ends, or its process stops.                                        *)
Halts(w) == EndPass(w) \/ PassRaises(w) \/ Crash(w)

LEMMA HaltsTyped ==
  ASSUME Bounded, Typed, NEW w \in Workers, Halts(w)
  PROVE  /\ Typed' /\ Narrows /\ UNCHANGED <<scanVars, toolVars>>
         /\ work' = [work EXCEPT ![w] = [t \in Tools |-> NoTask]]
<1>1. Stops(w) /\ UNCHANGED <<scanVars, toolVars>> /\ Tables
  BY DEF Halts, EndPass, PassRaises, Crash, Typed
<1>2. requests' \in [Requests -> Request] /\ Narrows
  <2>1. CASE UNCHANGED requests
    BY <1>1, <2>1, UnchangedNarrow DEF Tables
  <2>2. CASE ~UNCHANGED requests
    <3>1. PICK t \in Waiting(w) : /\ work[w][t].request # 0
                                  /\ Claimable(requests[work[w][t].request]) /\ Claim(work[w][t].request)
      BY <2>2 DEF Halts, EndPass, PassRaises, Crash
    <3>2. t \in Tools
      BY DEF Waiting, RowsOf
    <3>3. work[w][t].request \in Requests
      BY <3>1, <3>2, RowTyped DEF Row
    <3> QED
      BY <1>1, <3>1, <3>3, ClaimTyped DEF Narrows, Active, Settled
  <2> QED
    BY <2>1, <2>2
<1> QED
  BY <1>1, <1>2, TablesStay, StopsTyped DEF Narrows

LEMMA RowsStay ==
  ASSUME Typed, UNCHANGED work, Tables', Passes', RequestsStay, \A v \in Workers : passes'[v].at = passes[v].at
  PROVE  Typed'
<1>1. ASSUME NEW v \in Workers, NEW t \in Tools, NEW task, task = work[v][t]
      PROVE  Founded(t, task)' /\ Placed(v, task)'
  BY <1>1, RowTyped, StaysFounded DEF Placed
<1>2. \A v \in Workers, t \in Tools : Founded(t, work[v][t])' /\ Placed(v, work[v][t])'
  BY <1>1 DEF Founded, Placed
<1> QED
  BY <1>2 DEF Typed

LEMMA LeasesTyped ==
  ASSUME Bounded, Typed, NEW r \in Requests, RequestLeaseExpires(r)
  PROVE  Typed' /\ Narrows /\ UNCHANGED <<scanVars, toolVars, passes, work>>
<1>1. Tables /\ Passes /\ UNCHANGED <<scanVars, toolVars, passes, work>>
  BY DEF RequestLeaseExpires, Typed
<1>2. PICK request \in Request : request = requests[r]
  BY <1>1 DEF Tables
<1>3. PICK next : next = [request EXCEPT !.lease = "expired"]
  OBVIOUS
<1>4. /\ next \in Request /\ next.status = request.status /\ next.tool = request.tool /\ next.run = request.run
  BY <1>2, <1>3 DEF Request
<1>5. requests' = [requests EXCEPT ![r] = next]
  BY <1>2, <1>3 DEF RequestLeaseExpires
<1>6. requests' \in [Requests -> Request] /\ Narrows
  BY <1>1, <1>2, <1>4, <1>5 DEF Tables, Narrows, RequestsStay
<1>7. Tables' /\ RequestsStay
  BY <1>1, <1>6, TablesStay DEF Narrows
<1>8. Passes' /\ \A v \in Workers : passes'[v].at = passes[v].at
  BY <1>1 DEF Passes, Formed
<1> QED
  BY <1>1, <1>6, <1>7, <1>8, RowsStay

LEMMA ApprovesTyped ==
  ASSUME Bounded, Typed, NEW t \in Tools, Approve(t)
  PROVE  /\ Typed' /\ UNCHANGED <<polluted, toolVars, passes, work>>
         /\ \A q \in Requests : requests[q].tool = t => requests[q].status \notin Active
         /\ \A u \in Tools \ {t} : candidates'[u] = candidates[u]
         /\ candidates[t].status # "resolved" /\ candidates'[t].status = "approved"
         /\ \E r \in Requests :
              /\ requests[r].status = "none" /\ requests'[r].status = "queued" /\ requests'[r].tool = t
              /\ candidates'[t].request = r
              /\ \A q \in Requests \ {r} : requests'[q] = requests[q]
<1>1. Tables /\ Passes /\ UNCHANGED <<polluted, toolVars, passes, work>>
  BY DEF Approve, Typed
<1>2. PICK r \in Requests :
        /\ requests[r].status = "none"
        /\ requests' = [requests EXCEPT ![r] = [NoRequest EXCEPT !.status = "queued", !.tool = t]]
        /\ candidates' = [candidates EXCEPT ![t].status = "approved", ![t].request = r]
  BY DEF Approve
<1>3. PICK next : next = [NoRequest EXCEPT !.status = "queued", !.tool = t]
  OBVIOUS
<1>4. next = [status |-> "queued", tool |-> t, attempts |-> 0, lease |-> "none", run |-> 0]
  BY <1>3 DEF NoRequest
<1>5. next \in Request /\ next.status = "queued" /\ next.tool = t
  BY <1>4 DEF Request, Active, Bounded
<1>6. PICK c \in Candidate : c = candidates[t]
  BY <1>1 DEF Tables
<1>7. PICK new : new = [c EXCEPT !.status = "approved", !.request = r]
  OBVIOUS
<1>8. new \in Candidate /\ new.status = "approved" /\ new.request = r
  BY <1>6, <1>7 DEF Candidate
<1>9. candidates' = [candidates EXCEPT ![t] = new] /\ requests' = [requests EXCEPT ![r] = next]
  BY <1>1, <1>2, <1>3, <1>6, <1>7 DEF Tables
<1>10. Tables'
  BY <1>1, <1>5, <1>8, <1>9 DEF Tables, toolVars
<1>11. RequestsStay
  BY <1>1, <1>2, <1>9 DEF RequestsStay, Tables
<1>12. Passes' /\ \A v \in Workers : passes'[v].at = passes[v].at
  BY <1>1 DEF Passes, Formed
<1>13. Typed'
  BY <1>1, <1>10, <1>11, <1>12, RowsStay
<1> QED
  BY <1>1, <1>2, <1>5, <1>8, <1>9, <1>13 DEF Approve, Tables

-----------------------------------------------------------------------------
LEMMA AcceptedTyped ==
  ASSUME Bounded, NEW m \in Markets
  PROVE  /\ Accepted(m) \in Rows
         /\ Accepted(m)[m] = [source |-> "auto", status |-> "auto_accepted", primary |-> TRUE, run |-> 1]
         /\ \A x \in Terms \ {m} : Accepted(m)[x] = NoRow
<1>1. m \in Terms
  BY DEF Terms
<1> QED
  BY <1>1 DEF Accepted, NoRows, NoRow, Rows, AutoStatuses

LEMMA Initially ==
  ASSUME Bounded, Init
  PROVE  Typed
<1>1. ASSUME NEW t \in Tools
      PROVE  candidates[t] \in Candidate /\ kinds[t] \in Kinds /\ assign[t] \in Rows /\ runs[t] \in Seq(Run)
  <2>1. NoCandidate \in Candidate
    BY DEF NoCandidate, Candidate
  <2>2. NoRows \in Rows
    BY DEF NoRows, NoRow, Rows
  <2>3. (CHOOSE m \in Markets : TRUE) \in Markets
    BY DEF Bounded
  <2>4. Accepted(CHOOSE m \in Markets : TRUE) \in Rows
    BY <2>3, AcceptedTyped
  <2>5. assign[t] \in Rows
    BY <2>2, <2>4 DEF Init
  <2>6. /\ <<[status |-> "succeeded", of |-> "full"]>> \in Seq(Run)
        /\ <<[status |-> "skipped", of |-> "older"]>> \in Seq(Run) /\ <<>> \in Seq(Run)
    BY DEF Run
  <2>7. runs[t] \in Seq(Run)
    BY <2>6 DEF Init
  <2> QED
    BY <2>1, <2>5, <2>7 DEF Init, Kinds
<1>2. \A r \in Requests : requests[r] \in Request
  BY DEF Init, NoRequest, Request, Bounded
<1>3. Tables
  BY <1>1, <1>2 DEF Init, Tables, Bounded
<1>4. Passes
  <2>1. PICK p : p = NoPass
    OBVIOUS
  <2>2. passes = [w \in Workers |-> p] /\ Formed(p)
    BY <2>1, NewPass DEF Init
  <2> QED
    BY <2>2 DEF Passes
<1>5. PICK row \in Row : row = NoTask /\ row.at = "none" /\ row.request = 0
  BY NothingTyped
<1>6. work = [w \in Workers |-> [t \in Tools |-> row]]
  BY <1>5 DEF Init
<1>7. \A w \in Workers, t \in Tools : Founded(t, work[w][t]) /\ Placed(w, work[w][t])
  BY <1>5, <1>6 DEF Founded, Placed, Idle
<1> QED
  BY <1>3, <1>4, <1>6, <1>7 DEF Typed

(* The kinds of a step.                                                      *)
Loads(w) == LoadQueue(w) \/ LoadNormal(w) \/ LoadBackfill(w)
Writes(w, t) == Statement(w, t) \/ StatementRaises(w, t)

LEMMA StepKinds ==
  ASSUME Bounded, Next
  PROVE  \/ Beside /\ UNCHANGED restVars
         \/ \E w \in Workers :
              \/ Loads(w) \/ Halts(w)
              \/ \E t \in Tools : Begin(w, t) \/ Classify(w, t) \/ Writes(w, t) \/ Ending(w, t)
         \/ \E r \in Requests : RequestLeaseExpires(r)
         \/ \E t \in Tools : Approve(t)
<1>1. ASSUME NEW w \in Workers, PassStep(w)
      PROVE  \/ Beside /\ UNCHANGED restVars
             \/ Loads(w) \/ Halts(w)
             \/ \E t \in Tools : Begin(w, t) \/ Classify(w, t) \/ Writes(w, t) \/ Ending(w, t)
  BY <1>1 DEF PassStep, Beside, Loads, Halts, Writes, Ending
<1>2. ASSUME NEW w \in Workers, Trouble(w)
      PROVE  \/ Beside /\ UNCHANGED restVars
             \/ Halts(w)
             \/ \E t \in Tools : Writes(w, t) \/ Ending(w, t)
  BY <1>2 DEF Trouble, Beside, Halts, Writes, Ending
<1>3. CASE ScanAgain
  BY <1>3 DEF ScanAgain, Beside
<1>4. CASE LeaseExpires
  BY <1>4 DEF LeaseExpires, Beside
<1>5. ASSUME NEW t \in Tools, Review(t)
      PROVE  (Beside /\ UNCHANGED restVars) \/ Approve(t)
  BY <1>5 DEF Review, Beside
<1>6. ASSUME NEW t \in Changing, PollutionChanges(t), UNCHANGED restVars
      PROVE  Beside
  BY <1>6 DEF Beside
<1> QED
  BY <1>1, <1>2, <1>3, <1>4, <1>5, <1>6 DEF Next

LEMMA TypedStays ==
  ASSUME Bounded, Typed, [Next]_shadowVars
  PROVE  Typed'
<1>1. CASE UNCHANGED shadowVars
  <2>1. UNCHANGED <<polluted, candidates, detector, kinds, profiles, assign, runs, passes, requests, work>>
    BY <1>1 DEF shadowVars, scanVars, toolVars
  <2>2. Tables' /\ Passes' /\ RequestsStay /\ \A v \in Workers : passes'[v].at = passes[v].at
    BY <2>1, UnchangedStay DEF Typed, Tables, Passes, Formed
  <2> QED
    BY <2>1, <2>2, RowsStay
<1>2. CASE Next
  <2>1. ASSUME NEW w \in Workers, NEW t \in Tools,
               Begin(w, t) \/ Classify(w, t) \/ Writes(w, t) \/ Ending(w, t)
        PROVE  Typed'
    <3>1. PICK task : task = work[w][t]
      OBVIOUS
    <3> QED
      BY <2>1, <3>1, BeginsTyped, ClassifiesTyped, StatementsTyped, EndingsTyped DEF Writes
  <2> QED
    BY <1>2, <2>1, StepKinds, ScansTyped, LoadsTyped, HaltsTyped, LeasesTyped, ApprovesTyped DEF Loads
<1> QED
  BY <1>1, <1>2

LEMMA AlwaysTyped ==
  ASSUME Bounded
  PROVE  Spec => []Typed
<1>1. Init => Typed
  BY Initially
<1>2. Typed /\ [Next]_shadowVars => Typed'
  BY TypedStays
<1> QED
  BY <1>1, <1>2, PTL DEF Spec

(* The tables hold what the code stores in them, whoever writes to them and  *)
(* wherever a process stops, and only a pass that runs works on rows         *)
(* (run_shadow_pass).                                                        *)
THEOREM ClassifierTyped ==
  ASSUME Bounded
  PROVE  Spec => []TypeOK
<1>1. ASSUME Typed
      PROVE  TypeOK
  <2>1. \A w \in Workers : (RowsOf(w) \ Waiting(w)) # {} => passes[w].at = "work"
    BY <1>1 DEF Typed, Placed, Idle, RowsOf, Waiting
  <2> QED
    BY <1>1, <2>1 DEF Typed, Tables, TypeOK, Candidate, Request, Kinds
<1> QED
  BY <1>1, AlwaysTyped, PTL

-----------------------------------------------------------------------------
(* Only a row whose token is the last one settles a request that runs.       *)
LEMMA StepSettles ==
  ASSUME Bounded, Typed, Next
  PROVE  ClaimSettles
<1>1. SUFFICES ASSUME NEW r \in Requests, requests[r].status = "running", requests'[r].status # "running"
               PROVE  \E w \in Workers, t \in Tools :
                        /\ work[w][t].request = r /\ work[w][t].token = requests[r].attempts
                        /\ work[w][t].at \in {"settle", "failing"}
  BY DEF ClaimSettles
<1>2. Tables
  BY DEF Typed
<1>3. ASSUME NEW q \in Requests, Claim(q)
      PROVE  FALSE
  <2>1. CASE q = r
    BY <1>1, <1>2, <1>3, <2>1 DEF Claim, Tables, Request
  <2>2. CASE q # r
    BY <1>1, <1>2, <1>3, <2>2 DEF Claim, Tables
  <2> QED
    BY <2>1, <2>2
<1>4. ~UNCHANGED requests
  BY <1>1
<1>5. ASSUME NEW w \in Workers, NEW t \in Tools, Ending(w, t)
      PROVE  /\ work[w][t].request = r /\ work[w][t].token = requests[r].attempts
             /\ work[w][t].at \in {"settle", "failing"}
  <2>1. PICK task : task = work[w][t]
    OBVIOUS
  <2>2. /\ task.request \in Requests /\ \A q \in Requests \ {task.request} : requests'[q] = requests[q]
    BY <1>5, <2>1, EndingsTyped
  <2>3. task.request = r
    BY <1>1, <2>2
  <2>4. Holds(task) /\ task.at \in {"settle", "failing"}
    BY <1>4, <1>5, <2>1 DEF Ending, Settle, Tell, SettleRaises
  <2> QED
    BY <2>1, <2>3, <2>4 DEF Holds
<1>6. ASSUME NEW w \in Workers, NEW t \in Tools, Begin(w, t) \/ Classify(w, t) \/ Writes(w, t)
      PROVE  FALSE
  <2>1. work[w][t].request # 0 => work[w][t].request \in Requests
    BY RowTyped DEF Row
  <2> QED
    BY <1>3, <1>4, <1>6, <2>1 DEF Begin, Classify, Writes, Statement, StatementRaises
<1>7. ASSUME NEW w \in Workers, Loads(w) \/ Halts(w)
      PROVE  FALSE
  <2>1. \A t \in Waiting(w) : work[w][t].request # 0 => work[w][t].request \in Requests
    BY RowTyped DEF Row, Waiting, RowsOf
  <2> QED
    BY <1>3, <1>4, <1>7, <2>1 DEF Loads, LoadQueue, LoadNormal, LoadBackfill, Halts, EndPass, PassRaises, Crash
<1>8. ~(Beside /\ UNCHANGED restVars)
  BY <1>4 DEF restVars
<1>9. ASSUME NEW q \in Requests, RequestLeaseExpires(q)
      PROVE  FALSE
  BY <1>1, <1>2, <1>9 DEF RequestLeaseExpires, Tables, Request
<1>10. ASSUME NEW t \in Tools, Approve(t)
       PROVE  FALSE
  BY <1>1, <1>10, ApprovesTyped
<1> QED
  BY <1>5, <1>6, <1>7, <1>8, <1>9, <1>10, StepKinds

(* A request that runs leaves that state only through the row that claimed   *)
(* it last: an execution whose lease another worker took over settles        *)
(* nothing (complete_reclassification_request,                               *)
(* fail_reclassification_request).                                           *)
THEOREM ClaimsSettleAlone ==
  ASSUME Bounded
  PROVE  Spec => OnlyTheClaimSettles
<1>1. Typed /\ [Next]_shadowVars => [ClaimSettles]_requests
  BY StepSettles DEF shadowVars
<1> QED
  BY <1>1, AlwaysTyped, PTL DEF Spec, OnlyTheClaimSettles
-----------------------------------------------------------------------------
(* What is approved.                                                         *)

(* Nobody approves a tool again between the statement that settles its       *)
(* request and the batch that tells the candidate of it.                     *)
Apart(t) == Approve(t) => \A w \in Workers : work[w][t].at # "anomaly"

ApprovedApart == [][\A t \in Tools : Apart(t)]_shadowVars

Quiet(t) == \A r \in Requests : requests[r].tool = t => requests[r].status \notin Active

Told(w, t) == work[w][t].at = "anomaly" => Quiet(t)

Owned == \A r \in Requests : requests[r].status # "none" => requests[r].tool \in Tools

Approved == Typed /\ Owned /\ ActiveIsApproved /\ \A w \in Workers, t \in Tools : Told(w, t)

LEMMA MovesAt ==
  ASSUME Typed, NEW w \in Workers, NEW t \in Tools, NEW next, Moves(w, t, next)
  PROVE  /\ work'[w][t] = next
         /\ \A v \in Workers, u \in Tools : v # w \/ u # t => work'[v][u] = work[v][u]
BY DEF Moves, Typed

LEMMA NothingAt ==
  NoTask.at = "none" /\ NoTask.reason = "none"
BY DEF NoTask

LEMMA QuietStays ==
  ASSUME Narrows, NEW t \in Tools, Quiet(t)
  PROVE  Quiet(t)'
<1>1. ASSUME NEW r \in Requests, requests'[r].tool = t, requests'[r].status \in Active
      PROVE  FALSE
  <2>1. requests[r].status \in Active /\ requests[r].status # "none"
    BY <1>1 DEF Narrows, Active
  <2>2. requests[r].tool = t
    BY <1>1, <2>1 DEF Narrows, RequestsStay
  <2> QED
    BY <2>1, <2>2 DEF Quiet
<1> QED
  BY <1>1 DEF Quiet

(* No request is opened, and the candidates with an active one are spared.    *)
LEMMA ApprovalsStay ==
  ASSUME Owned, ActiveIsApproved, Narrows, \A t \in Tools : Spared(t) \/ Quiet(t)
  PROVE  Owned' /\ ActiveIsApproved'
<1>1. ASSUME NEW r \in Requests, requests'[r].status \in Active
      PROVE  candidates'[requests'[r].tool].status = "approved" /\ candidates'[requests'[r].tool].request = r
  <2>1. requests[r].status \in Active /\ requests[r].status # "none"
    BY <1>1 DEF Narrows, Active
  <2>2. PICK t \in Tools : t = requests[r].tool /\ t = requests'[r].tool
    BY <2>1 DEF Owned, Narrows, RequestsStay
  <2>3. ~Quiet(t)
    BY <2>1, <2>2 DEF Quiet
  <2>4. candidates[t].status = "approved" /\ candidates[t].request = r
    BY <2>1, <2>2 DEF ActiveIsApproved
  <2>5. Spared(t)
    BY <2>3
  <2> QED
    BY <2>2, <2>4, <2>5 DEF Spared
<1>2. ASSUME NEW r \in Requests, requests'[r].status # "none"
      PROVE  requests'[r].tool \in Tools
  <2>1. requests[r].status # "none"
    BY <1>2 DEF Narrows
  <2> QED
    BY <2>1 DEF Owned, Narrows, RequestsStay
<1> QED
  BY <1>1, <1>2 DEF ActiveIsApproved, Owned

LEMMA ToldStays ==
  ASSUME Narrows, \A w \in Workers, t \in Tools : Told(w, t),
         NEW w \in Workers, NEW t \in Tools,
         work'[w][t].at = "anomaly" => work[w][t].at = "anomaly" \/ Quiet(t)'
  PROVE  Told(w, t)'
BY QuietStays DEF Told

(* The steps that leave the candidates with requests alone, and no row waits *)
(* to tell its candidate after them that did not before.                     *)
LEMMA QuietSteps ==
  ASSUME Approved, Narrows, \A t \in Tools : Spared(t) \/ Quiet(t),
         \A w \in Workers, t \in Tools : work'[w][t].at = "anomaly" => work[w][t].at = "anomaly"
  PROVE  (Owned /\ ActiveIsApproved /\ \A w \in Workers, t \in Tools : Told(w, t))'
<1>1. \A w \in Workers, t \in Tools : Told(w, t)'
  BY ToldStays DEF Approved
<1>2. Owned' /\ ActiveIsApproved'
  BY ApprovalsStay DEF Approved
<1> QED
  BY <1>1, <1>2

LEMMA UnchangedSpare ==
  ASSUME UNCHANGED candidates
  PROVE  \A t \in Tools : Spared(t)
BY DEF Spared

LEMMA BesideApproved ==
  ASSUME Bounded, Approved, Beside, UNCHANGED restVars
  PROVE  Approved'
<1>1. Typed' /\ UNCHANGED <<requests, work>> /\ \A t \in Tools : Spared(t)
  BY ScansTyped, ScanEffects DEF Approved, restVars, Beside
<1> QED
  BY <1>1, UnchangedNarrow, QuietSteps DEF Approved

LEMMA LoadsApproved ==
  ASSUME Bounded, Approved, NEW w \in Workers, Loads(w)
  PROVE  Approved'
<1>1. Typed' /\ UNCHANGED <<candidates, requests>>
  BY LoadsTyped DEF Approved, Loads, LoadQueue, LoadNormal, LoadBackfill, scanVars
<1>2. ASSUME NEW v \in Workers, NEW t \in Tools, work'[v][t].at = "anomaly"
      PROVE  work[v][t].at = "anomaly"
  <2>1. /\ v # w => work'[v] = work[v]
        /\ \/ work'[w][t] = work[w][t]
           \/ work'[w][t] = NoTask
           \/ work'[w][t].at = "waiting"
    BY LoadsTyped DEF Approved, Loads
  <2> QED
    BY <1>2, <2>1, NothingAt
<1> QED
  BY <1>1, <1>2, UnchangedNarrow, UnchangedSpare, QuietSteps DEF Approved

LEMMA HaltsApproved ==
  ASSUME Bounded, Approved, NEW w \in Workers, Halts(w)
  PROVE  Approved'
<1>1. /\ Typed' /\ Narrows /\ UNCHANGED candidates
      /\ work' = [work EXCEPT ![w] = [t \in Tools |-> NoTask]]
  BY HaltsTyped DEF Approved, scanVars
<1>2. \A v \in Workers, t \in Tools : work'[v][t].at = "anomaly" => work[v][t].at = "anomaly"
  BY <1>1, NothingAt DEF Approved, Typed
<1> QED
  BY <1>1, <1>2, UnchangedSpare, QuietSteps DEF Approved

LEMMA RowsApproved ==
  ASSUME Bounded, Approved, NEW w \in Workers, NEW t \in Tools,
         Begin(w, t) \/ Classify(w, t) \/ Writes(w, t)
  PROVE  Approved'
<1>1. PICK task : task = work[w][t]
  OBVIOUS
<1>2. task \in Row /\ Founded(t, task) /\ Typed
  BY <1>1, RowTyped DEF Approved
<1>3. Typed' /\ Narrows /\ UNCHANGED candidates
      /\ \E next : Moves(w, t, next) /\ next.at # "anomaly"
  <2>1. CASE Begin(w, t)
    <3>1. UNCHANGED candidates
      BY <2>1 DEF Begin, scanVars
    <3> QED
      BY <1>1, <1>2, <2>1, <3>1, BeginsTyped, NothingAt DEF Gone
  <2>2. CASE Classify(w, t)
    <3>1. UNCHANGED <<candidates, requests>>
      BY <2>2 DEF Classify, scanVars
    <3> QED
      BY <1>1, <1>2, <2>2, <3>1, ClassifiesTyped, UnchangedNarrow
  <2>3. CASE Writes(w, t)
    <3>1. /\ Typed' /\ task.at \in Statements
          /\ UNCHANGED <<scanVars, requests>>
          /\ \E at \in {"failing", Following(task)} :
               IF at \in {"settle", "failing"} /\ task.request = 0 THEN Gone(w, t)
               ELSE \E next \in Row : Moves(w, t, next) /\ next.at = at
      BY <1>1, <1>2, <2>3, StatementsTyped DEF Writes
    <3>2. Following(task) # "anomaly"
      BY <1>2, <3>1, FollowingTyped DEF Steps, Statements
    <3>3. UNCHANGED candidates
      BY <3>1 DEF scanVars
    <3> QED
      BY <3>1, <3>2, <3>3, UnchangedNarrow, NothingAt DEF Gone
  <2> QED
    BY <2>1, <2>2, <2>3
<1>4. PICK next : Moves(w, t, next) /\ next.at # "anomaly"
  BY <1>3
<1>5. \A v \in Workers, u \in Tools : work'[v][u].at = "anomaly" => work[v][u].at = "anomaly"
  BY <1>2, <1>4, MovesAt
<1> QED
  BY <1>3, <1>5, UnchangedSpare, QuietSteps DEF Approved

(* A tool has one active request at most, so it has none once that is        *)
(* settled.                                                                  *)
LEMMA SettledIsQuiet ==
  ASSUME Approved, NEW t \in Tools, NEW r \in Requests, requests[r].tool = t,
         requests[r].status = "running", requests'[r].status \in Settled, Narrows
  PROVE  Quiet(t)'
<1>1. ASSUME NEW q \in Requests, requests'[q].tool = t, requests'[q].status \in Active
      PROVE  FALSE
  <2>1. requests[q].status \in Active /\ requests[q].status # "none"
    BY <1>1 DEF Narrows, Active
  <2>2. requests[q].tool = t
    BY <1>1, <2>1 DEF Narrows, RequestsStay
  <2>3. candidates[t].request = q /\ candidates[t].request = r
    BY <2>1, <2>2 DEF Approved, ActiveIsApproved, Active
  <2> QED
    BY <1>1, <2>3 DEF Active, Settled
<1> QED
  BY <1>1 DEF Quiet

LEMMA EndingsApproved ==
  ASSUME Bounded, Approved, NEW w \in Workers, NEW t \in Tools, Ending(w, t)
  PROVE  Approved'
<1>1. PICK task : task = work[w][t]
  OBVIOUS
<1>2. task \in Row /\ Founded(t, task) /\ Typed
  BY <1>1, RowTyped DEF Approved
<1>3. /\ Typed' /\ Narrows /\ task.request \in Requests
      /\ UNCHANGED candidates \/ (task.at = "anomaly" /\ TellCandidate(t, task.request) /\ UNCHANGED requests)
      /\ \/ Gone(w, t)
         \/ /\ UNCHANGED candidates /\ requests[task.request].status = "running"
            /\ requests'[task.request].status \in {"succeeded", "needs_manual"}
            /\ \E next \in Row : Moves(w, t, next) /\ next.at = "anomaly"
  BY <1>1, <1>2, EndingsTyped
<1>4. \A u \in Tools : Spared(u) \/ Quiet(u)
  <2>1. CASE UNCHANGED candidates
    BY <2>1, UnchangedSpare
  <2>2. CASE task.at = "anomaly" /\ TellCandidate(t, task.request)
    <3>1. Quiet(t)
      BY <1>1, <2>2 DEF Approved, Told
    <3>2. \A u \in Tools \ {t} : candidates'[u] = candidates[u]
      BY <1>2, <1>3, <2>2, TellsTyped DEF Typed
    <3> QED
      BY <3>1, <3>2 DEF Spared
  <2> QED
    BY <1>3, <2>1, <2>2
<1>5. CASE Gone(w, t)
  <2>1. \A v \in Workers, u \in Tools : work'[v][u].at = "anomaly" => work[v][u].at = "anomaly"
    BY <1>2, <1>5, MovesAt, NothingAt DEF Gone
  <2> QED
    BY <1>3, <1>4, <2>1, QuietSteps DEF Approved
<1>6. CASE /\ UNCHANGED candidates /\ requests[task.request].status = "running"
           /\ requests'[task.request].status \in {"succeeded", "needs_manual"}
           /\ \E next \in Row : Moves(w, t, next) /\ next.at = "anomaly"
  <2>1. Quiet(t)'
    <3>1. requests[task.request].tool = t
      BY <1>2, <1>3, <1>6 DEF Founded, Bounded
    <3> QED
      BY <1>3, <1>6, <3>1, SettledIsQuiet DEF Settled
  <2>2. \A v \in Workers, u \in Tools : work'[v][u].at = "anomaly" => work[v][u].at = "anomaly" \/ u = t
    BY <1>2, <1>6, MovesAt
  <2>3. ASSUME NEW v \in Workers, NEW u \in Tools
        PROVE  Told(v, u)'
    <3>1. CASE u = t
      BY <2>1, <3>1 DEF Told
    <3>2. CASE u # t
      BY <1>3, <2>2, <3>2, ToldStays DEF Approved
    <3> QED
      BY <3>1, <3>2
  <2>4. Owned' /\ ActiveIsApproved'
    BY <1>3, <1>4, ApprovalsStay DEF Approved
  <2> QED
    BY <1>3, <2>3, <2>4 DEF Approved
<1> QED
  BY <1>3, <1>5, <1>6

LEMMA ApprovesApproved ==
  ASSUME Bounded, Approved, NEW t \in Tools, Approve(t), Apart(t)
  PROVE  Approved'
<1>1. Typed
  BY DEF Approved
<1>2. /\ Typed' /\ UNCHANGED work
      /\ \A q \in Requests : requests[q].tool = t => requests[q].status \notin Active
      /\ \A u \in Tools \ {t} : candidates'[u] = candidates[u]
      /\ candidates'[t].status = "approved"
  BY <1>1, ApprovesTyped
<1>3. PICK r \in Requests :
              /\ requests[r].status = "none" /\ requests'[r].status = "queued" /\ requests'[r].tool = t
              /\ candidates'[t].request = r
              /\ \A q \in Requests \ {r} : requests'[q] = requests[q]
  BY <1>1, ApprovesTyped
<1>4. ASSUME NEW q \in Requests, requests'[q].status \in Active
      PROVE  candidates'[requests'[q].tool].status = "approved" /\ candidates'[requests'[q].tool].request = q
  <2>1. CASE q = r
    BY <1>2, <1>3, <2>1
  <2>2. CASE q # r
    <3>1. requests'[q] = requests[q] /\ requests[q].tool # t /\ requests[q].tool \in Tools
      BY <1>2, <1>3, <1>4, <2>2 DEF Approved, Owned, Active
    <3> QED
      BY <1>2, <1>4, <3>1 DEF Approved, ActiveIsApproved
  <2> QED
    BY <2>1, <2>2
<1>5. Owned'
  BY <1>3 DEF Approved, Owned
<1>6. ASSUME NEW v \in Workers, NEW u \in Tools
      PROVE  Told(v, u)'
  <2>1. CASE u = t
    BY <1>2, <2>1 DEF Apart, Told
  <2>2. CASE u # t
    <3>1. Quiet(u) => Quiet(u)'
      BY <1>3, <2>2 DEF Quiet
    <3> QED
      BY <1>2, <3>1 DEF Approved, Told
  <2> QED
    BY <2>1, <2>2
<1> QED
  BY <1>2, <1>4, <1>5, <1>6 DEF Approved, ActiveIsApproved

LEMMA InitiallyApproved ==
  ASSUME Bounded, Init
  PROVE  Approved
<1>1. Typed
  BY Initially
<1>2. \A r \in Requests : requests[r].status = "none"
  BY DEF Init, NoRequest
<1>3. \A w \in Workers, t \in Tools : work[w][t].at = "none"
  BY NothingAt DEF Init
<1> QED
  BY <1>1, <1>2, <1>3 DEF Approved, Owned, ActiveIsApproved, Told, Active

LEMMA ApprovedStays ==
  ASSUME Bounded, Approved, [Next /\ \A t \in Tools : Apart(t)]_shadowVars
  PROVE  Approved'
<1>1. CASE UNCHANGED shadowVars
  <2>1. Typed' /\ UNCHANGED <<candidates, requests, work>>
    BY <1>1, TypedStays DEF Approved, shadowVars, scanVars
  <2> QED
    BY <2>1, UnchangedNarrow, UnchangedSpare, QuietSteps DEF Approved
<1>2. ASSUME NEW r \in Requests, RequestLeaseExpires(r)
      PROVE  Approved'
  <2>1. Typed' /\ Narrows /\ UNCHANGED <<candidates, work>>
    BY <1>2, LeasesTyped DEF Approved, scanVars
  <2> QED
    BY <2>1, UnchangedSpare, QuietSteps DEF Approved
<1>3. CASE Next /\ \A t \in Tools : Apart(t)
  BY <1>2, <1>3, StepKinds, BesideApproved, LoadsApproved, HaltsApproved, RowsApproved, EndingsApproved,
     ApprovesApproved
<1> QED
  BY <1>1, <1>3

(* A request that is still to be answered belongs to an approved candidate   *)
(* that knows it, for any number of requests and workers, as long as nobody  *)
(* approves a tool again in the moment between complete_reclassification_    *)
(* request and the batch that tells the candidate (both in                   *)
(* run_shadow_pass; nothing in the code rules such an approval out).         *)
THEOREM ActiveAreApproved ==
  ASSUME Bounded
  PROVE  Spec /\ ApprovedApart => []ActiveIsApproved
<1>1. Init => Approved
  BY InitiallyApproved
<1>2. Approved /\ [Next]_shadowVars /\ [\A t \in Tools : Apart(t)]_shadowVars => Approved'
  BY ApprovedStays
<1>3. Approved => ActiveIsApproved
  BY DEF Approved
<1> QED
  BY <1>1, <1>2, <1>3, PTL DEF Spec, ApprovedApart
-----------------------------------------------------------------------------
(* What a finished classification claims, where one worker writes.           *)
OneWorker == \A v, w \in Workers : v = w

NewestOf(t, i) ==
  /\ i \in DOMAIN runs[t] /\ runs[t][i].of = "full"
  /\ \A j \in DOMAIN runs[t] : runs[t][j].of = "full" => j <= i

Shown(t, m, run) ==
  assign[t][m] = [source |-> "auto", status |-> "auto_accepted", primary |-> TRUE, run |-> run]

Machine(t) == \A x \in Terms : assign[t][x].source # "manual"

(* The newest full run that succeeded has its primary, also while a newer    *)
(* one is written: that one says partial.                                    *)
NewestHolds(t) ==
  /\ \A j \in DOMAIN runs[t] : runs[t][j].of = "full" => \E i \in DOMAIN runs[t] : NewestOf(t, i)
  /\ \A i \in DOMAIN runs[t] :
       NewestOf(t, i) /\ runs[t][i].status = "succeeded" => HasTrustedPrimary(assign[t])

Writing == {"retire", "primary", "capability", "supersede", "status"}

(* What a row has written when it comes to a statement.                      *)
Answered(task) ==
  IF task.reason = "backfill"
    THEN /\ task.request = 0 /\ task.at \notin {"label", "profile", "retire", "primary"}
         /\ task.at \in Statements => task.answer.outcome = "backfill" /\ task.answer.market = "none"
    ELSE task.at \in Statements \cup {"settle"} =>
           /\ task.answer.outcome \notin {"none", "backfill"}
           /\ task.answer.outcome = "accepted" <=> task.answer.market # "none"

Reached(t, task) ==
  /\ Answered(task)
  /\ task.at \in Writing \cup {"settle"} =>
       /\ task.run \in DOMAIN runs[t]
       /\ IF task.reason = "backfill" THEN runs[t][task.run].of = "backfill" ELSE NewestOf(t, task.run)
  /\ task.at \in Writing => runs[t][task.run].status = "partial"
  /\ task.reason # "backfill" /\ task.at \in {"capability", "supersede", "status", "settle"} =>
       (task.answer.market # "none" => Shown(t, task.answer.market, task.run))
  /\ task.at = "settle" => runs[t][task.run].status = EndStatus(task.answer, task.kind)

Sound(t) == Machine(t) /\ NewestHolds(t) /\ \A w \in Workers : Reached(t, work[w][t])

Sounds == Typed /\ \A t \in Tools : Sound(t)

(* The request is answered by a full run that wrote the primary the tool     *)
(* shows.                                                                    *)
Repaired(t, r) ==
  /\ r \in Requests /\ requests[r].status = "succeeded" /\ requests[r].tool = t
  /\ requests[r].run \in DOMAIN runs[t]
  /\ runs[t][requests[r].run].status = "succeeded" /\ runs[t][requests[r].run].of = "full"
  /\ \E m \in Markets : Shown(t, m, requests[r].run)

(* The row of a repaired tool asks for capabilities only.                    *)
Resolved(t) ==
  candidates[t].status = "resolved" =>
    /\ Repaired(t, candidates[t].request) /\ Quiet(t)
    /\ \A w \in Workers : work[w][t].at # "none" => work[w][t].reason = "backfill"

Telling(t, task) ==
  task.at = "anomaly" /\ requests[task.request].status = "succeeded" => Repaired(t, task.request)

Repairing == Approved /\ \A t \in Tools : Sound(t) /\ Resolved(t) /\ \A w \in Workers : Telling(t, work[w][t])

-----------------------------------------------------------------------------
(* The rows of a tool and the runs of a tool, after a statement.             *)
LEMMA RetireKeeps ==
  ASSUME NEW rows \in Rows, NEW term, NEW x \in Terms
  PROVE  RetireOtherPrimaries(rows, term)[x].source = rows[x].source
<1>1. PICK row \in [source : {"none", "auto", "manual"},
                    status : AutoStatuses \cup {"none", "verified", "superseded"}, primary : BOOLEAN, run : Nat] :
           row = rows[x]
  BY DEF Rows
<1>2. PICK status : status = IF row.status \in AutoStatuses THEN "superseded" ELSE row.status
  OBVIOUS
<1>3. PICK next : next = [row EXCEPT !.primary = FALSE, !.status = status]
  OBVIOUS
<1>4. next.source = row.source
  BY <1>1, <1>3
<1>5. next = [row EXCEPT !.primary = FALSE, !.status = IF @ \in AutoStatuses THEN "superseded" ELSE @]
  BY <1>2, <1>3
<1>6. RetireOtherPrimaries(rows, term)[x] \in {next, row}
  BY <1>1, <1>5 DEF RetireOtherPrimaries
<1> QED
  BY <1>1, <1>4, <1>6

LEMMA UpsertKeeps ==
  ASSUME NEW rows \in Rows, NEW term \in Terms, NEW primary, NEW status, NEW run
  PROVE  LET new == UpsertAssignment(rows, term, primary, status, run) IN
         /\ \A x \in Terms \ {term} : new[x] = rows[x]
         /\ rows[term].source # "manual" =>
              new[term] = [source |-> "auto", status |-> status, primary |-> primary, run |-> run]
BY DEF UpsertAssignment, Rows

LEMMA SupersedeKeeps ==
  ASSUME NEW rows \in Rows, NEW terms, NEW run, NEW x \in Terms
  PROVE  LET new == SupersedeAuto(rows, terms, run) IN
         /\ new[x].source = rows[x].source
         /\ x \notin terms \/ rows[x].run = run => new[x] = rows[x]
<1>1. [rows[x] EXCEPT !.status = "superseded", !.primary = FALSE].source = rows[x].source
  BY DEF Rows
<1> QED
  BY <1>1 DEF SupersedeAuto

LEMMA DomainOfRuns ==
  ASSUME Tables, NEW t \in Tools
  PROVE  /\ runs[t] \in Seq(Run) /\ Len(runs[t]) \in Nat /\ DOMAIN runs[t] = 1..Len(runs[t])
         /\ \A i \in DOMAIN runs[t] : i \in Nat /\ runs[t][i] \in Run
<1>1. runs[t] \in Seq(Run)
  BY DEF Tables
<1>2. Len(runs[t]) \in Nat /\ DOMAIN runs[t] = 1..Len(runs[t])
  BY <1>1
<1> QED
  BY <1>1, <1>2, ElementOfSeq

LEMMA AppendsRun ==
  ASSUME Tables, NEW t \in Tools, NEW run \in Run, runs' = [runs EXCEPT ![t] = Append(@, run)]
  PROVE  /\ DOMAIN runs'[t] = 1..(Len(runs[t]) + 1)
         /\ runs'[t][Len(runs[t]) + 1] = run
         /\ \A i \in DOMAIN runs[t] : runs'[t][i] = runs[t][i]
<1>1. runs[t] \in Seq(Run) /\ runs'[t] = Append(runs[t], run)
  BY DEF Tables
<1> QED
  BY <1>1, AppendProperties, DomainOfRuns

LEMMA SetsStatus ==
  ASSUME Tables, NEW t \in Tools, NEW k \in DOMAIN runs[t], NEW status,
         runs' = [runs EXCEPT ![t][k].status = status]
  PROVE  /\ DOMAIN runs'[t] = DOMAIN runs[t]
         /\ runs'[t][k].of = runs[t][k].of /\ runs'[t][k].status = status
         /\ \A i \in DOMAIN runs[t] \ {k} : runs'[t][i] = runs[t][i]
<1>1. PICK run \in Run : run = runs[t][k]
  BY DomainOfRuns
<1>2. PICK next : next = [run EXCEPT !.status = status]
  OBVIOUS
<1>3. next.of = run.of /\ next.status = status
  BY <1>1, <1>2 DEF Run
<1>4. runs'[t] = [runs[t] EXCEPT ![k] = next]
  BY <1>1, <1>2 DEF Tables
<1>5. runs[t] = [i \in DOMAIN runs[t] |-> runs[t][i]]
  BY DomainOfRuns
<1> QED
  BY <1>1, <1>3, <1>4, <1>5

-----------------------------------------------------------------------------
(* The full runs of a tool, and the one that is the newest.                   *)
FullsStay(t) ==
  /\ DOMAIN runs[t] \subseteq DOMAIN runs'[t]
  /\ \A i \in DOMAIN runs[t] : runs'[t][i].of = runs[t][i].of
  /\ \A i \in DOMAIN runs[t] : runs[t][i].of = "full" => runs'[t][i] = runs[t][i]
  /\ \A i \in DOMAIN runs'[t] \ DOMAIN runs[t] : runs'[t][i].of # "full"

LEMMA NewestStays ==
  ASSUME NEW t \in Tools, FullsStay(t), NEW i
  PROVE  /\ NewestOf(t, i)' <=> NewestOf(t, i)
         /\ NewestOf(t, i) => runs'[t][i] = runs[t][i]
BY DEF FullsStay, NewestOf

LEMMA OnlyNewest ==
  ASSUME Tables, NEW t \in Tools, NEW i, NEW j, NewestOf(t, i), NewestOf(t, j)
  PROVE  i = j
<1>1. i \in Nat /\ j \in Nat /\ i <= j /\ j <= i
  BY DomainOfRuns DEF NewestOf
<1> QED
  BY <1>1

LEMMA ShownIsTrusted ==
  ASSUME NEW t, NEW m \in Markets, NEW run, Shown(t, m, run)
  PROVE  HasTrustedPrimary(assign[t])
<1>1. PICK row : row = [source |-> "auto", status |-> "auto_accepted", primary |-> TRUE, run |-> run]
  OBVIOUS
<1>2. row.primary = TRUE
  BY <1>1, Zenon
<1>3. row.status = "auto_accepted"
  BY <1>1
<1>4. assign[t][m].primary /\ assign[t][m].status \in TrustedStatuses
  BY <1>1, <1>2, <1>3 DEF Shown, TrustedStatuses
<1> QED
  BY <1>4 DEF HasTrustedPrimary

(* What a backfill writes touches no full run and no market.                 *)
LEMMA BackfillWrites ==
  ASSUME Bounded, Tables, NEW t \in Tools, NEW task \in Row, Founded(t, task), Machine(t),
         Reached(t, task), task.reason = "backfill", task.at \in Statements, Write(t, task)
  PROVE  FullsStay(t) /\ \A m \in Markets : assign'[t][m] = assign[t][m]
<1>1. task.at \in {"record", "capability", "supersede", "status"} /\ task.answer.market = "none"
  BY DEF Reached, Answered, Statements
<1>2. assign[t] \in Rows /\ \A m \in Markets : m \in Terms /\ m \notin Capabilities
  BY DEF Tables, Terms, Bounded
<1>3. CASE task.at = "record"
  <2>1. PICK run : run = [status |-> Recorded(task), of |-> "backfill"]
    OBVIOUS
  <2>2. run \in Run /\ run.of = "backfill"
    BY <2>1, EndsTyped DEF Recorded, Run
  <2>3. runs' = [runs EXCEPT ![t] = Append(@, run)] /\ UNCHANGED assign
    BY <1>3, <2>1 DEF Write
  <2>4. /\ DOMAIN runs'[t] = 1..(Len(runs[t]) + 1)
        /\ runs'[t][Len(runs[t]) + 1] = run
        /\ \A i \in DOMAIN runs[t] : runs'[t][i] = runs[t][i]
    BY <2>2, <2>3, AppendsRun
  <2>5. Len(runs[t]) \in Nat /\ DOMAIN runs[t] = 1..Len(runs[t])
    BY DomainOfRuns
  <2> QED
    BY <2>2, <2>3, <2>4, <2>5 DEF FullsStay
<1>4. CASE task.at = "capability"
  <2>1. PICK c \in Capabilities : c = task.answer.capability
    BY <1>4 DEF Founded
  <2>2. c \in Terms
    BY DEF Terms
  <2>3. assign'[t] = UpsertAssignment(assign[t], c, FALSE, "provisional", task.run) /\ UNCHANGED runs
    BY <1>4, <2>1 DEF Write, SetAssign, Tables
  <2>4. \A x \in Terms \ {c} : assign'[t][x] = assign[t][x]
    BY <1>2, <2>2, <2>3 DEF UpsertAssignment, Rows
  <2>5. \A m \in Markets : assign'[t][m] = assign[t][m]
    BY <1>2, <2>1, <2>4
  <2> QED
    BY <2>3, <2>5 DEF FullsStay
<1>5. CASE task.at = "supersede"
  <2>1. assign'[t] = SupersedeAuto(assign[t], Spoken(task.answer), task.run) /\ UNCHANGED runs
    BY <1>5 DEF Write, SetAssign, Tables
  <2>2. Spoken(task.answer) \subseteq Capabilities
    BY <1>1 DEF Spoken
  <2> QED
    BY <1>2, <2>1, <2>2, SupersedeKeeps DEF FullsStay
<1>6. CASE task.at = "status"
  <2>1. runs' = [runs EXCEPT ![t][task.run].status = EndStatus(task.answer, task.kind)] /\ UNCHANGED assign
    BY <1>6 DEF Write
  <2>2. task.run \in DOMAIN runs[t] /\ runs[t][task.run].of = "backfill"
    BY <1>6 DEF Reached, Writing
  <2>3. PICK status : status = EndStatus(task.answer, task.kind)
    OBVIOUS
  <2>4. /\ DOMAIN runs'[t] = DOMAIN runs[t]
        /\ runs'[t][task.run].of = runs[t][task.run].of
        /\ \A i \in DOMAIN runs[t] \ {task.run} : runs'[t][i] = runs[t][i]
    BY <2>1, <2>2, <2>3, SetsStatus
  <2> QED
    BY <2>1, <2>2, <2>4 DEF FullsStay
<1> QED
  BY <1>1, <1>3, <1>4, <1>5, <1>6

LEMMA MarketsKeep ==
  ASSUME NEW t \in Tools, FullsStay(t), \A m \in Markets : assign'[t][m] = assign[t][m], NewestHolds(t)
  PROVE  NewestHolds(t)'
<1>1. ASSUME NEW i \in DOMAIN runs'[t], NewestOf(t, i)', runs'[t][i].status = "succeeded"
      PROVE  HasTrustedPrimary(assign'[t])
  <2>1. NewestOf(t, i) /\ runs[t][i].status = "succeeded" /\ i \in DOMAIN runs[t]
    BY <1>1, NewestStays DEF NewestOf
  <2>2. HasTrustedPrimary(assign[t])
    BY <2>1 DEF NewestHolds
  <2> QED
    BY <2>2 DEF HasTrustedPrimary
<1>2. ASSUME NEW j \in DOMAIN runs'[t], runs'[t][j].of = "full"
      PROVE  \E i \in DOMAIN runs'[t] : NewestOf(t, i)'
  <2>1. j \in DOMAIN runs[t] /\ runs[t][j].of = "full"
    BY <1>2 DEF FullsStay
  <2>2. PICK i \in DOMAIN runs[t] : NewestOf(t, i)
    BY <2>1 DEF NewestHolds
  <2> QED
    BY <2>2, NewestStays DEF FullsStay
<1> QED
  BY <1>1, <1>2 DEF NewestHolds

(* A newest run that is partial promises nothing.                            *)
LEMMA PartialHolds ==
  ASSUME Tables, NEW t \in Tools, NEW k, NewestOf(t, k), runs[t][k].status = "partial", runs'[t] = runs[t]
  PROVE  NewestHolds(t)' /\ NewestOf(t, k)'
<1>1. NewestOf(t, k)'
  BY DEF NewestOf
<1>2. ASSUME NEW i \in DOMAIN runs'[t], NewestOf(t, i)'
      PROVE  runs'[t][i].status = "partial"
  <2>1. NewestOf(t, i)
    BY <1>2 DEF NewestOf
  <2> QED
    BY <2>1, OnlyNewest
<1>3. k \in DOMAIN runs'[t]
  BY DEF NewestOf
<1> QED
  BY <1>1, <1>2, <1>3 DEF NewestHolds

-----------------------------------------------------------------------------
(* A statement of a row that reached it.                                     *)
LEMMA FullSucceeds ==
  ASSUME Bounded, NEW task \in Row, Answered(task), task.reason # "backfill",
         task.at \in Statements \cup {"settle"}, EndStatus(task.answer, task.kind) = "succeeded"
  PROVE  task.answer.outcome = "accepted" /\ task.answer.market \in Markets
<1>1. /\ task.answer.outcome \in Outcomes \cup {"none", "accepted", "backfill"}
      /\ task.answer.market \in Markets \cup {"none"}
  BY DEF Row, Answer
<1>2. /\ task.answer.outcome \notin {"none", "backfill"}
      /\ task.answer.outcome = "accepted" <=> task.answer.market # "none"
  BY DEF Answered
<1>3. task.answer.outcome = "accepted"
  BY <1>1, <1>2 DEF EndStatus, Bounded
<1> QED
  BY <1>1, <1>2, <1>3

LEMMA AssignAfter ==
  ASSUME Bounded, Tables, NEW t \in Tools, NEW task \in Row, Founded(t, task), task.at \in Statements,
         Write(t, task)
  PROVE  /\ task.at = "retire" => assign'[t] = RetireOtherPrimaries(assign[t], task.answer.market)
         /\ task.at = "primary" =>
              assign'[t] = UpsertAssignment(assign[t], task.answer.market, TRUE, "auto_accepted", task.run)
         /\ task.at = "capability" =>
              assign'[t] = UpsertAssignment(assign[t], task.answer.capability, FALSE, "provisional", task.run)
         /\ task.at = "supersede" => assign'[t] = SupersedeAuto(assign[t], Spoken(task.answer), task.run)
         /\ task.at \notin {"retire", "primary", "capability", "supersede"} => UNCHANGED assign
         /\ task.at \notin {"record", "status"} => UNCHANGED runs
<1>1. \A rows : SetAssign(t, rows) => assign'[t] = rows
  BY DEF SetAssign, Tables
<1>2. PrimaryWrite(FALSE) = [primary |-> TRUE, status |-> "auto_accepted"]
  BY DEF PrimaryWrite
<1>3. [primary |-> TRUE, status |-> "auto_accepted"].primary = TRUE
  OBVIOUS
<1>4. [primary |-> TRUE, status |-> "auto_accepted"].status = "auto_accepted"
  OBVIOUS
<1>5. PrimaryWrite(FALSE).primary = TRUE /\ PrimaryWrite(FALSE).status = "auto_accepted"
  BY <1>2, <1>3, <1>4, Zenon
<1>6. CASE task.at = "primary"
  <2>1. SetAssign(t, UpsertAssignment(assign[t], task.answer.market, PrimaryWrite(FALSE).primary,
                                      PrimaryWrite(FALSE).status, task.run)) /\ UNCHANGED runs
    BY <1>6 DEF Write
  <2> QED
    BY <1>1, <1>5, <1>6, <2>1
<1>7. CASE task.at \in {"retire", "capability", "supersede"}
  BY <1>1, <1>7 DEF Write
<1>8. CASE task.at \in {"label", "profile", "record", "status"}
  BY <1>8 DEF Write
<1> QED
  BY <1>6, <1>7, <1>8 DEF Statements

LEMMA MachineStays ==
  ASSUME Bounded, Tables, NEW t \in Tools, NEW task \in Row, Founded(t, task), Machine(t),
         task.at \in Statements, Write(t, task)
  PROVE  Machine(t)'
<1>1. assign[t] \in Rows /\ \A x \in Terms : assign[t][x].source # "manual"
  BY DEF Tables, Machine
<1>2. CASE task.at = "retire"
  <2>1. assign'[t] = RetireOtherPrimaries(assign[t], task.answer.market)
    BY <1>2, AssignAfter
  <2>2. \A x \in Terms : assign'[t][x].source = assign[t][x].source
    BY <1>1, <2>1, RetireKeeps
  <2> QED
    BY <1>1, <2>2 DEF Machine
<1>3. CASE task.at = "primary"
  <2>1. task.answer.market \in Terms
    BY <1>3 DEF Founded, Terms
  <2>2. assign'[t] = UpsertAssignment(assign[t], task.answer.market, TRUE, "auto_accepted", task.run)
    BY <1>3, AssignAfter
  <2> QED
    BY <1>1, <2>1, <2>2 DEF UpsertAssignment, Rows, Machine
<1>4. CASE task.at = "capability"
  <2>1. task.answer.capability \in Terms
    BY <1>4 DEF Founded, Terms
  <2>2. assign'[t] = UpsertAssignment(assign[t], task.answer.capability, FALSE, "provisional", task.run)
    BY <1>4, AssignAfter
  <2> QED
    BY <1>1, <2>1, <2>2 DEF UpsertAssignment, Rows, Machine
<1>5. CASE task.at = "supersede"
  <2>1. assign'[t] = SupersedeAuto(assign[t], Spoken(task.answer), task.run)
    BY <1>5, AssignAfter
  <2>2. \A x \in Terms : assign'[t][x].source = assign[t][x].source
    BY <1>1, <2>1, SupersedeKeeps
  <2> QED
    BY <1>1, <2>2 DEF Machine
<1>6. CASE UNCHANGED assign
  BY <1>6 DEF Machine
<1> QED
  BY <1>2, <1>3, <1>4, <1>5, <1>6, AssignAfter

(* The primary of an answer is shown once it is written, and stays.          *)
LEMMA ShownAfter ==
  ASSUME Bounded, Tables, NEW t \in Tools, NEW task \in Row, Founded(t, task), Machine(t),
         task.at \in Statements, Write(t, task), task.answer.market # "none",
         task.at = "primary" \/ (task.at # "retire" /\ Shown(t, task.answer.market, task.run))
  PROVE  Shown(t, task.answer.market, task.run)'
<1>1. PICK m \in Markets : m = task.answer.market
  BY DEF Row, Answer
<1>2. assign[t] \in Rows /\ m \in Terms /\ m \notin Capabilities
  BY <1>1 DEF Tables, Terms, Bounded
<1>3. CASE task.at = "primary"
  <2>1. assign'[t] = UpsertAssignment(assign[t], m, TRUE, "auto_accepted", task.run)
    BY <1>1, <1>3, AssignAfter
  <2>2. assign[t][m].source # "manual"
    BY <1>2 DEF Machine
  <2> QED
    BY <1>1, <1>2, <2>1, <2>2 DEF UpsertAssignment, Rows, Shown
<1>4. CASE task.at = "capability"
  <2>1. assign'[t] = UpsertAssignment(assign[t], task.answer.capability, FALSE, "provisional", task.run)
    BY <1>4, AssignAfter
  <2>2. task.answer.capability # m
    BY <1>2, <1>4 DEF Founded
  <2>3. assign'[t][m] = assign[t][m]
    BY <1>2, <2>1, <2>2 DEF UpsertAssignment, Rows
  <2> QED
    BY <1>1, <1>4, <2>3 DEF Shown
<1>5. CASE task.at = "supersede"
  <2>1. assign'[t] = SupersedeAuto(assign[t], Spoken(task.answer), task.run)
    BY <1>5, AssignAfter
  <2>2. assign[t][m].run = task.run
    BY <1>1, <1>5 DEF Shown
  <2>3. assign'[t][m] = assign[t][m]
    BY <1>2, <2>1, <2>2, SupersedeKeeps
  <2> QED
    BY <1>1, <1>5, <2>3 DEF Shown
<1>6. CASE UNCHANGED assign /\ task.at # "primary"
  BY <1>1, <1>6 DEF Shown
<1> QED
  BY <1>3, <1>4, <1>5, <1>6, AssignAfter

LEMMA HoldsStay ==
  ASSUME Bounded, Tables, NEW t \in Tools, NEW task \in Row, Founded(t, task), Machine(t),
         NewestHolds(t), Reached(t, task), task.at \in Statements, Write(t, task)
  PROVE  /\ NewestHolds(t)'
         /\ task.at \in Writing /\ task.reason # "backfill" => NewestOf(t, task.run)'
<1>1. CASE task.reason = "backfill"
  BY <1>1, BackfillWrites, MarketsKeep
<1>2. CASE task.reason # "backfill" /\ task.at \in {"label", "profile"}
  <2>1. UNCHANGED <<assign, runs>>
    BY <1>2, AssignAfter
  <2> QED
    BY <1>2, <2>1 DEF NewestHolds, NewestOf, HasTrustedPrimary, Writing
<1>3. CASE task.reason # "backfill" /\ task.at = "record"
  <2>1. PICK run : run = [status |-> Recorded(task), of |-> "full"]
    OBVIOUS
  <2>2. Recorded(task) # "succeeded"
    <3>1. CASE WritesRows(task.answer)
      BY <3>1 DEF Recorded
    <3>2. CASE ~WritesRows(task.answer)
      <4>1. task.answer.market \notin Markets
        BY <3>2 DEF WritesRows, Bounded
      <4>2. EndStatus(task.answer, task.kind) # "succeeded"
        BY <1>3, <4>1, FullSucceeds DEF Reached
      <4> QED
        BY <3>2, <4>2 DEF Recorded
    <3> QED
      BY <3>1, <3>2
  <2>3. run \in Run /\ run.of = "full" /\ run.status # "succeeded"
    BY <2>1, <2>2, EndsTyped DEF Recorded, Run
  <2>4. runs' = [runs EXCEPT ![t] = Append(@, run)]
    BY <1>3, <2>1 DEF Write
  <2>5. /\ DOMAIN runs'[t] = 1..(Len(runs[t]) + 1)
        /\ runs'[t][Len(runs[t]) + 1] = run
    BY <2>3, <2>4, AppendsRun
  <2>6. Len(runs[t]) \in Nat
    BY DomainOfRuns
  <2>7. PICK k \in DOMAIN runs'[t] : k = Len(runs[t]) + 1 /\ runs'[t][k] = run /\ \A j \in DOMAIN runs'[t] : j <= k
    BY <2>5, <2>6
  <2>8. NewestOf(t, k)'
    BY <2>3, <2>7 DEF NewestOf
  <2>9. ASSUME NEW i \in DOMAIN runs'[t], NewestOf(t, i)'
        PROVE  runs'[t][i].status # "succeeded"
    <3>1. k <= i /\ i <= k /\ i \in Nat /\ k \in Nat
      BY <2>3, <2>5, <2>6, <2>7, <2>9 DEF NewestOf
    <3> QED
      BY <2>3, <2>7, <3>1
  <2> QED
    BY <1>3, <2>7, <2>8, <2>9 DEF NewestHolds, Writing
<1>4. CASE task.reason # "backfill" /\ task.at \in Writing \ {"status"}
  <2>1. NewestOf(t, task.run) /\ runs[t][task.run].status = "partial"
    BY <1>4 DEF Reached
  <2>2. UNCHANGED runs
    BY <1>4, AssignAfter DEF Writing
  <2> QED
    BY <2>1, <2>2, PartialHolds
<1>5. CASE task.reason # "backfill" /\ task.at = "status"
  <2>1. NewestOf(t, task.run) /\ task.run \in DOMAIN runs[t]
    BY <1>5 DEF Reached, Writing
  <2>2. runs' = [runs EXCEPT ![t][task.run].status = EndStatus(task.answer, task.kind)] /\ UNCHANGED assign
    BY <1>5, AssignAfter DEF Write
  <2>3. PICK status : status = EndStatus(task.answer, task.kind)
    OBVIOUS
  <2>4. /\ DOMAIN runs'[t] = DOMAIN runs[t]
        /\ runs'[t][task.run].of = runs[t][task.run].of /\ runs'[t][task.run].status = status
        /\ \A i \in DOMAIN runs[t] \ {task.run} : runs'[t][i] = runs[t][i]
    <3>1. PICK k \in DOMAIN runs[t] : k = task.run
      BY <2>1
    <3>2. runs' = [runs EXCEPT ![t][k].status = status]
      BY <2>2, <2>3, <3>1
    <3> QED
      BY <3>1, <3>2, SetsStatus
  <2>5. \A i \in DOMAIN runs[t] : runs'[t][i].of = runs[t][i].of
    BY <2>4
  <2>6. \A i : NewestOf(t, i)' <=> NewestOf(t, i)
    BY <2>4, <2>5 DEF NewestOf
  <2>7. ASSUME NEW i \in DOMAIN runs'[t], NewestOf(t, i)', runs'[t][i].status = "succeeded"
        PROVE  HasTrustedPrimary(assign'[t])
    <3>1. i = task.run
      BY <2>1, <2>6, <2>7, OnlyNewest
    <3>2. task.answer.market \in Markets
      BY <1>5, <2>3, <2>4, <2>7, <3>1, FullSucceeds DEF Reached
    <3>3. Shown(t, task.answer.market, task.run)
      BY <1>5, <3>2 DEF Reached, Bounded
    <3> QED
      BY <2>2, <3>2, <3>3, ShownIsTrusted
  <2> QED
    BY <2>1, <2>4, <2>6, <2>7 DEF NewestHolds
<1> QED
  BY <1>1, <1>2, <1>3, <1>4, <1>5 DEF Statements, Writing

LEMMA ReachesNext ==
  ASSUME Bounded, Tables, NEW t \in Tools, NEW task \in Row, Founded(t, task), Machine(t),
         NewestHolds(t), Reached(t, task), task.at \in Statements, Write(t, task),
         NEW next \in Row, Same(task, next), next.at = Following(task),
         next.run = IF task.at = "record" THEN Len(runs[t]) + 1 ELSE task.run
  PROVE  Reached(t, next)'
<1>1. /\ next.answer = task.answer /\ next.reason = task.reason /\ next.request = task.request
      /\ next.kind = task.kind
  BY DEF Same
<1>2. Answered(task) /\ Answered(next)
  BY <1>1, FollowingTyped DEF Reached, Answered, Following, Statements
<1>3. CASE task.at = "label" \/ task.at = "profile"
  <2>1. next.at \in {"profile", "record"}
    BY <1>3 DEF Following
  <2> QED
    BY <1>2, <2>1 DEF Reached, Answered, Writing
<1>4. CASE task.at = "record"
  <2>1. PICK run : run = [status |-> Recorded(task), of |-> IF task.reason = "backfill" THEN "backfill" ELSE "full"]
    OBVIOUS
  <2>2. /\ run \in Run /\ run.status = Recorded(task)
        /\ run.of = IF task.reason = "backfill" THEN "backfill" ELSE "full"
    BY <2>1, EndsTyped DEF Recorded, Run
  <2>3. runs' = [runs EXCEPT ![t] = Append(@, run)]
    BY <1>4, <2>1 DEF Write
  <2>4. /\ DOMAIN runs'[t] = 1..(Len(runs[t]) + 1)
        /\ runs'[t][Len(runs[t]) + 1] = run
    BY <2>2, <2>3, AppendsRun
  <2>5. Len(runs[t]) \in Nat
    BY DomainOfRuns
  <2>6. /\ next.run \in DOMAIN runs'[t] /\ runs'[t][next.run] = run
        /\ \A j \in DOMAIN runs'[t] : j <= next.run
    BY <1>4, <2>4, <2>5
  <2>7. IF task.reason = "backfill" THEN runs'[t][next.run].of = "backfill" ELSE NewestOf(t, next.run)'
    BY <2>2, <2>6 DEF NewestOf
  <2>8. next.at \in {"retire", "capability", "settle"} /\ (task.answer.market # "none" => next.at = "retire")
    BY <1>4 DEF Following
  <2>9. next.at # "settle" => run.status = "partial"
    BY <1>4, <2>2, <2>8 DEF Following, Recorded, WritesRows
  <2>10. next.at = "settle" => run.status = EndStatus(next.answer, next.kind)
    BY <1>1, <1>4, <2>2, <2>8 DEF Following, Recorded
  <2> QED
    BY <1>1, <1>2, <2>6, <2>7, <2>8, <2>9, <2>10 DEF Reached, Answered, Writing
<1>5. CASE task.at \in Writing
  <2>1. next.run = task.run /\ next.at \in (Writing \ {"retire"}) \cup {"settle"}
    BY <1>5 DEF Following, Writing
  <2>2. task.run \in DOMAIN runs[t] /\ runs[t][task.run].status = "partial"
    BY <1>5 DEF Reached
  <2>3. IF task.reason = "backfill" THEN runs[t][task.run].of = "backfill" ELSE NewestOf(t, task.run)
    BY <1>5 DEF Reached
  <2>4. /\ task.run \in DOMAIN runs'[t]
        /\ task.reason = "backfill" => runs'[t][task.run].of = "backfill"
        /\ IF task.at = "status" THEN runs'[t][task.run].status = EndStatus(task.answer, task.kind)
                                 ELSE runs'[t][task.run].status = "partial"
    <3>1. CASE task.at = "status"
      <4>1. runs' = [runs EXCEPT ![t][task.run].status = EndStatus(task.answer, task.kind)]
        BY <3>1 DEF Write
      <4>2. PICK status : status = EndStatus(task.answer, task.kind)
        OBVIOUS
      <4>3. /\ DOMAIN runs'[t] = DOMAIN runs[t]
            /\ runs'[t][task.run].of = runs[t][task.run].of /\ runs'[t][task.run].status = status
        <5>1. PICK k \in DOMAIN runs[t] : k = task.run
          BY <2>2
        <5>2. runs' = [runs EXCEPT ![t][k].status = status]
          BY <4>1, <4>2, <5>1
        <5>3. /\ DOMAIN runs'[t] = DOMAIN runs[t]
              /\ runs'[t][k].of = runs[t][k].of /\ runs'[t][k].status = status
          BY <5>2, SetsStatus
        <5> QED
          BY <5>1, <5>3
      <4> QED
        BY <2>2, <2>3, <3>1, <4>2, <4>3
    <3>2. CASE task.at # "status"
      <4>1. UNCHANGED runs
        BY <1>5, <3>2, AssignAfter DEF Writing
      <4> QED
        BY <2>2, <2>3, <3>2, <4>1
    <3> QED
      BY <3>1, <3>2
  <2>5. task.reason # "backfill" => NewestOf(t, task.run)'
    BY <1>5, HoldsStay
  <2>6. next.at = "settle" <=> task.at = "status"
    BY <1>5 DEF Following, Writing
  <2>7. (/\ task.reason # "backfill" /\ next.at \in {"capability", "supersede", "status", "settle"}
         /\ task.answer.market # "none")
          => Shown(t, task.answer.market, task.run)'
    <3>1. ASSUME task.reason # "backfill", task.answer.market # "none",
                 next.at \in {"capability", "supersede", "status", "settle"}
          PROVE  Shown(t, task.answer.market, task.run)'
      <4>1. task.at # "retire"
        BY <3>1 DEF Following
      <4>2. task.at = "primary" \/ Shown(t, task.answer.market, task.run)
        BY <1>5, <3>1, <4>1 DEF Reached, Writing
      <4> QED
        BY <3>1, <4>1, <4>2, ShownAfter
    <3> QED
      BY <3>1
  <2> QED
    BY <1>1, <1>2, <2>1, <2>4, <2>5, <2>6, <2>7 DEF Reached, Answered, Writing
<1> QED
  BY <1>3, <1>4, <1>5 DEF Statements, Writing

-----------------------------------------------------------------------------
(* The steps keep what finished classifications claim.                       *)
LEMMA HoldsUnchanged ==
  ASSUME NEW t \in Tools, Machine(t), NewestHolds(t), runs'[t] = runs[t], assign'[t] = assign[t]
  PROVE  Machine(t)' /\ NewestHolds(t)'
<1>1. \A i : NewestOf(t, i)' <=> NewestOf(t, i)
  BY DEF NewestOf
<1> QED
  BY <1>1 DEF Machine, NewestHolds, HasTrustedPrimary

LEMMA ReachedUnchanged ==
  ASSUME NEW t \in Tools, NEW task, Reached(t, task), runs'[t] = runs[t], assign'[t] = assign[t]
  PROVE  Reached(t, task)'
BY DEF Reached, Answered, NewestOf, Shown

LEMMA RestsReached ==
  ASSUME NEW t, NEW task, task.at \in Idle \cup {"classify", "failing", "anomaly"},
         task.reason = "backfill" => task.request = 0
  PROVE  Reached(t, task) /\ Reached(t, task)'
BY DEF Reached, Answered, Idle, Statements, Writing

LEMMA RowsSound ==
  ASSUME \A t \in Tools : Sound(t), UNCHANGED <<assign, runs>>,
         \A w \in Workers, t \in Tools :
           work'[w][t] = work[w][t] \/ \E row : row = work'[w][t] /\ Reached(t, row)'
  PROVE  \A t \in Tools : Sound(t)'
<1>1. ASSUME NEW t \in Tools, NEW w \in Workers, NEW row, row = work'[w][t]
      PROVE  Reached(t, row)'
  <2>1. CASE work'[w][t] = work[w][t]
    <3>1. Reached(t, row)
      BY <1>1, <2>1 DEF Sound
    <3> QED
      BY <3>1, ReachedUnchanged
  <2>2. CASE \E other : other = work'[w][t] /\ Reached(t, other)'
    BY <1>1, <2>2
  <2> QED
    BY <2>1, <2>2
<1>2. ASSUME NEW t \in Tools, NEW w \in Workers
      PROVE  Reached(t, work[w][t])'
  BY <1>1 DEF Reached, Answered, NewestOf, Shown
<1>3. ASSUME NEW t \in Tools
      PROVE  Machine(t)' /\ NewestHolds(t)'
  BY <1>3, HoldsUnchanged DEF Sound
<1> QED
  BY <1>2, <1>3 DEF Sound

LEMMA BesideSound ==
  ASSUME Sounds, UNCHANGED <<assign, runs, work>>
  PROVE  \A t \in Tools : Sound(t)'
BY RowsSound DEF Sounds

LEMMA LoadsSound ==
  ASSUME Bounded, Sounds, NEW w \in Workers, Loads(w)
  PROVE  \A t \in Tools : Sound(t)'
<1>1. UNCHANGED <<assign, runs>> /\ Typed
  BY DEF Loads, LoadQueue, LoadNormal, LoadBackfill, toolVars, Sounds
<1>2. ASSUME NEW t \in Tools
      PROVE  work'[w][t] = work[w][t] \/ \E row : row = work'[w][t] /\ Reached(t, row)'
  <2>1. PICK row : row = work'[w][t]
    OBVIOUS
  <2>2. \/ row = work[w][t]
        \/ row = NoTask
        \/ row.at = "waiting" /\ (row.reason \in {"queued", "normal"} \/ row.request = 0)
    BY <1>1, <2>1, LoadsTyped DEF Loads
  <2>3. ASSUME row # work[w][t]
        PROVE  row.at \in Idle /\ (row.reason = "backfill" => row.request = 0)
    BY <2>2, <2>3, NothingTyped DEF Idle
  <2> QED
    BY <2>1, <2>3, RestsReached
<1>3. \A v \in Workers \ {w} : work'[v] = work[v]
  BY <1>1, LoadsTyped DEF Loads
<1> QED
  BY <1>1, <1>2, <1>3, RowsSound DEF Sounds

LEMMA HaltsSound ==
  ASSUME Bounded, Sounds, NEW w \in Workers, Halts(w)
  PROVE  \A t \in Tools : Sound(t)'
<1>1. /\ UNCHANGED <<assign, runs>>
      /\ work' = [work EXCEPT ![w] = [t \in Tools |-> NoTask]] /\ work \in [Workers -> [Tools -> Row]]
  BY HaltsTyped DEF Sounds, Typed, toolVars
<1>2. PICK row : row = NoTask
  OBVIOUS
<1>3. \A t \in Tools : Reached(t, row)'
  BY <1>2, NothingTyped, RestsReached DEF Idle
<1>4. \A v \in Workers, t \in Tools : work'[v][t] = work[v][t] \/ work'[v][t] = row
  BY <1>1, <1>2
<1> QED
  BY <1>1, <1>3, <1>4, RowsSound DEF Sounds

LEMMA RowSound ==
  ASSUME Sounds, UNCHANGED <<assign, runs>>, NEW w \in Workers, NEW t \in Tools, NEW next,
         Moves(w, t, next), Reached(t, next)'
  PROVE  \A u \in Tools : Sound(u)'
<1>1. \A v \in Workers, u \in Tools :
        work'[v][u] = work[v][u] \/ \E row : row = work'[v][u] /\ Reached(u, row)'
  <2>1. /\ work'[w][t] = next
        /\ \A v \in Workers, u \in Tools : v # w \/ u # t => work'[v][u] = work[v][u]
    BY MovesAt DEF Sounds
  <2> QED
    BY <2>1
<1> QED
  BY <1>1, RowsSound DEF Sounds

LEMMA NothingReached ==
  ASSUME NEW t
  PROVE  Reached(t, NoTask)'
<1>1. PICK row : row = NoTask
  OBVIOUS
<1>2. Reached(t, row)'
  BY <1>1, NothingTyped, RestsReached DEF Idle
<1> QED
  BY <1>1, <1>2

LEMMA BeginsSound ==
  ASSUME Bounded, Sounds, NEW w \in Workers, NEW t \in Tools, Begin(w, t)
  PROVE  \A u \in Tools : Sound(u)'
<1>1. PICK task : task = work[w][t]
  OBVIOUS
<1>2. Reached(t, task) /\ Typed /\ UNCHANGED <<assign, runs>>
  BY <1>1 DEF Sounds, Sound, Begin, toolVars
<1>3. \/ Moves(w, t, NoTask)
      \/ \E next \in Row : /\ Moves(w, t, next)
                           /\ next.at = "classify" /\ next.reason = task.reason /\ next.request = task.request
  BY <1>1, <1>2, BeginsTyped DEF Gone
<1>4. CASE Moves(w, t, NoTask)
  BY <1>2, <1>4, NothingReached, RowSound
<1>5. ASSUME NEW next \in Row, Moves(w, t, next),
             next.at = "classify", next.reason = task.reason, next.request = task.request
      PROVE  \A u \in Tools : Sound(u)'
  <2>1. next.reason = "backfill" => next.request = 0
    BY <1>2, <1>5 DEF Reached, Answered
  <2>2. Reached(t, next)'
    BY <1>5, <2>1, RestsReached
  <2> QED
    BY <1>2, <1>5, <2>2, RowSound
<1> QED
  BY <1>3, <1>4, <1>5

LEMMA ClassifiesSound ==
  ASSUME Bounded, Sounds, NEW w \in Workers, NEW t \in Tools, Classify(w, t)
  PROVE  \A u \in Tools : Sound(u)'
<1>1. PICK task : task = work[w][t]
  OBVIOUS
<1>2. Reached(t, task) /\ Typed /\ UNCHANGED <<assign, runs>>
  BY <1>1 DEF Sounds, Sound, Classify, toolVars
<1>3. PICK next \in Row :
        /\ Moves(w, t, next) /\ next.reason = task.reason /\ next.request = task.request
        /\ IF task.reason = "backfill" THEN next.at = "record" /\ next.answer \in CapabilityOnly
                                       ELSE next.at = "label" /\ next.answer \in Answers
  BY <1>1, <1>2, ClassifiesTyped
<1>4. Answered(next)
  <2>1. CASE task.reason = "backfill"
    <3>1. next.answer.outcome = "backfill" /\ next.answer.market = "none"
      BY <1>3, <2>1, CapabilityTyped
    <3> QED
      BY <1>2, <1>3, <2>1, <3>1 DEF Reached, Answered
  <2>2. CASE task.reason # "backfill"
    <3>1. /\ next.answer.outcome \notin {"none", "backfill"}
          /\ next.answer.outcome = "accepted" <=> next.answer.market # "none"
      BY <1>3, <2>2, AnswersTyped
    <3> QED
      BY <1>3, <2>2, <3>1 DEF Answered
  <2> QED
    BY <2>1, <2>2
<1>5. next.at \notin Writing \cup {"settle"}
  BY <1>3 DEF Writing
<1>6. Reached(t, next)'
  BY <1>4, <1>5 DEF Reached, Answered, Writing
<1> QED
  BY <1>2, <1>3, <1>6, RowSound

LEMMA EndingsSound ==
  ASSUME Bounded, Sounds, NEW w \in Workers, NEW t \in Tools, Ending(w, t)
  PROVE  \A u \in Tools : Sound(u)'
<1>1. PICK task : task = work[w][t]
  OBVIOUS
<1>2. Reached(t, task) /\ Typed
  BY <1>1 DEF Sounds, Sound
<1>3. /\ UNCHANGED <<assign, runs>>
      /\ \/ Moves(w, t, NoTask)
         \/ \E next \in Row : Moves(w, t, next) /\ next.at = "anomaly" /\ Same(task, next)
  BY <1>1, <1>2, EndingsTyped DEF Gone, toolVars
<1>4. CASE Moves(w, t, NoTask)
  BY <1>3, <1>4, NothingReached, RowSound
<1>5. ASSUME NEW next \in Row, Moves(w, t, next), next.at = "anomaly", Same(task, next)
      PROVE  \A u \in Tools : Sound(u)'
  <2>1. next.reason = "backfill" => next.request = 0
    BY <1>2, <1>5 DEF Reached, Answered, Same
  <2>2. Reached(t, next)'
    BY <1>5, <2>1, RestsReached
  <2> QED
    BY <1>3, <1>5, <2>2, RowSound
<1> QED
  BY <1>3, <1>4, <1>5

LEMMA WritesElsewhere ==
  ASSUME Tables, NEW t \in Tools, NEW task, Write(t, task) \/ UNCHANGED toolVars, NEW u \in Tools, u # t
  PROVE  runs'[u] = runs[u] /\ assign'[u] = assign[u]
BY DEF Write, SetAssign, Tables, toolVars

LEMMA WritesSound ==
  ASSUME Bounded, OneWorker, Sounds, NEW w \in Workers, NEW t \in Tools, Writes(w, t)
  PROVE  \A u \in Tools : Sound(u)'
<1>1. PICK task : task = work[w][t]
  OBVIOUS
<1>2. /\ task \in Row /\ Founded(t, task) /\ Typed /\ Tables
      /\ Machine(t) /\ NewestHolds(t) /\ Reached(t, task)
  BY <1>1, RowTyped DEF Sounds, Sound, Typed
<1>3. PICK at \in {"failing", Following(task)} :
        /\ task.at \in Statements
        /\ Write(t, task) \/ (at = "failing" /\ UNCHANGED toolVars)
        /\ IF at \in {"settle", "failing"} /\ task.request = 0 THEN Moves(w, t, NoTask)
           ELSE \E next \in Row :
                  /\ Moves(w, t, next) /\ next.at = at /\ Same(task, next)
                  /\ next.run = IF task.at = "record" /\ at # "failing" THEN Len(runs[t]) + 1 ELSE task.run
  BY <1>1, <1>2, StatementsTyped DEF Writes, Gone
<1>4. Machine(t)' /\ NewestHolds(t)'
  <2>1. CASE Write(t, task)
    BY <1>2, <1>3, <2>1, MachineStays, HoldsStay
  <2>2. CASE UNCHANGED toolVars
    BY <1>2, <2>2, HoldsUnchanged DEF toolVars
  <2> QED
    BY <1>3, <2>1, <2>2
<1>5. PICK next : Moves(w, t, next) /\ Reached(t, next)'
  <2>1. CASE Moves(w, t, NoTask)
    BY <2>1, NothingReached
  <2>2. ASSUME NEW next \in Row, Moves(w, t, next), next.at = at, Same(task, next),
               next.run = IF task.at = "record" /\ at # "failing" THEN Len(runs[t]) + 1 ELSE task.run
        PROVE  Reached(t, next)'
    <3>1. CASE at = "failing"
      <4>1. next.reason = "backfill" => next.request = 0
        BY <1>2, <2>2 DEF Reached, Answered, Same
      <4> QED
        BY <2>2, <3>1, <4>1, RestsReached
    <3>2. CASE at # "failing"
      <4>1. /\ Write(t, task) /\ next.at = Following(task)
            /\ next.run = IF task.at = "record" THEN Len(runs[t]) + 1 ELSE task.run
        BY <1>3, <2>2, <3>2
      <4> QED
        BY <1>2, <1>3, <2>2, <4>1, ReachesNext
    <3> QED
      BY <3>1, <3>2
  <2> QED
    BY <1>3, <2>1, <2>2
<1>6. /\ work'[w][t] = next
      /\ \A v \in Workers, u \in Tools : v # w \/ u # t => work'[v][u] = work[v][u]
  BY <1>2, <1>5, MovesAt
<1>7. ASSUME NEW v \in Workers, NEW u \in Tools, NEW row, row = work'[v][u]
      PROVE  Reached(u, row)'
  <2>1. CASE u = t
    <3>1. row = next
      BY <1>6, <1>7, <2>1 DEF OneWorker
    <3> QED
      BY <1>5, <2>1, <3>1
  <2>2. CASE u # t
    <3>1. Reached(u, row)
      BY <1>6, <1>7, <2>2 DEF Sounds, Sound
    <3>2. runs'[u] = runs[u] /\ assign'[u] = assign[u]
      BY <1>2, <1>3, <2>2, WritesElsewhere
    <3> QED
      BY <3>1, <3>2, ReachedUnchanged
  <2> QED
    BY <2>1, <2>2
<1>8. ASSUME NEW v \in Workers, NEW u \in Tools
      PROVE  Reached(u, work[v][u])'
  BY <1>7 DEF Reached, Answered, NewestOf, Shown
<1>9. ASSUME NEW u \in Tools
      PROVE  Machine(u)' /\ NewestHolds(u)'
  <2>1. CASE u = t
    BY <1>4, <2>1
  <2>2. CASE u # t
    <3>1. runs'[u] = runs[u] /\ assign'[u] = assign[u]
      BY <1>2, <1>3, <2>2, WritesElsewhere
    <3> QED
      BY <3>1, HoldsUnchanged DEF Sounds, Sound
  <2> QED
    BY <2>1, <2>2
<1> QED
  BY <1>8, <1>9 DEF Sound

LEMMA InitiallySound ==
  ASSUME Bounded, Init
  PROVE  Sounds
<1>1. Typed
  BY Initially
<1>2. PICK row : row = NoTask /\ row.at = "none" /\ row.reason = "none"
  BY NothingTyped
<1>3. ASSUME NEW t \in Tools, NEW w \in Workers
      PROVE  Reached(t, work[w][t])
  <2>1. work[w][t] = row
    BY <1>2 DEF Init
  <2> QED
    BY <1>2, <2>1, RestsReached DEF Idle
<1>4. ASSUME NEW t \in Tools
      PROVE  Machine(t) /\ NewestHolds(t)
  <2>1. CASE t \in Classified
    <3>1. PICK m \in Markets : m = CHOOSE x \in Markets : TRUE
      BY DEF Bounded
    <3>2. assign[t] = Accepted(m)
      BY <2>1, <3>1 DEF Init
    <3>3. Shown(t, m, 1) /\ \A x \in Terms \ {m} : assign[t][x] = NoRow
      BY <3>2, AcceptedTyped DEF Shown
    <3>4. Machine(t)
      BY <3>3 DEF Shown, NoRow, Machine
    <3> QED
      <4>1. PICK run, older : /\ run = [status |-> "succeeded", of |-> "full"]
                              /\ older = [status |-> "skipped", of |-> "older"]
        OBVIOUS
      <4>2. runs[t] = <<run>> \/ runs[t] = <<older>>
        BY <2>1, <4>1 DEF Init
      <4>3. run.of = "full" /\ older.of = "older"
        BY <4>1
      <4>4. DOMAIN runs[t] = {1} /\ (runs[t][1].of = "full" => NewestOf(t, 1))
        BY <4>2, <4>3 DEF NewestOf
      <4>5. HasTrustedPrimary(assign[t])
        BY <3>3, ShownIsTrusted
      <4> QED
        BY <3>4, <4>4, <4>5 DEF NewestHolds
  <2>2. CASE t \notin Classified
    <3>1. assign[t] = NoRows
      BY <2>2 DEF Init
    <3>2. Machine(t)
      BY <3>1 DEF NoRows, NoRow, Machine
    <3>3. \A i \in DOMAIN runs[t] : runs[t][i].of # "full"
      <4>1. PICK run : run = [status |-> "skipped", of |-> "older"]
        OBVIOUS
      <4>2. runs[t] = <<run>> \/ runs[t] = <<>>
        BY <2>2, <4>1 DEF Init
      <4> QED
        BY <4>1, <4>2
    <3> QED
      BY <3>2, <3>3 DEF NewestHolds, NewestOf
  <2> QED
    BY <2>1, <2>2
<1> QED
  BY <1>1, <1>3, <1>4 DEF Sounds, Sound

LEMMA SoundsStay ==
  ASSUME Bounded, OneWorker, Sounds, [Next]_shadowVars
  PROVE  Sounds'
<1>1. Typed'
  BY TypedStays DEF Sounds
<1>2. CASE UNCHANGED shadowVars
  BY <1>1, <1>2, BesideSound DEF Sounds, shadowVars, toolVars
<1>3. CASE Beside /\ UNCHANGED restVars
  BY <1>1, <1>3, BesideSound DEF Sounds, restVars, toolVars
<1>4. ASSUME NEW r \in Requests, RequestLeaseExpires(r)
      PROVE  Sounds'
  BY <1>1, <1>4, BesideSound DEF Sounds, RequestLeaseExpires, toolVars
<1>5. ASSUME NEW t \in Tools, Approve(t)
      PROVE  Sounds'
  BY <1>1, <1>5, BesideSound DEF Sounds, Approve, toolVars
<1>6. ASSUME NEW w \in Workers, NEW t \in Tools,
             Begin(w, t) \/ Classify(w, t) \/ Writes(w, t) \/ Ending(w, t)
      PROVE  Sounds'
  BY <1>1, <1>6, BeginsSound, ClassifiesSound, WritesSound, EndingsSound DEF Sounds
<1>7. ASSUME NEW w \in Workers, Loads(w) \/ Halts(w)
      PROVE  Sounds'
  BY <1>1, <1>7, LoadsSound, HaltsSound DEF Sounds
<1> QED
  BY <1>2, <1>3, <1>4, <1>5, <1>6, <1>7, StepKinds

LEMMA PrimariesHold ==
  ASSUME Bounded, Sounds
  PROVE  SuccessHasPrimary
<1>1. SUFFICES ASSUME NEW t \in Tools, NEW full, full = {i \in DOMAIN runs[t] : runs[t][i].of = "full"}, full # {},
                      runs[t][CHOOSE i \in full : \A j \in full : j <= i].status = "succeeded"
               PROVE  HasTrustedPrimary(assign[t])
  BY DEF SuccessHasPrimary
<1>2. NewestHolds(t)
  BY DEF Sounds, Sound
<1>3. \E i \in full : \A j \in full : j <= i
  BY <1>1, <1>2 DEF NewestHolds, NewestOf
<1>4. PICK k : k = CHOOSE i \in full : \A j \in full : j <= i
  OBVIOUS
<1>5. k \in full /\ \A j \in full : j <= k
  BY <1>3, <1>4
<1>6. k \in DOMAIN runs[t] /\ NewestOf(t, k)
  BY <1>1, <1>5 DEF NewestOf
<1> QED
  BY <1>1, <1>2, <1>4, <1>6 DEF NewestHolds

(* Where one worker writes, a tool whose newest full run says it succeeded   *)
(* has the primary of that run, wherever a statement raises or the process   *)
(* stops between the rows of a result: the run is inserted as partial, and   *)
(* update_classification_run_status comes last (run_shadow_taxonomy).        *)
THEOREM SuccessesHavePrimaries ==
  ASSUME Bounded, OneWorker
  PROVE  Spec => []SuccessHasPrimary
<1>1. Init => Sounds
  BY InitiallySound
<1>2. Sounds /\ [Next]_shadowVars => Sounds'
  BY SoundsStay
<1>3. Sounds => SuccessHasPrimary
  BY PrimariesHold
<1> QED
  BY <1>1, <1>2, <1>3, PTL DEF Spec

-----------------------------------------------------------------------------
(* A candidate that is resolved is repaired.                                 *)
Keeps(t) == FullsStay(t) /\ \A m \in Markets : assign'[t][m] = assign[t][m]

LEMMA UnchangedKeeps ==
  ASSUME NEW t \in Tools, runs'[t] = runs[t], assign'[t] = assign[t]
  PROVE  Keeps(t)
BY DEF Keeps, FullsStay

LEMMA RepairStays ==
  ASSUME NEW t \in Tools, NEW r, Repaired(t, r), Keeps(t),
         requests'[r].status = requests[r].status, requests'[r].tool = requests[r].tool,
         requests'[r].run = requests[r].run
  PROVE  Repaired(t, r)'
<1>1. /\ requests[r].run \in DOMAIN runs[t]
      /\ runs[t][requests[r].run].status = "succeeded" /\ runs[t][requests[r].run].of = "full"
  BY DEF Repaired
<1>2. requests[r].run \in DOMAIN runs'[t] /\ runs'[t][requests[r].run] = runs[t][requests[r].run]
  BY <1>1 DEF Keeps, FullsStay
<1>3. PICK m, run : m \in Markets /\ run = requests[r].run /\ Shown(t, m, run)
  BY DEF Repaired
<1>4. Shown(t, m, run)'
  BY <1>3 DEF Keeps, Shown
<1> QED
  BY <1>1, <1>2, <1>3, <1>4 DEF Repaired, Shown

LEMMA RepairNarrows ==
  ASSUME Narrows, NEW t \in Tools, NEW r, Repaired(t, r), Keeps(t)
  PROVE  Repaired(t, r)'
<1>1. r \in Requests /\ requests[r].status = "succeeded"
  BY DEF Repaired
<1>2. /\ requests'[r].status = requests[r].status /\ requests'[r].tool = requests[r].tool
      /\ requests'[r].run = requests[r].run
  BY <1>1 DEF Narrows, RequestsStay, Settled
<1> QED
  BY <1>2, RepairStays

LEMMA ResolvedStays ==
  ASSUME Narrows, NEW t \in Tools, Resolved(t), Spared(t),
         candidates[t].status = "resolved" =>
           Keeps(t) /\ \A w \in Workers : work'[w][t].at # "none" => work'[w][t].reason = "backfill"
  PROVE  Resolved(t)'
<1>1. SUFFICES ASSUME candidates'[t].status = "resolved"
               PROVE  (/\ Repaired(t, candidates[t].request) /\ Quiet(t)
                       /\ \A w \in Workers : work[w][t].at # "none" => work[w][t].reason = "backfill")'
  BY DEF Resolved
<1>2. candidates[t].status = "resolved" /\ candidates'[t].request = candidates[t].request
  BY <1>1 DEF Spared
<1>3. PICK r : r = candidates[t].request
  OBVIOUS
<1>4. Repaired(t, r)' /\ Quiet(t)'
  BY <1>2, <1>3, RepairNarrows, QuietStays DEF Resolved
<1> QED
  BY <1>2, <1>3, <1>4 DEF Repaired

(* A row that is to tell a candidate keeps its request, and what answers it. *)
LEMMA TellingStays ==
  ASSUME Bounded, Approved, Narrows, NEW w \in Workers, NEW t \in Tools, Telling(t, work[w][t]),
         NEW row, row.request = work[w][t].request,
         row.at = "anomaly" => work[w][t].at = "anomaly" /\ Keeps(t)
  PROVE  Telling(t, row)'
<1>1. SUFFICES ASSUME row.at = "anomaly", requests'[row.request].status = "succeeded"
               PROVE  Repaired(t, row.request)'
  BY DEF Telling
<1>2. PICK task : task = work[w][t]
  OBVIOUS
<1>3. task \in Row /\ Founded(t, task) /\ task.at = "anomaly" /\ Quiet(t)
  BY <1>1, <1>2, RowTyped DEF Approved, Told
<1>4. PICK r \in Requests : r = row.request /\ r = task.request
  BY <1>2, <1>3 DEF Founded, Row
<1>5. requests[r].tool = t /\ requests[r].status # "none"
  BY <1>3, <1>4 DEF Founded, Bounded
<1>6. requests[r].status \in Active \cup Settled \cup {"none"}
  BY DEF Approved, Typed, Tables, Request
<1>7. requests[r].status \in Settled
  BY <1>3, <1>5, <1>6 DEF Quiet
<1>8. requests[r].status = "succeeded"
  BY <1>1, <1>4, <1>7 DEF Narrows
<1>9. Repaired(t, r)
  BY <1>1, <1>2, <1>4, <1>8 DEF Telling
<1>10. Repaired(t, r)'
  BY <1>1, <1>9, RepairNarrows
<1> QED
  BY <1>4, <1>10

(* Steps that tell no candidate and complete no request.                     *)
LEMMA RepairingSteps ==
  ASSUME Bounded, Repairing, Narrows, Approved', \A t \in Tools : Sound(t)',
         \A t \in Tools : Spared(t),
         \A t \in Tools : candidates[t].status = "resolved" =>
           Keeps(t) /\ \A w \in Workers : work'[w][t].at # "none" => work'[w][t].reason = "backfill",
         \A w \in Workers, t \in Tools :
           work'[w][t].at = "anomaly" => work'[w][t] = work[w][t] /\ Keeps(t)
  PROVE  Repairing'
<1>1. \A t \in Tools : Resolved(t)'
  BY ResolvedStays DEF Repairing
<1>2. ASSUME NEW w \in Workers, NEW t \in Tools, NEW row, row = work'[w][t]
      PROVE  Telling(t, row)'
  <2>1. CASE row.at = "anomaly"
    <3>1. Telling(t, work[w][t]) /\ row.request = work[w][t].request /\ work[w][t].at = "anomaly" /\ Keeps(t)
      BY <1>2, <2>1 DEF Repairing
    <3> QED
      BY <3>1, TellingStays DEF Repairing
  <2>2. CASE row.at # "anomaly"
    BY <2>2 DEF Telling
  <2> QED
    BY <2>1, <2>2
<1>3. ASSUME NEW w \in Workers, NEW t \in Tools
      PROVE  Telling(t, work[w][t])'
  BY <1>2 DEF Telling, Repaired, Shown
<1> QED
  BY <1>1, <1>3 DEF Repairing

LEMMA OtherRows ==
  ASSUME Bounded, OneWorker, Repairing, NEW w \in Workers, NEW t \in Tools, NEW next,
         Moves(w, t, next), Narrows, Approved', \A u \in Tools : Sound(u)' /\ Spared(u),
         \A u \in Tools \ {t} : Keeps(u),
         candidates[t].status = "resolved" => Keeps(t), next.at # "anomaly",
         next = NoTask \/ (next.reason = work[w][t].reason /\ work[w][t].at # "none")
  PROVE  Repairing'
<1>1. /\ work'[w][t] = next
      /\ \A v \in Workers, u \in Tools : v # w \/ u # t => work'[v][u] = work[v][u]
  BY MovesAt DEF Repairing, Approved
<1>2. ASSUME NEW u \in Tools, candidates[u].status = "resolved", NEW v \in Workers, work'[v][u].at # "none"
      PROVE  work'[v][u].reason = "backfill"
  <2>1. \A x \in Workers : work[x][u].at # "none" => work[x][u].reason = "backfill"
    BY <1>2 DEF Repairing, Resolved
  <2>2. CASE v = w /\ u = t
    BY <1>1, <1>2, <2>1, <2>2, NothingAt
  <2>3. CASE v # w \/ u # t
    BY <1>1, <1>2, <2>1, <2>3
  <2> QED
    BY <2>2, <2>3
<1>3. ASSUME NEW v \in Workers, NEW u \in Tools, work'[v][u].at = "anomaly"
      PROVE  work'[v][u] = work[v][u] /\ Keeps(u)
  <2>1. u # t
    BY <1>1, <1>3 DEF OneWorker
  <2> QED
    BY <1>1, <2>1
<1>4. \A u \in Tools : candidates[u].status = "resolved" => Keeps(u)
  OBVIOUS
<1> QED
  BY <1>2, <1>3, <1>4, RepairingSteps

LEMMA RowsRepair ==
  ASSUME Bounded, OneWorker, Repairing, NEW w \in Workers, NEW t \in Tools,
         Begin(w, t) \/ Classify(w, t) \/ Writes(w, t)
  PROVE  Repairing'
<1>1. PICK task : task = work[w][t]
  OBVIOUS
<1>2. /\ task \in Row /\ Founded(t, task) /\ Typed /\ Tables /\ Approved /\ Sounds
      /\ Machine(t) /\ Reached(t, task)
  BY <1>1, RowTyped DEF Repairing, Approved, Typed, Sounds, Sound
<1>3. Approved' /\ \A u \in Tools : Sound(u)'
  BY <1>2, RowsApproved, BeginsSound, ClassifiesSound, WritesSound
<1>4. UNCHANGED candidates /\ \A u \in Tools : Spared(u)
  <2>1. UNCHANGED candidates
    BY DEF Begin, Classify, Writes, Statement, StatementRaises, scanVars
  <2> QED
    BY <2>1, UnchangedSpare
<1>5. /\ Narrows /\ task.at # "none"
      /\ \E next : /\ Moves(w, t, next) /\ next.at # "anomaly"
                   /\ next = NoTask \/ next.reason = task.reason
      /\ UNCHANGED <<runs, assign>>
         \/ (task.at \in Statements /\ (Write(t, task) \/ UNCHANGED toolVars))
  <2>1. CASE Begin(w, t)
    <3>1. task.at # "none" /\ UNCHANGED <<runs, assign>>
      BY <1>1, <2>1 DEF Begin, toolVars
    <3> QED
      BY <1>1, <1>2, <2>1, <3>1, BeginsTyped, NothingAt DEF Gone
  <2>2. CASE Classify(w, t)
    <3>1. task.at # "none" /\ UNCHANGED <<runs, assign, requests>>
      BY <1>1, <2>2 DEF Classify, toolVars
    <3> QED
      BY <1>1, <1>2, <2>2, <3>1, ClassifiesTyped, UnchangedNarrow
  <2>3. CASE Writes(w, t)
    <3>1. PICK at \in {"failing", Following(task)} :
            /\ task.at \in Statements /\ UNCHANGED requests
            /\ Write(t, task) \/ UNCHANGED toolVars
            /\ IF at \in {"settle", "failing"} /\ task.request = 0 THEN Gone(w, t)
               ELSE \E next \in Row : Moves(w, t, next) /\ next.at = at /\ Same(task, next)
      BY <1>1, <1>2, <2>3, StatementsTyped DEF Writes
    <3>2. at # "anomaly"
      BY <1>2, <3>1, FollowingTyped DEF Steps, Statements
    <3>3. task.at # "none"
      BY <3>1 DEF Statements
    <3>4. \E next : /\ Moves(w, t, next) /\ next.at # "anomaly"
                    /\ next = NoTask \/ next.reason = task.reason
      BY <3>1, <3>2, NothingAt DEF Gone, Same
    <3> QED
      BY <3>1, <3>3, <3>4, UnchangedNarrow
  <2> QED
    BY <2>1, <2>2, <2>3
<1>6. \A u \in Tools \ {t} : Keeps(u)
  <2>1. ASSUME NEW u \in Tools \ {t}
        PROVE  runs'[u] = runs[u] /\ assign'[u] = assign[u]
    BY <1>2, <1>5, WritesElsewhere
  <2> QED
    BY <2>1, UnchangedKeeps
<1>7. ASSUME candidates[t].status = "resolved"
      PROVE  Keeps(t)
  <2>1. task.reason = "backfill"
    BY <1>1, <1>5, <1>7 DEF Repairing, Resolved
  <2>2. CASE task.at \in Statements /\ Write(t, task)
    BY <1>2, <2>1, <2>2, BackfillWrites DEF Keeps
  <2>3. CASE UNCHANGED <<runs, assign>>
    BY <2>3, UnchangedKeeps
  <2> QED
    BY <1>5, <2>2, <2>3 DEF toolVars
<1>8. PICK next : /\ Moves(w, t, next) /\ next.at # "anomaly"
                  /\ next = NoTask \/ next.reason = task.reason
  BY <1>5
<1> QED
  BY <1>1, <1>3, <1>4, <1>5, <1>6, <1>7, <1>8, OtherRows

LEMMA AllKept ==
  ASSUME UNCHANGED <<runs, assign>>
  PROVE  \A t \in Tools : Keeps(t)
BY UnchangedKeeps

LEMMA BesideRepair ==
  ASSUME Bounded, Repairing, Approved', UNCHANGED <<runs, assign, work>>, Narrows,
         \A t \in Tools : Spared(t)
  PROVE  Repairing'
<1>1. \A t \in Tools : Sound(t)'
  BY BesideSound DEF Repairing, Approved, Sounds
<1>2. \A t \in Tools : candidates[t].status = "resolved" =>
        \A w \in Workers : work'[w][t].at # "none" => work'[w][t].reason = "backfill"
  BY DEF Repairing, Resolved
<1> QED
  BY <1>1, <1>2, AllKept, RepairingSteps

(* A repaired tool has no request to be loaded, and a run that ended.         *)
LEMMA LoadsRepair ==
  ASSUME Bounded, Repairing, NEW w \in Workers, Loads(w)
  PROVE  Repairing'
<1>1. Typed /\ Sounds /\ Approved /\ UNCHANGED <<runs, assign, candidates, requests>>
  BY DEF Repairing, Approved, Sounds, Loads, LoadQueue, LoadNormal, LoadBackfill, toolVars, scanVars
<1>2. Approved' /\ \A t \in Tools : Sound(t)' /\ Spared(t) /\ Keeps(t)
  BY <1>1, LoadsApproved, LoadsSound, AllKept, UnchangedSpare
<1>3. ASSUME NEW t \in Tools
      PROVE  \/ work'[w][t] = work[w][t]
             \/ work'[w][t] = NoTask
             \/ /\ work'[w][t].at = "waiting"
                /\ \/ \E r \in QueuedRows : requests[r].tool = t
                   \/ Wanted(t)
                   \/ work'[w][t].reason = "backfill"
  BY <1>1, LoadsTyped DEF Loads
<1>4. ASSUME NEW t \in Tools, candidates[t].status = "resolved", NEW v \in Workers, work'[v][t].at # "none"
      PROVE  work'[v][t].reason = "backfill"
  <2>1. PICK r : Repaired(t, r)
    BY <1>4 DEF Repairing, Resolved
  <2>2. Quiet(t) /\ \A x \in Workers : work[x][t].at # "none" => work[x][t].reason = "backfill"
    BY <1>4 DEF Repairing, Resolved
  <2>3. ~Wanted(t)
    <3>1. Ended(t, {"full", "backfill"} \cup (IF Recheck(t) THEN {} ELSE {"older"}))
      BY <2>1 DEF Repaired, Ended
    <3> QED
      BY <3>1 DEF Wanted
  <2>4. ~\E q \in QueuedRows : requests[q].tool = t
    BY <2>2 DEF QueuedRows, Loadable, Free, Quiet, Active
  <2>5. CASE v = w
    BY <1>3, <1>4, <2>2, <2>3, <2>4, <2>5, NothingAt
  <2>6. CASE v # w
    <3>1. work'[v] = work[v]
      BY <1>1, <2>6, LoadsTyped DEF Loads
    <3> QED
      BY <1>4, <2>2, <3>1
  <2> QED
    BY <2>5, <2>6
<1>5. ASSUME NEW v \in Workers, NEW t \in Tools, work'[v][t].at = "anomaly"
      PROVE  work'[v][t] = work[v][t]
  <2>1. CASE v = w
    BY <1>3, <1>5, <2>1, NothingAt
  <2>2. CASE v # w
    <3>1. work'[v] = work[v]
      BY <1>1, <2>2, LoadsTyped DEF Loads
    <3> QED
      BY <3>1
  <2> QED
    BY <2>1, <2>2
<1> QED
  BY <1>1, <1>2, <1>4, <1>5, UnchangedNarrow, RepairingSteps

LEMMA HaltsRepair ==
  ASSUME Bounded, Repairing, NEW w \in Workers, Halts(w)
  PROVE  Repairing'
<1>1. Typed /\ Sounds /\ Approved /\ work \in [Workers -> [Tools -> Row]]
  BY DEF Repairing, Approved, Sounds, Typed
<1>2. /\ Narrows /\ UNCHANGED <<runs, assign, candidates>>
      /\ work' = [work EXCEPT ![w] = [t \in Tools |-> NoTask]]
  BY <1>1, HaltsTyped DEF toolVars, scanVars
<1>3. Approved' /\ \A t \in Tools : Sound(t)' /\ Spared(t) /\ Keeps(t)
  BY <1>1, <1>2, HaltsApproved, HaltsSound, AllKept, UnchangedSpare
<1>4. \A v \in Workers, t \in Tools : work'[v][t] = work[v][t] \/ work'[v][t] = NoTask
  BY <1>1, <1>2
<1>5. ASSUME NEW t \in Tools, candidates[t].status = "resolved", NEW v \in Workers, work'[v][t].at # "none"
      PROVE  work'[v][t].reason = "backfill"
  BY <1>4, <1>5, NothingAt DEF Repairing, Resolved
<1>6. \A v \in Workers, t \in Tools : work'[v][t].at = "anomaly" => work'[v][t] = work[v][t]
  BY <1>4, NothingAt
<1> QED
  BY <1>2, <1>3, <1>5, <1>6, RepairingSteps

LEMMA ApprovesRepair ==
  ASSUME Bounded, Repairing, NEW t \in Tools, Approve(t), Apart(t)
  PROVE  Repairing'
<1>1. Typed /\ Approved /\ Sounds
  BY DEF Repairing, Approved, Sounds
<1>2. /\ UNCHANGED <<runs, assign, work>>
      /\ \A u \in Tools \ {t} : candidates'[u] = candidates[u]
      /\ candidates'[t].status = "approved"
  BY <1>1, ApprovesTyped DEF toolVars
<1>3. PICK r \in Requests :
        /\ requests[r].status = "none" /\ requests'[r].status = "queued" /\ requests'[r].tool = t
        /\ \A q \in Requests \ {r} : requests'[q] = requests[q]
  BY <1>1, ApprovesTyped
<1>4. Approved' /\ \A u \in Tools : Sound(u)' /\ Keeps(u)
  BY <1>1, <1>2, ApprovesApproved, BesideSound, AllKept
<1>5. ASSUME NEW u \in Tools, NEW q, Repaired(u, q)
      PROVE  Repaired(u, q)'
  <2>1. q \in Requests /\ q # r
    BY <1>3, <1>5 DEF Repaired
  <2>2. requests'[q] = requests[q]
    BY <1>3, <2>1
  <2> QED
    BY <1>4, <1>5, <2>2, RepairStays
<1>6. ASSUME NEW u \in Tools
      PROVE  Resolved(u)'
  <2>1. CASE u = t
    BY <1>2, <2>1 DEF Resolved
  <2>2. CASE u # t
    <3>1. SUFFICES ASSUME candidates[u].status = "resolved"
                   PROVE  (/\ Repaired(u, candidates[u].request) /\ Quiet(u)
                           /\ \A w \in Workers : work[w][u].at # "none" => work[w][u].reason = "backfill")'
      BY <1>2, <2>2 DEF Resolved
    <3>2. PICK q : q = candidates[u].request /\ q = candidates'[u].request
      BY <1>2, <2>2
    <3>3. Repaired(u, q)'
      BY <1>5, <3>1, <3>2 DEF Repairing, Resolved
    <3>4. Quiet(u)'
      BY <1>3, <2>2, <3>1 DEF Repairing, Resolved, Quiet
    <3>5. \A w \in Workers : work'[w][u].at # "none" => work'[w][u].reason = "backfill"
      BY <1>2, <3>1 DEF Repairing, Resolved
    <3> QED
      BY <3>2, <3>3, <3>4, <3>5 DEF Repaired, Shown
  <2> QED
    BY <2>1, <2>2
<1>7. ASSUME NEW w \in Workers, NEW u \in Tools, NEW task, task = work[w][u]
      PROVE  Telling(u, task)'
  <2>1. SUFFICES ASSUME task.at = "anomaly", requests'[task.request].status = "succeeded"
                 PROVE  Repaired(u, task.request)'
    BY DEF Telling
  <2>2. PICK q : q = task.request
    OBVIOUS
  <2>3. task \in Row /\ Founded(u, task)
    BY <1>1, <1>7, RowTyped
  <2>4. q \in Requests /\ requests[q].status # "none"
    BY <2>1, <2>2, <2>3 DEF Founded, Row
  <2>5. requests'[q] = requests[q]
    BY <1>3, <2>4
  <2>6. Repaired(u, q)
    BY <1>7, <2>1, <2>2, <2>5 DEF Repairing, Telling
  <2>7. Repaired(u, q)'
    BY <1>5, <2>6
  <2> QED
    BY <2>2, <2>7
<1>8. ASSUME NEW w \in Workers, NEW u \in Tools
      PROVE  Telling(u, work[w][u])'
  BY <1>2, <1>7 DEF Telling, Repaired, Shown
<1> QED
  BY <1>4, <1>6, <1>8 DEF Repairing

(* The row a completed request leaves has written what it claims.            *)
LEMMA CompletedIsRepaired ==
  ASSUME Bounded, Tables, NEW t \in Tools, NEW task \in Row, task.request \in Requests,
         requests'[task.request].tool = t, Reached(t, task), Completes(task),
         UNCHANGED <<runs, assign>>, requests'[task.request].run = task.run,
         requests'[task.request].status = "succeeded", EndStatus(task.answer, task.kind) = "succeeded"
  PROVE  Repaired(t, task.request)'
<1>1. task.at = "settle" /\ task.reason # "backfill"
  BY DEF Completes, Reached, Answered, Bounded
<1>2. /\ task.run \in DOMAIN runs[t] /\ runs[t][task.run].of = "full"
      /\ runs[t][task.run].status = "succeeded"
  BY <1>1 DEF Reached, NewestOf
<1>3. PICK m \in Markets : m = task.answer.market
  BY <1>1, FullSucceeds DEF Reached
<1>4. Shown(t, m, task.run)
  BY <1>1, <1>3 DEF Reached, Bounded
<1> QED
  BY <1>2, <1>4 DEF Repaired, Shown

LEMMA EndingsRepair ==
  ASSUME Bounded, OneWorker, Repairing, NEW w \in Workers, NEW t \in Tools, Ending(w, t)
  PROVE  Repairing'
<1>1. PICK task : task = work[w][t]
  OBVIOUS
<1>2. /\ task \in Row /\ Founded(t, task) /\ Typed /\ Tables /\ Approved /\ Sounds
      /\ Reached(t, task) /\ Telling(t, task)
  BY <1>1, RowTyped DEF Repairing, Approved, Typed, Sounds, Sound
<1>3. /\ Narrows /\ UNCHANGED <<runs, assign>>
      /\ task.request \in Requests /\ task.at \in {"settle", "failing", "anomaly"}
      /\ UNCHANGED candidates \/ (task.at = "anomaly" /\ TellCandidate(t, task.request) /\ UNCHANGED requests)
      /\ \/ Gone(w, t)
         \/ /\ Completes(task) /\ UNCHANGED candidates
            /\ requests'[task.request].run = task.run
            /\ requests'[task.request].status = "succeeded" => EndStatus(task.answer, task.kind) = "succeeded"
            /\ \E next \in Row : /\ Moves(w, t, next) /\ next.at = "anomaly"
                                 /\ Same(task, next)
  BY <1>1, <1>2, EndingsTyped DEF toolVars
<1>4. Approved' /\ \A u \in Tools : Sound(u)' /\ Keeps(u)
  BY <1>2, <1>3, EndingsApproved, EndingsSound, AllKept
<1>5. CASE UNCHANGED candidates /\ Gone(w, t)
  <2>1. PICK next : next = NoTask /\ next.at # "anomaly"
    BY NothingAt
  <2>2. Moves(w, t, next)
    BY <1>5, <2>1 DEF Gone
  <2> QED
    BY <1>3, <1>4, <1>5, <2>1, <2>2, UnchangedSpare, OtherRows
<1>6. CASE TellCandidate(t, task.request) /\ UNCHANGED requests /\ task.at = "anomaly" /\ Gone(w, t)
  <2>1. /\ \A u \in Tools \ {t} : candidates'[u] = candidates[u]
        /\ candidates'[t].request = task.request
        /\ candidates'[t].status = IF requests[task.request].status = "succeeded" THEN "resolved" ELSE "approved"
    BY <1>2, <1>3, <1>6, TellsTyped
  <2>2. /\ work'[w][t] = NoTask
        /\ \A v \in Workers, u \in Tools : v # w \/ u # t => work'[v][u] = work[v][u]
    BY <1>2, <1>6, MovesAt DEF Gone
  <2>3. ASSUME NEW u \in Tools
        PROVE  Resolved(u)'
    <3>1. CASE u # t
      <4>1. Spared(u)
        BY <2>1, <3>1 DEF Spared
      <4>2. candidates[u].status = "resolved" =>
              \A v \in Workers : work'[v][u].at # "none" => work'[v][u].reason = "backfill"
        BY <2>2, <3>1 DEF Repairing, Resolved
      <4> QED
        BY <1>3, <1>4, <4>1, <4>2, ResolvedStays DEF Repairing
    <3>2. CASE u = t
      <4>1. SUFFICES ASSUME candidates'[t].status = "resolved"
                     PROVE  (/\ Repaired(t, candidates[t].request) /\ Quiet(t)
                             /\ \A v \in Workers : work[v][t].at # "none" => work[v][t].reason = "backfill")'
        BY <3>2 DEF Resolved
      <4>2. PICK r : r = task.request /\ r = candidates'[t].request
        BY <2>1
      <4>3. requests[r].status = "succeeded" /\ Repaired(t, r)
        BY <1>2, <1>6, <2>1, <4>1, <4>2 DEF Telling
      <4>4. Repaired(t, r)'
        BY <1>3, <1>4, <4>3, RepairNarrows
      <4>5. Quiet(t)'
        <5>1. Quiet(t)
          BY <1>1, <1>2, <1>6 DEF Approved, Told
        <5> QED
          BY <1>3, <5>1, QuietStays
      <4>6. \A v \in Workers : work'[v][t].at = "none"
        BY <2>2, NothingAt DEF OneWorker
      <4> QED
        BY <4>2, <4>4, <4>5, <4>6 DEF Repaired, Shown
    <3> QED
      BY <3>1, <3>2
  <2>4. ASSUME NEW v \in Workers, NEW u \in Tools, NEW row, row = work'[v][u]
        PROVE  Telling(u, row)'
    <3>1. CASE row.at = "anomaly"
      <4>1. row = work[v][u] /\ Telling(u, work[v][u])
        BY <2>2, <2>4, <3>1, NothingAt DEF Repairing
      <4> QED
        BY <1>2, <1>3, <1>4, <3>1, <4>1, TellingStays
    <3>2. CASE row.at # "anomaly"
      BY <3>2 DEF Telling
    <3> QED
      BY <3>1, <3>2
  <2>5. ASSUME NEW v \in Workers, NEW u \in Tools
        PROVE  Telling(u, work[v][u])'
    BY <2>4 DEF Telling, Repaired, Shown
  <2> QED
    BY <1>4, <2>3, <2>5 DEF Repairing
<1>7. ASSUME Completes(task), UNCHANGED candidates, requests'[task.request].run = task.run,
             requests'[task.request].status = "succeeded" => EndStatus(task.answer, task.kind) = "succeeded",
             NEW next \in Row, Moves(w, t, next), next.at = "anomaly", Same(task, next)
      PROVE  Repairing'
  <2>1. /\ work'[w][t] = next
        /\ \A v \in Workers, u \in Tools : v # w \/ u # t => work'[v][u] = work[v][u]
    BY <1>2, <1>7, MovesAt
  <2>2. \A u \in Tools : Spared(u)
    BY <1>7, UnchangedSpare
  <2>3. task.at # "none"
    BY <1>3
  <2>4. ASSUME NEW u \in Tools
        PROVE  Resolved(u)'
    <3>1. ASSUME candidates[u].status = "resolved", NEW v \in Workers, work'[v][u].at # "none"
          PROVE  work'[v][u].reason = "backfill"
      <4>1. \A x \in Workers : work[x][u].at # "none" => work[x][u].reason = "backfill"
        BY <3>1 DEF Repairing, Resolved
      <4> QED
        BY <1>1, <1>7, <2>1, <2>3, <3>1, <4>1 DEF Same
    <3> QED
      BY <1>3, <1>4, <2>2, <3>1, ResolvedStays DEF Repairing
  <2>5. requests'[task.request].tool = t
    BY <1>2, <1>3 DEF Founded, Bounded, Narrows, RequestsStay
  <2>6. Telling(t, next)'
    <3>1. CASE requests'[task.request].status = "succeeded"
      <4>1. Repaired(t, task.request)'
        BY <1>2, <1>3, <1>7, <2>5, <3>1, CompletedIsRepaired
      <4>2. next.request = task.request
        BY <1>7 DEF Same
      <4> QED
        BY <4>1, <4>2 DEF Telling
    <3>2. CASE requests'[task.request].status # "succeeded"
      BY <1>7, <3>2 DEF Telling, Same
    <3> QED
      BY <3>1, <3>2
  <2>7. ASSUME NEW v \in Workers, NEW u \in Tools, NEW row, row = work'[v][u]
        PROVE  Telling(u, row)'
    <3>1. CASE u = t
      BY <2>1, <2>6, <2>7, <3>1 DEF OneWorker
    <3>2. CASE u # t
      <4>1. row = work[v][u] /\ Telling(u, work[v][u])
        BY <2>1, <2>7, <3>2 DEF Repairing
      <4> QED
        BY <1>2, <1>3, <1>4, <4>1, TellingStays
    <3> QED
      BY <3>1, <3>2
  <2>8. ASSUME NEW v \in Workers, NEW u \in Tools
        PROVE  Telling(u, work[v][u])'
    BY <2>7 DEF Telling, Repaired, Shown
  <2> QED
    BY <1>4, <2>4, <2>8 DEF Repairing
<1> QED
  BY <1>3, <1>5, <1>6, <1>7

LEMMA InitiallyRepaired ==
  ASSUME Bounded, Init
  PROVE  Repairing
<1>1. Approved /\ Sounds
  BY InitiallyApproved, InitiallySound
<1>2. \A t \in Tools : candidates[t].status # "resolved"
  <2>1. NoCandidate.status # "resolved"
    BY DEF NoCandidate
  <2> QED
    BY <2>1 DEF Init
<1>3. \A w \in Workers, t \in Tools : work[w][t].at # "anomaly"
  BY NothingAt DEF Init
<1> QED
  BY <1>1, <1>2, <1>3 DEF Repairing, Sounds, Resolved, Telling

LEMMA RepairingStays ==
  ASSUME Bounded, OneWorker, Repairing, [Next /\ \A t \in Tools : Apart(t)]_shadowVars
  PROVE  Repairing'
<1>1. Approved' /\ Typed /\ Approved
  BY ApprovedStays DEF Repairing, Approved
<1>2. CASE UNCHANGED shadowVars
  <2>1. UNCHANGED <<runs, assign, work, requests, candidates>>
    BY <1>2 DEF shadowVars, toolVars, scanVars
  <2> QED
    BY <1>1, <2>1, UnchangedNarrow, UnchangedSpare, BesideRepair
<1>3. CASE Beside /\ UNCHANGED restVars
  <2>1. UNCHANGED <<runs, assign, work, requests>> /\ \A t \in Tools : Spared(t)
    BY <1>1, <1>3, ScanEffects DEF restVars, toolVars, Beside
  <2> QED
    BY <1>1, <2>1, UnchangedNarrow, BesideRepair
<1>4. ASSUME NEW r \in Requests, RequestLeaseExpires(r)
      PROVE  Repairing'
  <2>1. Narrows /\ UNCHANGED <<runs, assign, work, candidates>>
    BY <1>1, <1>4, LeasesTyped DEF toolVars, scanVars
  <2> QED
    BY <1>1, <2>1, UnchangedSpare, BesideRepair
<1>5. CASE Next /\ \A t \in Tools : Apart(t)
  BY <1>3, <1>4, <1>5, StepKinds, LoadsRepair, HaltsRepair, RowsRepair, EndingsRepair, ApprovesRepair
<1> QED
  BY <1>2, <1>5

LEMMA RepairIsShown ==
  ASSUME Repairing
  PROVE  ResolvedIsRepaired
<1>1. ASSUME NEW t \in Tools, candidates[t].status = "resolved", NEW r, r = candidates[t].request
      PROVE  /\ requests[r].status = "succeeded"
             /\ \E m \in Markets : /\ assign[t][m].primary /\ assign[t][m].status \in TrustedStatuses
                                   /\ assign[t][m].run = requests[r].run
  <2>1. Repaired(t, r)
    BY <1>1 DEF Repairing, Resolved
  <2>2. PICK m, run : m \in Markets /\ run = requests[r].run /\ Shown(t, m, run)
    BY <2>1 DEF Repaired
  <2>3. PICK row : row = [source |-> "auto", status |-> "auto_accepted", primary |-> TRUE, run |-> run]
    OBVIOUS
  <2>4. row.primary = TRUE
    BY <2>3, Zenon
  <2>5. row.status = "auto_accepted" /\ row.run = run
    BY <2>3
  <2>6. assign[t][m] = row
    BY <2>2, <2>3 DEF Shown
  <2> QED
    BY <2>1, <2>2, <2>4, <2>5, <2>6 DEF Repaired, TrustedStatuses
<1> QED
  BY <1>1 DEF ResolvedIsRepaired

(* Where one worker writes, a candidate is resolved only by a request that   *)
(* succeeded, and the primary its run wrote is the one the tool shows:       *)
(* nothing that comes after, a backfill, a scan or a later pass, takes it    *)
(* away again (complete_reclassification_request and the batch after it).    *)
THEOREM ResolvedAreRepaired ==
  ASSUME Bounded, OneWorker
  PROVE  Spec /\ ApprovedApart => []ResolvedIsRepaired
<1>1. Init => Repairing
  BY InitiallyRepaired
<1>2. Repairing /\ [Next]_shadowVars /\ [\A t \in Tools : Apart(t)]_shadowVars => Repairing'
  BY RepairingStays
<1>3. Repairing => ResolvedIsRepaired
  BY RepairIsShown
<1> QED
  BY <1>1, <1>2, <1>3, PTL DEF Spec, ApprovedApart
=============================================================================
