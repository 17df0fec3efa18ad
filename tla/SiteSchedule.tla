---------------------------- MODULE SiteSchedule ----------------------------
(***************************************************************************)
(* What the sitemap scheduler promises, without leases, jobs or processes: *)
(* each site waits for one occurrence at a time.  Serving it moves the     *)
(* schedule forward and settles the error streak in the same step; only a  *)
(* new schedule version may move the due time backwards.                   *)
(***************************************************************************)
EXTENDS Integers

CONSTANTS Sites

VARIABLE schedule   \* per site: status, version, next, streak

(* The due time a step leaves behind.                                       *)
Due(s) == schedule'[s].next

Register(s) ==
  /\ schedule[s].status = "absent"
  /\ schedule' = [schedule EXCEPT ![s] =
                    [schedule[s] EXCEPT !.status = "active", !.next = Due(s)]]

(* Pausing, resuming, a new homepage or a new interval.                     *)
Reschedule(s) ==
  /\ schedule[s].status # "absent"
  /\ \E status \in {"active", "paused"} :
       schedule' = [schedule EXCEPT ![s] =
                      [schedule[s] EXCEPT !.version = @ + 1, !.next = Due(s),
                                          !.status = status]]

Serve(s) ==
  /\ schedule[s].status = "active"
  /\ Due(s) > schedule[s].next
  /\ schedule' = [schedule EXCEPT ![s] =
                    [schedule[s] EXCEPT !.next = Due(s), !.streak = 0]]

GiveUp(s) ==
  /\ schedule[s].status = "active"
  /\ Due(s) > schedule[s].next
  /\ schedule' = [schedule EXCEPT ![s] =
                    [schedule[s] EXCEPT !.next = Due(s), !.streak = @ + 1]]

Init ==
  schedule = [s \in Sites |->
               [status |-> "absent", version |-> 1, next |-> 0, streak |-> 0]]

Next ==
  \E s \in Sites : Register(s) \/ Reschedule(s) \/ Serve(s) \/ GiveUp(s)

Spec == Init /\ [][Next]_schedule
=============================================================================
