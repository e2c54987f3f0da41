----------------------------- MODULE WorkQueue ------------------------------
(***************************************************************************)
(* What the crawl frontier promises to the submitter of a job, without      *)
(* leases, locks, clocks or processes: every row is tried at most           *)
(* max_attempts times and ends, once and for all, either done, with a page  *)
(* stored for it in the same step, or dead, when its tries are used up.     *)
(***************************************************************************)
EXTENDS Naturals

CONSTANTS Item, Url, Job, JobOf, FinalUrls, MaxAttempts

VARIABLES
  status,   \* "absent", "open", "done" or "dead", per row
  tries,    \* how often a row has been handed to a worker
  pages     \* the URLs that have a stored page

vars == <<status, tries, pages>>

Init ==
  /\ status = [i \in Item |-> "absent"]
  /\ tries = [i \in Item |-> 0]
  /\ pages = {}

Submit(j) ==
  /\ \A i \in Item : JobOf[i] = j => status[i] = "absent"
  /\ status' = [i \in Item |-> IF JobOf[i] = j THEN "open" ELSE status[i]]
  /\ UNCHANGED <<tries, pages>>

(* A worker takes some rows that have tries left and buries some that have none. *)
Take(C, D) ==
  /\ \A i \in C : status[i] = "open" /\ tries[i] < MaxAttempts[i]
  /\ \A i \in D : status[i] = "open" /\ tries[i] = MaxAttempts[i]
  /\ status' = [i \in Item |-> IF i \in D THEN "dead" ELSE status[i]]
  /\ tries' = [i \in Item |-> IF i \in C THEN tries[i] + 1 ELSE tries[i]]
  /\ UNCHANGED pages

Finish(i, u) ==
  /\ status[i] = "open"
  /\ tries[i] > 0
  /\ status' = [status EXCEPT ![i] = "done"]
  /\ pages' = pages \cup {u}
  /\ UNCHANGED tries

GiveUp(i) ==
  /\ status[i] = "open"
  /\ tries[i] = MaxAttempts[i]
  /\ status' = [status EXCEPT ![i] = "dead"]
  /\ UNCHANGED <<tries, pages>>

Next ==
  \/ \E j \in Job : Submit(j)
  \/ \E C, D \in SUBSET Item : Take(C, D)
  \/ \E i \in Item : GiveUp(i) \/ \E u \in FinalUrls[i] : Finish(i, u)

Spec == Init /\ [][Next]_vars

-----------------------------------------------------------------------------
(* Properties *)

TypeOK ==
  /\ status \in [Item -> {"absent", "open", "done", "dead"}]
  /\ tries \in [Item -> Nat]

(* A row is not tried more often than it may be; it is dead only when its tries  *)
(* are used up, and done only with a page of it stored, which stays stored.      *)
Promise ==
  \A i \in Item :
    /\ tries[i] <= MaxAttempts[i]
    /\ status[i] = "absent" => tries[i] = 0
    /\ status[i] = "dead" => tries[i] = MaxAttempts[i]
    /\ status[i] = "done" => tries[i] > 0 /\ FinalUrls[i] \cap pages # {}

(* What has ended is not tried again and does not end otherwise, and no page is  *)
(* lost.                                                                          *)
EndsOnce ==
  [][/\ pages \subseteq pages'
     /\ \A i \in Item : status[i] \in {"done", "dead"} =>
          status'[i] = status[i] /\ tries'[i] = tries[i]]_vars

=============================================================================
