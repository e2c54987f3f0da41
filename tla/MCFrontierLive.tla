--------------------------- MODULE MCFrontierLive ---------------------------
(* The frontier without a bound on time. Timestamps are only ever compared,  *)
(* so instead of advancing the clock a second passes by moving every         *)
(* timestamp one second into the past; below the age of the oldest open      *)
(* transaction, which MaxAge bounds, they need not be told apart.            *)
EXTENDS Frontier

CONSTANT MaxAge   \* bound on the seconds a transaction stays open

McJobOf == [i \in Item |-> 1]
McPriority == [i \in Item |-> 0]
McFinalUrls == [i \in Item |-> Url]
McMaxAttempts == [i \in Item |-> 2]
McOwnerOf == [w \in Worker |-> w]
McSkew == [w \in Worker |-> 0]

Older(t, bound) == IF t - 1 < bound THEN bound ELSE t - 1

SecondPasses ==
  /\ \A w \in Worker : acq[w].now > -MaxAge
  /\ \A w \in Worker, i \in Item : task[w][i].now > -MaxAge /\ renewal[w][i].now > -MaxAge
  /\ row' = [i \in Item |-> [row[i] EXCEPT
               !.available = Older(@, -MaxAge),
               !.expires = IF row[i].state = "leased" THEN Older(@, -MaxAge - 1) ELSE @]]
  /\ acq' = [w \in Worker |->
               [acq[w] EXCEPT !.now = IF acq[w].pc \in {"marking", "claimed"} THEN @ - 1 ELSE @]]
  /\ task' = [w \in Worker |-> [i \in Item |->
               [task[w][i] EXCEPT
                  !.now = IF task[w][i].pc \in {"saving", "failing"} THEN @ - 1 ELSE @]]]
  /\ renewal' = [w \in Worker |-> [i \in Item |->
               [renewal[w][i] EXCEPT
                  !.now = IF renewal[w][i].pc \in {"renewing", "renewed"} THEN @ - 1 ELSE @]]]
  /\ UNCHANGED <<clock, page, issued, faults>>

LiveNext == SecondPasses \/ Work

LiveSpec == Init /\ [][LiveNext]_vars /\ Fairness /\ WF_vars(SecondPasses)
=============================================================================
