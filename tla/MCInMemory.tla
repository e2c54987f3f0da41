----------------------------- MODULE MCInMemory -----------------------------
(* Three rows of two jobs, batches of two, the second row urgent and with a    *)
(* single attempt, all fetches ending at one of two URLs.                       *)
EXTENDS InMemory

McJobOf == [i \in Item |-> IF i = 3 THEN 2 ELSE 1]
McPriority == [i \in Item |-> IF i = 2 THEN 1 ELSE 0]
McFinalUrls == [i \in Item |-> IF i = 1 THEN Url ELSE {"u"}]
McMaxAttempts == [i \in Item |-> IF i = 2 THEN 1 ELSE 2]
=============================================================================
