-------------------------- MODULE MCFrontierBatch ---------------------------
(* Two rows of one job, of different priorities, the fetches of which end at *)
(* one URL; the first may be tried once, the second twice. Two workers with   *)
(* their own ids.                                                             *)
EXTENDS Frontier

CONSTANTS w1, w2

McItem == {1, 2}
McJobOf == [i \in McItem |-> 1]
McPriority == [i \in McItem |-> IF i = 2 THEN 1 ELSE 0]
McFinalUrls == [i \in McItem |-> Url]
McMaxAttempts == [i \in McItem |-> i]
McOwnerOf == [w \in Worker |-> w]
McSkew == [w \in Worker |-> 0]
Swap == {[w \in Worker |-> IF w = w1 THEN w2 ELSE w1]}
=============================================================================
