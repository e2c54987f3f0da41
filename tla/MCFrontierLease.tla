-------------------------- MODULE MCFrontierLease ---------------------------
(* One row and two workers that share a worker id, the clock of w2 a second  *)
(* fast: long enough for a renewal, an expiry and a takeover.                *)
EXTENDS Frontier

CONSTANTS w1, w2

McJobOf == [i \in Item |-> 1]
McPriority == [i \in Item |-> 0]
McFinalUrls == [i \in Item |-> Url]
McMaxAttempts == [i \in Item |-> 2]
McOwnerOf == [w \in Worker |-> "owner"]
McSkew == [w \in Worker |-> IF w = w2 THEN 1 ELSE 0]
=============================================================================
