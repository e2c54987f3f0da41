---------------------------- MODULE MCSubmission ----------------------------
(* Five submissions against a quota of two requests and three URLs a minute:  *)
(* r1 and r2 fit together, with r3, which names a URL twice, only one of them   *)
(* does, r4 is larger than any minute and r5 is not authorized. Windows are     *)
(* kept for two minutes.                                                       *)
EXTENDS Submission

CONSTANTS r1, r2, r3, r4, r5, u1, u2

MCUrls == [r \in Request |-> CASE r = r3 -> 3 [] r = r4 -> 4 [] OTHER -> 1]
MCRows == [r \in Request |-> IF r \in {r3, r4} THEN {u1, u2} ELSE {u1}]
=============================================================================
