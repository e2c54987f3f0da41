----------------------------- MODULE MCPipeline -----------------------------
(* A list of five URLs of two domains: two lead to the same page, one to a    *)
(* page with the URL or with the content of another, one is invalid; and a    *)
(* list with a URL that can not be split. Two workers, queues of one.         *)
EXTENDS Pipeline

CONSTANTS w1, w2

McInputs == {<<"a", "b", "bad", "a2", "c">>, <<"a", "[", "b">>}
McUrlSet == {"a", "b", "bad", "a2", "c", "["}
McPage == {"pageA", "pageB", "copyA", "pageC"}
McDomainOf == [u \in McUrlSet |-> IF u = "c" THEN "d2" ELSE "d1"]
McPagesOf == [u \in McUrlSet |-> CASE u \in {"a", "a2"} -> {"pageA"}
                                   [] u = "b" -> {"pageB", "copyA"}
                                   [] u = "c" -> {"pageC"}
                                   [] OTHER -> {}]
McNormalizedUrl == [p \in McPage |-> CASE p = "pageA" -> "A" [] p = "pageC" -> "C" [] OTHER -> "B"]
McContentHash == [p \in McPage |-> CASE p = "pageB" -> 2 [] p = "pageC" -> 3 [] OTHER -> 1]
=============================================================================
