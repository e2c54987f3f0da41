------------------------------- MODULE MCFetch ------------------------------
(* Two coroutines, one retry, one redirect, one coroutine to a domain at a    *)
(* time: a name, a private address, and one token a second with a burst of    *)
(* one.                                                                        *)
EXTENDS Fetch

CONSTANTS c1, c2, site, public, private

Http(host) == [scheme |-> "http", host |-> host, credentials |-> FALSE]
MCUrl == {Http(site), Http(private)}
=============================================================================
