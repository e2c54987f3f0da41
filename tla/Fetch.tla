------------------------------- MODULE Fetch --------------------------------
(***************************************************************************)
(* _fetch_with_retries of the frontier worker, in several coroutines: the rate  *)
(* limiter they share (module RateLimiter), the semaphore of the domain, the     *)
(* fetcher with its redirects, and the retries. A URL is what validation looks  *)
(* at: scheme, host, credentials. A host is a name, which the DNS resolves anew *)
(* and as it likes for every connection, or an address.                          *)
(***************************************************************************)
EXTENDS RateLimiter, FiniteSets

CONSTANTS
  Name, Address,  \* hosts
  BlockedHosts,   \* BLOCKED_HOSTS
  Private,        \* addresses that are private, loopback, link-local, reserved, ...
  Metadata,       \* the address in BLOCKED_IPS
  Url,            \* the URLs of leases and in Location headers
  AllowPrivate,   \* allow_private_networks
  PerDomain,      \* per_domain_concurrency
  MaxRetries, MaxRedirects

Host == Name \cup Address

ASSUME FetchAssumption ==
  /\ {MaxRetries, MaxRedirects} \subseteq Nat /\ PerDomain \in Nat \ {0}
  /\ AllowPrivate \in BOOLEAN
  /\ Name \cap Address = {} /\ BlockedHosts \subseteq Name /\ Private \subseteq Address
  /\ Url # {} /\ Url \subseteq [scheme : {"http", "https", "other"}, host : Host \cup {""}, credentials : BOOLEAN]

VARIABLES
  step,     \* per coroutine: where it is
  url,      \* per coroutine: the URL of its lease
  current,  \* current_url in fetch()
  hop,      \* _redirect in fetch()
  peer,     \* the addresses of the connection for that URL
  answers,  \* the attempts so far: good, or bad (an error or a transient status)
  sent,     \* per coroutine: number of GET requests so far
  line      \* per domain: coroutines in its semaphore, holders before waiters

fetchVars == <<vars, step, url, current, hop, peer, answers, sent, line>>
request == <<current, hop, peer, sent>>

Some == CHOOSE u \in Url : TRUE

FetchInit ==
  /\ Init
  /\ step = [c \in Caller |-> "idle"]
  /\ url = [c \in Caller |-> Some] /\ current = [c \in Caller |-> Some]
  /\ hop = [c \in Caller |-> 0] /\ sent = [c \in Caller |-> 0]
  /\ peer = [c \in Caller |-> {}]
  /\ answers = [c \in Caller |-> <<>>]
  /\ line = [h \in Host \cup {""} |-> <<>>]

-----------------------------------------------------------------------------
(* Validation *)

IsPublic(a) == a # Metadata /\ (AllowPrivate \/ a \notin Private)

validate_public_url(u) ==
  /\ u.scheme \in {"http", "https"}
  /\ u.host \in Host \ BlockedHosts
  /\ ~u.credentials
  /\ u.host \in Address => IsPublic(u.host)

(* What the connector may connect to. PublicResolver refuses a name with any    *)
(* address that is not public; an address in a URL does not go through it.       *)
ResolvedAny(u, addresses) ==   \* mutant: one public address is enough
  IF u.host \in Address THEN addresses = {u.host}
  ELSE addresses # {} /\ (AllowPrivate \/ \E a \in addresses : a # Metadata /\ a \notin Private)
Resolved(u, addresses) ==
  IF u.host \in Address THEN addresses = {u.host}
  ELSE addresses # {} /\ (AllowPrivate \/ \A a \in addresses : a # Metadata /\ a \notin Private)

-----------------------------------------------------------------------------
(* One coroutine *)

StepTo(c, s) == step' = [step EXCEPT ![c] = s]
HoldsNew(c) == \E i \in DOMAIN line[url[c].host] : line[url[c].host][i] = c   \* mutant: limit() makes a semaphore of its own
Holds(c) == \E i \in 1..PerDomain : i <= Len(line[url[c].host]) /\ line[url[c].host][i] = c

(* A lease is to be fetched; the bound on acquire() leaves room for its retries. *)
Begin(c) ==
  /\ step[c] = "idle" /\ calls[c] + MaxRetries < Requests
  /\ Ask(c)
  /\ \E u \in Url : url' = [url EXCEPT ![c] = u] /\ current' = [current EXCEPT ![c] = u]
  /\ answers' = [answers EXCEPT ![c] = <<>>]
  /\ StepTo(c, "acquire")
  /\ UNCHANGED <<hop, peer, sent, line>>

(* A round of the rate limiter; with the token it goes on to the semaphore.     *)
Acquire(c) ==
  /\ step[c] = "acquire"
  /\ Take(c)
  /\ IF served' = served
     THEN UNCHANGED <<step, line>>
     ELSE StepTo(c, "limit") /\ line' = [line EXCEPT ![url[c].host] = Append(@, c)]
  /\ UNCHANGED <<url, answers, request>>

(* fetch() has its result: the semaphore is left, and the result returned or    *)
(* the next attempt slept for.                                                   *)
NoRequest(c) ==
  /\ current' = [current EXCEPT ![c] = url[c]]
  /\ hop' = [hop EXCEPT ![c] = 0]
  /\ peer' = [peer EXCEPT ![c] = {}]
Without(queue, c) ==
  LET at == CHOOSE i \in DOMAIN queue : queue[i] = c
  IN [i \in 1..(Len(queue) - 1) |-> queue[IF i < at THEN i ELSE i + 1]]
Left(c) == [line EXCEPT ![url[c].host] = Without(@, c)]

ReturnedHolding(c, outcome) ==   \* mutant: a failed attempt leaves the semaphore taken
  /\ answers' = [answers EXCEPT ![c] = Append(@, outcome)]
  /\ line' = IF outcome = "bad" THEN line ELSE Left(c)
  /\ NoRequest(c)
  /\ StepTo(c, IF outcome = "good" \/ Len(answers[c]) = MaxRetries THEN "idle" ELSE "sleep")
ReturnedEarly(c, outcome) ==   \* mutant: one retry less
  /\ answers' = [answers EXCEPT ![c] = Append(@, outcome)]
  /\ line' = Left(c)
  /\ NoRequest(c)
  /\ StepTo(c, IF outcome = "good" \/ Len(answers[c]) + 1 >= MaxRetries THEN "idle" ELSE "sleep")
Returned(c, outcome) ==
  /\ answers' = [answers EXCEPT ![c] = Append(@, outcome)]
  /\ line' = Left(c)
  /\ NoRequest(c)
  /\ StepTo(c, IF outcome = "good" \/ Len(answers[c]) = MaxRetries THEN "idle" ELSE "sleep")

Fetch(c) ==
  /\ step[c] = "limit" /\ Holds(c)
  /\ IF validate_public_url(url[c]) THEN StepTo(c, "get") /\ UNCHANGED <<request, answers, line>>
                                    ELSE Returned(c, "bad") /\ UNCHANGED sent
  /\ UNCHANGED <<vars, url>>

(* session.get resolves the host, connects and sends the request.               *)
Get(c) ==
  /\ step[c] = "get"
  /\ \E addresses \in SUBSET Address :
       /\ Resolved(current[c], addresses)
       /\ peer' = [peer EXCEPT ![c] = addresses]
  /\ sent' = [sent EXCEPT ![c] = @ + 1]
  /\ StepTo(c, "response")
  /\ UNCHANGED <<vars, url, current, hop, answers, line>>

(* An address that is refused, a timeout, a connection that fails, a body that  *)
(* is too large: any exception becomes a result.                                *)
Raises(c) ==
  /\ step[c] \in {"get", "response"}
  /\ Returned(c, "bad")
  /\ UNCHANGED <<vars, url, sent>>

Follow(c, location) ==
  /\ current' = [current EXCEPT ![c] = location]
  /\ hop' = [hop EXCEPT ![c] = @ + 1]
  /\ peer' = [peer EXCEPT ![c] = {}]
  /\ StepTo(c, "get")
  /\ UNCHANGED <<answers, line>>

(* The response leads elsewhere: to where the loop goes if that is valid and a  *)
(* round is left.                                                                *)
RedirectOnceMore(c) ==   \* mutant: the last redirect is followed too
  /\ step[c] = "response"
  /\ \E location \in Url :
       IF validate_public_url(location) /\ hop[c] <= MaxRedirects
       THEN Follow(c, location)
       ELSE Returned(c, "bad")
  /\ UNCHANGED <<vars, url, sent>>
Redirect(c) ==
  /\ step[c] = "response"
  /\ \E location \in Url :
       IF validate_public_url(location) /\ hop[c] < MaxRedirects
       THEN Follow(c, location)
       ELSE Returned(c, "bad")
  /\ UNCHANGED <<vars, url, sent>>

(* Any other response is read to its end; should_retry_status looks at it.      *)
Response(c) ==
  /\ step[c] = "response"
  /\ Returned(c, "good") \/ Returned(c, "bad")
  /\ UNCHANGED <<vars, url, sent>>

(* The sleep is as long as the policy or Retry-After says, from nothing to 30   *)
(* seconds.                                                                      *)
Retry(c) ==
  /\ step[c] = "sleep"
  /\ Ask(c)
  /\ StepTo(c, "acquire")
  /\ UNCHANGED <<url, answers, request, line>>

Time == Tick /\ UNCHANGED <<step, url, answers, request, line>>

-----------------------------------------------------------------------------
Advance(c) ==
  Acquire(c) \/ Fetch(c) \/ Get(c) \/ Raises(c) \/ Redirect(c) \/ Response(c) \/ Retry(c)

FetchNext == Time \/ \E c \in Caller : Begin(c) \/ Advance(c)

(* Time passes, every sleep and every request comes to an end (the timeout of   *)
(* the session bounds a request), and the event loop runs what is ready.         *)
FetchSpec ==
  /\ FetchInit /\ [][FetchNext]_fetchVars
  /\ WF_fetchVars(Time) /\ \A c \in Caller : WF_fetchVars(Advance(c))

-----------------------------------------------------------------------------
(* Properties *)

(* Every connection, of every attempt and every redirect hop, is for a URL that *)
(* was found valid and leads to public addresses only, whatever the DNS said of  *)
(* the host before and whatever a server named in a Location header.             *)
OnlyPublicVisited ==
  \A c \in Caller : peer[c] # {} =>
    validate_public_url(current[c]) /\ (AllowPrivate \/ \A a \in peer[c] : IsPublic(a))

(* A token of the rate limiter pays for one fetch() and at most MaxRedirects     *)
(* more requests: no retry and no redirect goes without.                         *)
EveryRequestIsPaid == \A c \in Caller : sent[c] <= (MaxRedirects + 1) * served[c]

(* What is returned is the result of the last attempt; only failures are        *)
(* retried, and a failure is returned only when all retries are used up.         *)
RetriesAreForFailures ==
  \A c \in Caller :
    /\ \A i \in 1..(Len(answers[c]) - 1) : answers[c][i] # "good"
    /\ step[c] = "idle" /\ answers[c] # <<>> =>
         answers[c][Len(answers[c])] = "good" \/ Len(answers[c]) = MaxRetries + 1

(* Never more than PerDomain coroutines are in the fetches of one domain, over  *)
(* all hops of their redirects, however attempts fail, are refused or repeated.  *)
Visiting(h) == {c \in Caller : step[c] \in {"get", "response"} /\ url[c].host = h}
DomainLimitKept == \A h \in Host : Cardinality(Visiting(h)) <= PerDomain

(* Every fetch returns, whatever the others hold of the limits and however many *)
(* of their own fetches fail.                                                    *)
EveryFetchReturns == \A c \in Caller : step[c] # "idle" ~> step[c] = "idle"

=============================================================================
