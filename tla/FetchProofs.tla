---------------------------- MODULE FetchProofs -----------------------------
(***************************************************************************)
(* Proofs about fetching. A step of Fetch is a step of the rate limiter or     *)
(* leaves it alone, so its bound holds here too. The rest is an invariant per   *)
(* coroutine, which only the steps of that coroutine touch, and one of the lines *)
(* at the semaphores.                                                            *)
(***************************************************************************)
EXTENDS Fetch, FiniteSetTheorems, TLAPS

-----------------------------------------------------------------------------
(* The rate limiter: what was granted since a grant, with what is in the        *)
(* bucket, is paid for by the burst and by the time since then.                  *)

Burst == Rate * TicksPerSecond

Paid ==
  \A m \in DOMAIN grants :
    /\ grants[m] <= updated
    /\ (Len(grants) - m + 1) * TicksPerSecond + tokens <= Burst + Rate * (updated - grants[m])

Inv ==
  /\ TypeOK
  /\ tokens <= Burst
  /\ Paid
  /\ RateKept

LEMMA Products == ASSUME NEW x \in Nat
  PROVE  Rate * x \in Nat /\ x * Rate \in Nat /\ x * TicksPerSecond \in Nat /\ Burst \in Nat /\ TicksPerSecond <= Burst
BY NumberAssumption DEF Burst

LEMMA Spans ==
  ASSUME NEW g \in Nat, NEW u \in Nat, NEW n \in Nat, g <= u, u <= n
  PROVE  Rate * (n - g) = Rate * (u - g) + (n - u) * Rate
<1>1. Rate \in Nat
    BY NumberAssumption
<1> DEFINE x == u - g
           y == n - u
<1>2. x \in Nat /\ y \in Nat /\ n - g = x + y
    OBVIOUS
<1> HIDE DEF x, y
<1>3. Rate * (x + y) = Rate * x + y * Rate
    BY <1>1, <1>2
<1>4. QED
    BY <1>2, <1>3 DEF x, y

(* What held of k grants since g when the bucket held t still holds when time  *)
(* has refilled it to r, and when a token of those was then taken.             *)
LEMMA StillPaid ==
  ASSUME NEW g \in Nat, NEW u \in Nat, NEW n \in Nat, g <= u, u <= n,
         NEW k \in Nat, NEW t \in Nat, NEW r \in Nat,
         k * TicksPerSecond + t <= Burst + Rate * (u - g),
         r <= t + (n - u) * Rate
  PROVE  /\ k * TicksPerSecond + r <= Burst + Rate * (n - g)
         /\ (k + 1) * TicksPerSecond + (r - TicksPerSecond) <= Burst + Rate * (n - g)
         /\ Rate * (n - g) \in Nat /\ (k + 1) * TicksPerSecond \in Nat
<1>1. u - g \in Nat /\ n - u \in Nat /\ n - g \in Nat /\ k + 1 \in Nat
    OBVIOUS
<1>2. /\ Rate * (u - g) \in Nat /\ (n - u) * Rate \in Nat /\ Rate * (n - g) \in Nat /\ Burst \in Nat
      /\ k * TicksPerSecond \in Nat /\ (k + 1) * TicksPerSecond \in Nat /\ TicksPerSecond \in Nat
    BY <1>1, Products, NumberAssumption
<1>3. Rate * (n - g) = Rate * (u - g) + (n - u) * Rate
    BY Spans
<1>4. (k + 1) * TicksPerSecond = k * TicksPerSecond + TicksPerSecond
    BY NumberAssumption
<1> DEFINE a == Rate * (u - g)
           b == (n - u) * Rate
           c == Rate * (n - g)
           d == k * TicksPerSecond
           e == (k + 1) * TicksPerSecond
<1>5. a \in Nat /\ b \in Nat /\ c = a + b /\ d \in Nat /\ e = d + TicksPerSecond /\ d + t <= Burst + a /\ r <= t + b
    BY <1>2, <1>3, <1>4
<1> HIDE DEF a, b, c, d, e
<1>6. d + r <= Burst + c /\ e + (r - TicksPerSecond) <= Burst + c
    BY <1>2, <1>5
<1>7. QED
    BY <1>2, <1>6 DEF c, d, e

LEMMA RefilledBounds ==
  ASSUME Inv
  PROVE  /\ Refilled \in Nat /\ Refilled <= Burst
         /\ Refilled <= tokens + (now - updated) * Rate
<1>1. now - updated \in Nat /\ tokens \in Nat
    BY DEF Inv, TypeOK
<1>2. (now - updated) * Rate \in Nat /\ Burst \in Nat
    BY <1>1, NumberAssumption DEF Burst
<1>3. QED
    BY <1>1, <1>2 DEF Refilled, Smaller, Burst

(* A grant takes a token that the time up to now has paid for.                *)
LEMMA Granted ==
  ASSUME Inv, NEW c \in Caller, Waiting(c), Refilled >= TicksPerSecond,
         updated' = now, tokens' = Refilled - TicksPerSecond, grants' = Append(grants, now), now' = now
  PROVE  Paid' /\ RateKept'
<1>1. /\ now \in Nat /\ updated \in Nat /\ updated <= now /\ tokens \in Nat
      /\ grants \in Seq(Nat) /\ TicksPerSecond \in Nat /\ Burst \in Nat
      /\ Refilled \in Nat /\ Refilled <= Burst /\ Refilled <= tokens + (now - updated) * Rate
    BY RefilledBounds, Products, NumberAssumption DEF Inv, TypeOK
<1> DEFINE L == Len(grants)
<1>2. /\ L \in Nat /\ DOMAIN grants = 1..L /\ DOMAIN grants' = 1..(L + 1)
      /\ Len(grants') = L + 1 /\ grants'[L + 1] = now
      /\ \A m \in 1..L : grants'[m] = grants[m] /\ grants[m] \in Nat
    BY <1>1
<1>3. ASSUME NEW m \in 1..L
      PROVE  /\ grants[m] \in Nat /\ grants[m] <= now
             /\ (L + 1 - m + 1) * TicksPerSecond + (Refilled - TicksPerSecond) <= Burst + Rate * (now - grants[m])
             /\ (L + 1 - m + 1) * TicksPerSecond <= Burst + Rate * (now - grants[m])
  <2>1. /\ grants[m] <= updated /\ grants[m] \in Nat
        /\ (L - m + 1) * TicksPerSecond + tokens <= Burst + Rate * (updated - grants[m])
      BY <1>2 DEF Inv, Paid
  <2> DEFINE k == L - m + 1
             g == grants[m]
  <2>2. k \in Nat /\ k + 1 = L + 1 - m + 1
      BY <1>2
  <2>3. g \in Nat /\ g <= updated /\ k * TicksPerSecond + tokens <= Burst + Rate * (updated - g)
      BY <2>1
  <2> HIDE DEF k, g
  <2>4. /\ (k + 1) * TicksPerSecond + (Refilled - TicksPerSecond) <= Burst + Rate * (now - g)
        /\ Rate * (now - g) \in Nat /\ (k + 1) * TicksPerSecond \in Nat
      BY <1>1, <2>2, <2>3, StillPaid
  <2>5. (k + 1) * TicksPerSecond <= Burst + Rate * (now - g)
    <3> DEFINE a == (k + 1) * TicksPerSecond
               b == Rate * (now - g)
    <3>1. a \in Nat /\ b \in Nat /\ a + (Refilled - TicksPerSecond) <= Burst + b
        BY <2>4
    <3> HIDE DEF a, b
    <3>2. a <= Burst + b
        BY <1>1, <3>1
    <3>3. QED
        BY <3>2 DEF a, b
  <2>6. g \in Nat /\ g <= now
      BY <1>1, <2>3
  <2>7. QED
      BY <2>2, <2>4, <2>5, <2>6, Zenon DEF g
<1>4. Rate * (now - now) = 0 /\ TicksPerSecond <= Burst
    BY <1>1, NumberAssumption, Products
<1>5. Paid'
  <2> SUFFICES ASSUME NEW m \in 1..(L + 1)
               PROVE  /\ grants'[m] <= now
                      /\ (L + 1 - m + 1) * TicksPerSecond + (Refilled - TicksPerSecond)
                           <= Burst + Rate * (now - grants'[m])
      BY <1>2 DEF Paid, Burst
  <2>1. CASE m = L + 1
      BY <1>1, <1>2, <1>4, <2>1
  <2>2. CASE m \in 1..L
      BY <1>2, <1>3, <2>2
  <2>3. QED
      BY <1>2, <2>1, <2>2
<1>6. RateKept'
  <2> SUFFICES ASSUME NEW m \in 1..(L + 1), NEW n \in 1..(L + 1), m <= n
               PROVE  (n - m + 1) * TicksPerSecond <= Burst + Rate * (grants'[n] - grants'[m])
      BY <1>2 DEF RateKept, Burst
  <2>1. CASE n \in 1..L
    <3>1. m \in 1..L
        BY <1>2, <2>1
    <3>2. grants'[m] = grants[m] /\ grants'[n] = grants[n]
        BY <1>2, <2>1, <3>1
    <3>3. (n - m + 1) * TicksPerSecond <= Burst + Rate * (grants[n] - grants[m])
        BY <1>2, <2>1, <3>1 DEF Inv, RateKept, Burst
    <3>4. QED
        BY <3>2, <3>3
  <2>2. CASE n = L + 1 /\ m \in 1..L
    <3>1. grants'[m] = grants[m] /\ grants'[n] = now
        BY <1>2, <2>2
    <3>2. QED
        BY <1>3, <2>2, <3>1
  <2>3. CASE n = L + 1 /\ m = L + 1
      BY <1>1, <1>2, <1>4, <2>3
  <2>4. QED
      BY <1>2, <2>1, <2>2, <2>3
<1>7. QED
    BY <1>5, <1>6

(* A refill that is not enough for a token is paid for as well.               *)
LEMMA Refill ==
  ASSUME Inv, updated' = now, tokens' = Refilled, grants' = grants
  PROVE  Paid'
<1>1. /\ now \in Nat /\ updated \in Nat /\ updated <= now /\ tokens \in Nat
      /\ grants \in Seq(Nat) /\ TicksPerSecond \in Nat /\ Burst \in Nat
      /\ Refilled \in Nat /\ Refilled <= tokens + (now - updated) * Rate
    BY RefilledBounds, Products, NumberAssumption DEF Inv, TypeOK
<1> SUFFICES ASSUME NEW m \in DOMAIN grants
             PROVE  /\ grants[m] <= now
                    /\ (Len(grants) - m + 1) * TicksPerSecond + Refilled
                         <= Burst + Rate * (now - grants[m])
    BY DEF Paid, Burst
<1>2. /\ grants[m] \in Nat /\ grants[m] <= updated /\ Len(grants) - m + 1 \in Nat
      /\ (Len(grants) - m + 1) * TicksPerSecond + tokens <= Burst + Rate * (updated - grants[m])
    BY <1>1 DEF Inv, Paid
<1> DEFINE k == Len(grants) - m + 1
           g == grants[m]
<1>3. g \in Nat /\ g <= updated /\ k \in Nat /\ k * TicksPerSecond + tokens <= Burst + Rate * (updated - g)
    BY <1>2
<1> HIDE DEF k, g
<1>4. k * TicksPerSecond + Refilled <= Burst + Rate * (now - g)
    BY <1>1, <1>3, StillPaid
<1>5. g <= now
    BY <1>1, <1>3
<1>6. QED
    BY <1>4, <1>5 DEF k, g

LEMMA RateInvStep == Inv /\ [Next]_vars => Inv'
<1> SUFFICES ASSUME Inv, [Next]_vars PROVE Inv'
    OBVIOUS
<1>1. CASE UNCHANGED vars
    BY <1>1 DEF vars, Inv, TypeOK, Paid, RateKept, Burst
<1>2. CASE Tick
    BY <1>2 DEF Tick, Inv, TypeOK, Paid, RateKept, Burst
<1>3. ASSUME NEW c \in Caller, Ask(c) PROVE Inv'
    BY <1>3 DEF Ask, Inv, TypeOK, Paid, RateKept, Burst
<1>4. ASSUME NEW c \in Caller, Take(c), Refilled >= TicksPerSecond PROVE Inv'
  <2>1. /\ updated' = now /\ now' = now /\ tokens' = Refilled - TicksPerSecond
        /\ grants' = Append(grants, now) /\ served' = [served EXCEPT ![c] = @ + 1]
        /\ UNCHANGED <<until, calls>> /\ Waiting(c)
    <3>1. Refilled \in Nat /\ TicksPerSecond \in Nat
        BY RefilledBounds, NumberAssumption
    <3>2. QED
        BY <1>4, <3>1 DEF Take
  <2>2. Paid' /\ RateKept'
      BY <1>4, <2>1, Granted
  <2>3. tokens' \in Nat /\ tokens' <= Burst
      BY <1>4, <2>1, RefilledBounds, NumberAssumption DEF Burst
  <2>4. TypeOK'
      BY <2>1, <2>3 DEF Inv, TypeOK
  <2>5. QED
      BY <2>2, <2>3, <2>4 DEF Inv, Burst
<1>5. ASSUME NEW c \in Caller, Take(c), ~(Refilled >= TicksPerSecond) PROVE Inv'
  <2>1. /\ updated' = now /\ now' = now /\ tokens' = Refilled
        /\ until' = [until EXCEPT ![c] = now + WaitTime(Refilled)]
        /\ UNCHANGED <<grants, served, calls>>
      BY <1>5 DEF Take
  <2>2. Refilled \in Nat /\ Refilled <= Burst /\ WaitTime(Refilled) \in Nat
      BY <1>5, RefilledBounds, NumberAssumption DEF WaitTime
  <2>3. Paid'
      BY <2>1, Refill
  <2>4. RateKept'
      BY <2>1 DEF Inv, RateKept
  <2>5. TypeOK'
      BY <2>1, <2>2 DEF Inv, TypeOK
  <2>6. QED
      BY <2>1, <2>2, <2>3, <2>4, <2>5 DEF Inv, Burst
<1>6. QED
    BY <1>1, <1>2, <1>3, <1>4, <1>5 DEF Next

(* acquire() returns at most Rate times, and Rate more for each second, in    *)
(* any span of time, for any number of callers and any rate.                  *)
THEOREM RateIsKept == Spec => []RateKept
<1>1. Init => Inv
    BY NumberAssumption DEF Init, Inv, TypeOK, Paid, RateKept, Burst
<1>2. Inv /\ [Next]_vars => Inv'
    BY RateInvStep
<1>3. Inv => RateKept
    BY DEF Inv
<1>4. QED
    BY <1>1, <1>2, <1>3, PTL DEF Spec

-----------------------------------------------------------------------------
(* Fetching                                                                     *)

FetchTypeOK ==
  /\ step \in [Caller -> {"idle", "acquire", "limit", "get", "response", "sleep"}]
  /\ url \in [Caller -> Url] /\ current \in [Caller -> Url]
  /\ hop \in [Caller -> Nat] /\ sent \in [Caller -> Nat]
  /\ peer \in [Caller -> SUBSET Address]
  /\ answers \in [Caller -> Seq({"good", "bad"})]

(* A connection is open only for a valid URL, to public addresses.             *)
Safe(c) ==
  /\ step[c] \in {"get", "response"} => validate_public_url(current[c])
  /\ step[c] \notin {"get", "response"} => current[c] = url[c] /\ hop[c] = 0
  /\ step[c] # "response" => peer[c] = {}
  /\ AllowPrivate \/ \A a \in peer[c] : IsPublic(a)

(* Between a token and the end of its fetch() the coroutine may send as many    *)
(* requests as rounds are left.                                                  *)
Budget(c) ==
  /\ sent[c] <= (MaxRedirects + 1) * served[c]
  /\ hop[c] <= MaxRedirects
  /\ step[c] \in {"limit", "get"} => sent[c] + MaxRedirects + 1 <= (MaxRedirects + 1) * served[c] + hop[c]
  /\ step[c] = "response" => sent[c] + MaxRedirects <= (MaxRedirects + 1) * served[c] + hop[c]

(* While a fetch goes on all its attempts have failed, and one is left.        *)
Tries(c) ==
  /\ step[c] # "idle" => Len(answers[c]) <= MaxRetries /\ \A i \in 1..Len(answers[c]) : answers[c][i] = "bad"
  /\ \A i \in 1..(Len(answers[c]) - 1) : answers[c][i] # "good"
  /\ step[c] = "idle" /\ answers[c] # <<>> =>
       answers[c][Len(answers[c])] = "good" \/ Len(answers[c]) = MaxRetries + 1

CallerInv(c) == Safe(c) /\ Budget(c) /\ Tries(c)
FetchInv == Inv /\ FetchTypeOK /\ \A c \in Caller : CallerInv(c)

-----------------------------------------------------------------------------
LEMMA LimiterStep == [FetchNext]_fetchVars => [Next]_vars
BY DEF FetchNext, fetchVars, Next, vars, Time, Begin, Advance, Acquire, Fetch, Get, Raises, Redirect, Response, Retry

(* A coroutine whose state a step leaves alone keeps its invariant.            *)
LEMMA Untouched ==
  ASSUME NEW d \in Caller, CallerInv(d),
         step'[d] = step[d], url'[d] = url[d], current'[d] = current[d], hop'[d] = hop[d],
         peer'[d] = peer[d], answers'[d] = answers[d], sent'[d] = sent[d], served'[d] = served[d]
  PROVE  CallerInv(d)'
BY DEF CallerInv, Safe, Budget, Tries

LEMMA Redirects == MaxRedirects \in Nat /\ MaxRetries \in Nat /\ \A n \in Nat : (MaxRedirects + 1) * n \in Nat
<1>1. MaxRedirects \in Nat /\ MaxRetries \in Nat
    BY FetchAssumption
<1>2. ASSUME NEW k \in Nat, NEW n \in Nat PROVE k * n \in Nat
    OBVIOUS
<1>3. MaxRedirects + 1 \in Nat
    BY <1>1
<1>4. QED
    BY <1>1, <1>2, <1>3

LEMMA OneMore == ASSUME NEW n \in Nat PROVE (MaxRedirects + 1) * (n + 1) = (MaxRedirects + 1) * n + MaxRedirects + 1
BY Redirects

(* fetch() ends: the semaphore is left, and the attempt noted.                  *)
LEMMA ReturnedInv ==
  ASSUME FetchInv, NEW c \in Caller, NEW outcome \in {"good", "bad"}, Returned(c, outcome),
         step[c] \in {"limit", "get", "response"}, UNCHANGED <<vars, url, sent>>
  PROVE  FetchTypeOK' /\ \A d \in Caller : CallerInv(d)'
<1>1. FetchTypeOK /\ CallerInv(c) /\ served \in [Caller -> Nat] /\ MaxRetries \in Nat /\ MaxRedirects \in Nat
    BY Redirects DEF FetchInv, Inv, TypeOK
<1>2. /\ answers' = [answers EXCEPT ![c] = Append(@, outcome)]
      /\ current' = [current EXCEPT ![c] = url[c]] /\ hop' = [hop EXCEPT ![c] = 0] /\ peer' = [peer EXCEPT ![c] = {}]
      /\ step' = [step EXCEPT ![c] = IF outcome = "good" \/ Len(answers[c]) = MaxRetries THEN "idle" ELSE "sleep"]
      /\ UNCHANGED <<url, sent, served>>
    BY DEF Returned, NoRequest, StepTo, vars
<1>3. FetchTypeOK'
    BY <1>1, <1>2 DEF FetchTypeOK
<1>4. Safe(c)'
    BY <1>1, <1>2 DEF FetchTypeOK, Safe
<1>5. Budget(c)'
  <2>1. sent[c] <= (MaxRedirects + 1) * served[c]
      BY <1>1 DEF CallerInv, Budget
  <2>2. sent'[c] = sent[c] /\ served'[c] = served[c] /\ hop'[c] = 0 /\ step'[c] \in {"idle", "sleep"}
      BY <1>1, <1>2 DEF FetchTypeOK
  <2>3. QED
      BY <1>1, <2>1, <2>2 DEF Budget
<1>6. Tries(c)'
  <2> DEFINE tried == answers[c]
  <2>1. tried \in Seq({"good", "bad"}) /\ Len(tried) <= MaxRetries /\ \A i \in 1..Len(tried) : tried[i] = "bad"
      BY <1>1 DEF FetchTypeOK, CallerInv, Tries
  <2>2. answers'[c] = Append(tried, outcome)
      BY <1>1, <1>2 DEF FetchTypeOK
  <2>3. /\ Len(Append(tried, outcome)) = Len(tried) + 1
        /\ Append(tried, outcome)[Len(tried) + 1] = outcome
        /\ \A i \in 1..Len(tried) : Append(tried, outcome)[i] = "bad"
      BY <2>1
  <2>4. step'[c] = IF outcome = "good" \/ Len(tried) = MaxRetries THEN "idle" ELSE "sleep"
      BY <1>1, <1>2 DEF FetchTypeOK
  <2>5. Len(tried) \in Nat
      BY <2>1
  <2> HIDE DEF tried
  <2>6. QED
      BY <1>1, <2>1, <2>2, <2>3, <2>4, <2>5 DEF Tries
<1>7. ASSUME NEW d \in Caller, d # c PROVE CallerInv(d)'
  <2>1. CallerInv(d)
      BY DEF FetchInv
  <2>2. QED
      BY <1>1, <1>2, <1>7, <2>1, Untouched DEF FetchTypeOK
<1>8. QED
    BY <1>3, <1>4, <1>5, <1>6, <1>7 DEF CallerInv

-----------------------------------------------------------------------------
(* One step of one coroutine.                                                  *)

LEMMA BeginInv ==
  ASSUME FetchInv, NEW c \in Caller, Begin(c)
  PROVE  FetchTypeOK' /\ \A d \in Caller : CallerInv(d)'
<1>1. FetchTypeOK /\ CallerInv(c) /\ served \in [Caller -> Nat] /\ MaxRetries \in Nat /\ MaxRedirects \in Nat
    BY Redirects DEF FetchInv, Inv, TypeOK
<1>2. PICK u \in Url : url' = [url EXCEPT ![c] = u] /\ current' = [current EXCEPT ![c] = u]
    BY DEF Begin
<1>3. /\ answers' = [answers EXCEPT ![c] = <<>>] /\ step' = [step EXCEPT ![c] = "acquire"]
      /\ step[c] = "idle" /\ UNCHANGED <<hop, peer, sent, served>>
    BY DEF Begin, Ask, StepTo
<1>4. FetchTypeOK'
    BY <1>1, <1>2, <1>3 DEF FetchTypeOK
<1>5. Safe(c)' /\ Tries(c)'
    BY <1>1, <1>2, <1>3 DEF FetchTypeOK, CallerInv, Safe, Tries
<1>6. Budget(c)'
    BY <1>1, <1>3 DEF FetchTypeOK, CallerInv, Budget
<1>7. ASSUME NEW d \in Caller, d # c PROVE CallerInv(d)'
  <2>1. CallerInv(d)
      BY DEF FetchInv
  <2>2. QED
      BY <1>1, <1>2, <1>3, <1>7, <2>1, Untouched DEF FetchTypeOK
<1>8. QED
    BY <1>4, <1>5, <1>6, <1>7 DEF CallerInv

LEMMA AcquireInv ==
  ASSUME FetchInv, NEW c \in Caller, Acquire(c)
  PROVE  FetchTypeOK' /\ \A d \in Caller : CallerInv(d)'
<1>1. FetchTypeOK /\ CallerInv(c) /\ served \in [Caller -> Nat] /\ MaxRetries \in Nat /\ MaxRedirects \in Nat
    BY Redirects DEF FetchInv, Inv, TypeOK
<1>2. step[c] = "acquire" /\ UNCHANGED <<url, answers, current, hop, peer, sent>>
    BY DEF Acquire, request
<1>3. \/ served' = served /\ step' = step
      \/ served' = [served EXCEPT ![c] = @ + 1] /\ step' = [step EXCEPT ![c] = "limit"]
  <2>1. CASE served' = served
      BY <2>1 DEF Acquire
  <2>2. CASE served' # served
      BY <2>2 DEF Acquire, Take, StepTo
  <2>3. QED
      BY <2>1, <2>2
<1>4. FetchTypeOK'
    BY <1>1, <1>2, <1>3 DEF FetchTypeOK
<1>5. ASSUME NEW d \in Caller, d # c \/ served' = served PROVE CallerInv(d)'
  <2>1. CallerInv(d)
      BY DEF FetchInv
  <2>2. step'[d] = step[d] /\ served'[d] = served[d]
      BY <1>1, <1>3, <1>5 DEF FetchTypeOK
  <2>3. QED
      BY <1>2, <2>1, <2>2, Untouched
<1>6. ASSUME served' # served PROVE CallerInv(c)'
  <2>1. step'[c] = "limit" /\ served'[c] = served[c] + 1
      BY <1>1, <1>3, <1>6 DEF FetchTypeOK
  <2>2. Safe(c)' /\ Tries(c)'
      BY <1>1, <1>2, <2>1 DEF CallerInv, Safe, Tries
  <2>3. sent[c] \in Nat /\ hop[c] = 0 /\ sent[c] <= (MaxRedirects + 1) * served[c]
      BY <1>1, <1>2 DEF FetchTypeOK, CallerInv, Budget, Safe
  <2>4. (MaxRedirects + 1) * served'[c] = (MaxRedirects + 1) * served[c] + MaxRedirects + 1
      BY <1>1, <2>1, OneMore
  <2>5. (MaxRedirects + 1) * served[c] \in Nat
      BY <1>1, Redirects
  <2>6. Budget(c)'
      BY <1>1, <1>2, <2>1, <2>3, <2>4, <2>5 DEF Budget
  <2>7. QED
      BY <2>2, <2>6 DEF CallerInv
<1>7. QED
    BY <1>4, <1>5, <1>6

LEMMA FetchStepInv ==
  ASSUME FetchInv, NEW c \in Caller, Fetch(c)
  PROVE  FetchTypeOK' /\ \A d \in Caller : CallerInv(d)'
<1>1. CASE ~validate_public_url(url[c])
    BY <1>1, ReturnedInv DEF Fetch
<1>2. CASE validate_public_url(url[c])
  <2>1. FetchTypeOK /\ CallerInv(c)
      BY DEF FetchInv
  <2>2. /\ step[c] = "limit" /\ step' = [step EXCEPT ![c] = "get"]
        /\ UNCHANGED <<served, url, answers, current, hop, peer, sent>>
      BY <1>2 DEF Fetch, StepTo, vars, request
  <2>3. FetchTypeOK'
      BY <2>1, <2>2 DEF FetchTypeOK
  <2>4. step'[c] = "get"
      BY <2>1, <2>2 DEF FetchTypeOK
  <2>5. Safe(c)'
      BY <1>2, <2>1, <2>2, <2>4 DEF CallerInv, Safe, validate_public_url, IsPublic
  <2>6. Budget(c)' /\ Tries(c)'
      BY <2>1, <2>2, <2>4 DEF CallerInv, Budget, Tries
  <2>7. ASSUME NEW d \in Caller, d # c PROVE CallerInv(d)'
    <3>1. CallerInv(d)
        BY DEF FetchInv
    <3>2. QED
        BY <2>1, <2>2, <2>7, <3>1, Untouched DEF FetchTypeOK
  <2>8. QED
      BY <2>3, <2>5, <2>6, <2>7 DEF CallerInv
<1>3. QED
    BY <1>1, <1>2

LEMMA GetInv ==
  ASSUME FetchInv, NEW c \in Caller, Get(c)
  PROVE  FetchTypeOK' /\ \A d \in Caller : CallerInv(d)'
<1>1. FetchTypeOK /\ CallerInv(c) /\ served \in [Caller -> Nat] /\ MaxRedirects \in Nat
    BY Redirects DEF FetchInv, Inv, TypeOK
<1>2. PICK addresses \in SUBSET Address :
        Resolved(current[c], addresses) /\ peer' = [peer EXCEPT ![c] = addresses]
    BY DEF Get
<1>3. /\ step[c] = "get" /\ step' = [step EXCEPT ![c] = "response"] /\ sent' = [sent EXCEPT ![c] = @ + 1]
      /\ UNCHANGED <<served, url, current, hop, answers>>
    BY DEF Get, StepTo, vars
<1>4. FetchTypeOK'
    BY <1>1, <1>2, <1>3 DEF FetchTypeOK
<1>5. step'[c] = "response" /\ peer'[c] = addresses /\ sent'[c] = sent[c] + 1
    BY <1>1, <1>2, <1>3 DEF FetchTypeOK
<1>6. Safe(c)'
  <2>1. validate_public_url(current[c])
      BY <1>1, <1>3 DEF CallerInv, Safe
  <2>2. AllowPrivate \/ \A a \in addresses : IsPublic(a)
      BY <1>2, <2>1 DEF Resolved, IsPublic, validate_public_url
  <2>3. QED
      BY <1>3, <1>5, <2>1, <2>2 DEF Safe, validate_public_url, IsPublic
<1>7. Budget(c)'
  <2>1. sent[c] \in Nat /\ hop[c] \in Nat /\ (MaxRedirects + 1) * served[c] \in Nat
      BY <1>1, Redirects DEF FetchTypeOK
  <2>2. QED
      BY <1>1, <1>3, <1>5, <2>1 DEF CallerInv, Budget
<1>8. Tries(c)'
    BY <1>1, <1>3, <1>5 DEF CallerInv, Tries
<1>9. ASSUME NEW d \in Caller, d # c PROVE CallerInv(d)'
  <2>1. CallerInv(d)
      BY DEF FetchInv
  <2>2. QED
      BY <1>1, <1>2, <1>3, <1>9, <2>1, Untouched DEF FetchTypeOK
<1>10. QED
    BY <1>4, <1>6, <1>7, <1>8, <1>9 DEF CallerInv

LEMMA RedirectInv ==
  ASSUME FetchInv, NEW c \in Caller, Redirect(c)
  PROVE  FetchTypeOK' /\ \A d \in Caller : CallerInv(d)'
<1>1. PICK location \in Url :
        IF validate_public_url(location) /\ hop[c] < MaxRedirects THEN Follow(c, location) ELSE Returned(c, "bad")
    BY DEF Redirect
<1>2. step[c] = "response" /\ UNCHANGED <<vars, url, sent>>
    BY DEF Redirect
<1>3. CASE ~(validate_public_url(location) /\ hop[c] < MaxRedirects)
    BY <1>1, <1>2, <1>3, ReturnedInv
<1>4. CASE validate_public_url(location) /\ hop[c] < MaxRedirects
  <2>1. FetchTypeOK /\ CallerInv(c) /\ served \in [Caller -> Nat] /\ MaxRedirects \in Nat
      BY Redirects DEF FetchInv, Inv, TypeOK
  <2>2. /\ current' = [current EXCEPT ![c] = location] /\ hop' = [hop EXCEPT ![c] = @ + 1]
        /\ peer' = [peer EXCEPT ![c] = {}] /\ step' = [step EXCEPT ![c] = "get"]
        /\ UNCHANGED <<served, url, sent, answers>>
      BY <1>1, <1>2, <1>4 DEF Follow, StepTo, vars
  <2>3. FetchTypeOK'
      BY <2>1, <2>2 DEF FetchTypeOK
  <2>4. step'[c] = "get" /\ current'[c] = location /\ hop'[c] = hop[c] + 1 /\ peer'[c] = {}
      BY <2>1, <2>2 DEF FetchTypeOK
  <2>5. Safe(c)'
      BY <1>4, <2>4 DEF Safe, validate_public_url, IsPublic
  <2>6. Budget(c)'
    <3>1. sent[c] \in Nat /\ hop[c] \in Nat /\ (MaxRedirects + 1) * served[c] \in Nat
        BY <2>1, Redirects DEF FetchTypeOK
    <3>2. QED
        BY <1>2, <1>4, <2>1, <2>2, <2>4, <3>1 DEF CallerInv, Budget
  <2>7. Tries(c)'
      BY <1>2, <2>1, <2>2, <2>4 DEF CallerInv, Tries
  <2>8. ASSUME NEW d \in Caller, d # c PROVE CallerInv(d)'
    <3>1. CallerInv(d)
        BY DEF FetchInv
    <3>2. QED
        BY <2>1, <2>2, <2>8, <3>1, Untouched DEF FetchTypeOK
  <2>9. QED
      BY <2>3, <2>5, <2>6, <2>7, <2>8 DEF CallerInv
<1>5. QED
    BY <1>3, <1>4

LEMMA RetryInv ==
  ASSUME FetchInv, NEW c \in Caller, Retry(c)
  PROVE  FetchTypeOK' /\ \A d \in Caller : CallerInv(d)'
<1>1. FetchTypeOK /\ CallerInv(c) /\ served \in [Caller -> Nat] /\ MaxRedirects \in Nat
    BY Redirects DEF FetchInv, Inv, TypeOK
<1>2. /\ step[c] = "sleep" /\ step' = [step EXCEPT ![c] = "acquire"]
      /\ UNCHANGED <<served, url, current, hop, peer, answers, sent>>
    BY DEF Retry, Ask, StepTo, request
<1>3. FetchTypeOK' /\ step'[c] = "acquire"
    BY <1>1, <1>2 DEF FetchTypeOK
<1>4. CallerInv(c)'
    BY <1>1, <1>2, <1>3 DEF CallerInv, Safe, Budget, Tries
<1>5. ASSUME NEW d \in Caller, d # c PROVE CallerInv(d)'
  <2>1. CallerInv(d)
      BY DEF FetchInv
  <2>2. QED
      BY <1>1, <1>2, <1>5, <2>1, Untouched DEF FetchTypeOK
<1>6. QED
    BY <1>3, <1>4, <1>5

LEMMA FetchInvStep == FetchInv /\ [FetchNext]_fetchVars => FetchInv'
<1> SUFFICES ASSUME FetchInv, [FetchNext]_fetchVars PROVE FetchInv'
    OBVIOUS
<1>1. Inv'
    BY LimiterStep, RateInvStep DEF FetchInv
<1>2. CASE UNCHANGED fetchVars \/ Time
  <2>1. UNCHANGED <<served, step, url, current, hop, peer, answers, sent>>
      BY <1>2 DEF fetchVars, vars, Time, Tick, request
  <2>2. FetchTypeOK'
      BY <2>1 DEF FetchInv, FetchTypeOK
  <2>3. ASSUME NEW d \in Caller PROVE CallerInv(d)'
      BY <2>1, Untouched DEF FetchInv
  <2>4. QED
      BY <1>1, <2>2, <2>3 DEF FetchInv
<1>3. ASSUME NEW c \in Caller, Begin(c) PROVE FetchInv'
    BY <1>1, <1>3, BeginInv DEF FetchInv
<1>4. ASSUME NEW c \in Caller, Advance(c) PROVE FetchInv'
  <2>1. CASE Acquire(c)
      BY <1>1, <2>1, AcquireInv DEF FetchInv
  <2>2. CASE Fetch(c)
      BY <1>1, <2>2, FetchStepInv DEF FetchInv
  <2>3. CASE Get(c)
      BY <1>1, <2>3, GetInv DEF FetchInv
  <2>4. CASE Raises(c)
    <3>1. FetchTypeOK' /\ \A d \in Caller : CallerInv(d)'
        BY <2>4, ReturnedInv DEF Raises
    <3>2. QED
        BY <1>1, <3>1 DEF FetchInv
  <2>5. CASE Redirect(c)
      BY <1>1, <2>5, RedirectInv DEF FetchInv
  <2>6. CASE Response(c)
    <3>1. FetchTypeOK' /\ \A d \in Caller : CallerInv(d)'
        BY <2>6, ReturnedInv DEF Response
    <3>2. QED
        BY <1>1, <3>1 DEF FetchInv
  <2>7. CASE Retry(c)
      BY <1>1, <2>7, RetryInv DEF FetchInv
  <2>8. QED
      BY <1>4, <2>1, <2>2, <2>3, <2>4, <2>5, <2>6, <2>7 DEF Advance
<1>5. QED
    BY <1>2, <1>3, <1>4 DEF FetchNext

LEMMA FetchInvInit == FetchInit => FetchInv
<1> SUFFICES ASSUME FetchInit PROVE FetchInv
    OBVIOUS
<1>1. Inv
  <2>1. Init
      BY DEF FetchInit
  <2>2. Init => Inv
      BY NumberAssumption DEF Init, Inv, TypeOK, Paid, RateKept, Burst
  <2>3. QED
      BY <2>1, <2>2
<1>2. Some \in Url
    BY FetchAssumption DEF Some
<1>3. FetchTypeOK
  <2>1. <<>> \in Seq({"good", "bad"})
      OBVIOUS
  <2>2. QED
      BY <1>2, <2>1 DEF FetchInit, FetchTypeOK
<1>4. ASSUME NEW c \in Caller PROVE CallerInv(c)
  <2>1. peer[c] = {} /\ current[c] = url[c] /\ answers[c] = <<>>
      BY DEF FetchInit
  <2>2. sent[c] = 0 /\ served[c] = 0 /\ hop[c] = 0 /\ step[c] = "idle"
      BY DEF FetchInit, Init
  <2>3. Budget(c)
      BY <2>2, Redirects DEF Budget
  <2>4. Safe(c) /\ Tries(c)
      BY <2>1, <2>2 DEF Safe, Tries
  <2>5. QED
      BY <2>3, <2>4 DEF CallerInv
<1>5. QED
    BY <1>1, <1>3, <1>4 DEF FetchInv

-----------------------------------------------------------------------------
(* The semaphores: who is in a line is in that limit() and no other, once; who   *)
(* fetches is among the first PerDomain of its line.                             *)

Inside == {"limit", "get", "response"}

Once(queue) == \A i, j \in DOMAIN queue : queue[i] = queue[j] => i = j

LineInv ==
  /\ line \in [Host \cup {""} -> Seq(Caller)]
  /\ \A h \in Host \cup {""} :
       /\ Once(line[h])
       /\ \A i \in DOMAIN line[h] : step[line[h][i]] \in Inside /\ url[line[h][i]].host = h
  /\ \A c \in Caller : step[c] \in {"get", "response"} => Holds(c)

LimitInv == FetchTypeOK /\ LineInv

(* The queue when the one at that place has left: nobody who stays moves back   *)
(* or is lost.                                                                   *)
MovedUp(queue, at, rest) ==
  /\ rest \in Seq(Caller) /\ Once(rest)
  /\ \A i \in DOMAIN rest : rest[i] # queue[at] /\ \E k \in DOMAIN queue : rest[i] = queue[k]
  /\ \A i \in DOMAIN queue : i # at => \E k \in DOMAIN rest : k <= i /\ rest[k] = queue[i]

LEMMA WithoutIs ==
  ASSUME NEW queue \in Seq(Caller), Once(queue), NEW at \in DOMAIN queue,
         NEW c, queue[at] = c, NEW rest, rest = Without(queue, c)
  PROVE  MovedUp(queue, at, rest)
<1> DEFINE n == Len(queue)
           Place(i) == IF i < at THEN i ELSE i + 1
<1>1. n \in Nat /\ DOMAIN queue = 1..n /\ at \in 1..n
    OBVIOUS
<1>2. at = CHOOSE i \in DOMAIN queue : queue[i] = c
    BY DEF Once
<1>3. rest = [i \in 1..(n - 1) |-> queue[Place(i)]]
    BY <1>2, Zenon DEF Without
<1>4. \A i \in 1..(n - 1) : Place(i) \in 1..n /\ Place(i) # at
    BY <1>1
<1>5. rest \in Seq(Caller) /\ Len(rest) = n - 1 /\ DOMAIN rest = 1..(n - 1)
    BY <1>1, <1>3, <1>4
<1>6. \A i \in DOMAIN rest : rest[i] = queue[Place(i)] /\ rest[i] # c
    BY <1>1, <1>3, <1>4, <1>5 DEF Once
<1>7. ASSUME NEW i \in DOMAIN queue, i # at
      PROVE  \E k \in DOMAIN rest : k <= i /\ rest[k] = queue[i]
  <2>1. CASE i < at
    <3>1. i \in DOMAIN rest /\ Place(i) = i /\ i <= i
        BY <1>1, <1>5, <2>1
    <3>2. rest[i] = queue[i]
        BY <1>6, <3>1
    <3>3. QED
        BY <3>1, <3>2
  <2>2. CASE i > at
    <3>1. i - 1 \in DOMAIN rest /\ Place(i - 1) = i /\ i - 1 <= i
        BY <1>1, <1>5, <2>2
    <3>2. rest[i - 1] = queue[i]
        BY <1>6, <3>1
    <3>3. QED
        BY <3>1, <3>2
  <2>3. QED
      BY <1>1, <1>7, <2>1, <2>2
<1>8. Once(rest)
  <2> SUFFICES ASSUME NEW i \in DOMAIN rest, NEW j \in DOMAIN rest, rest[i] = rest[j] PROVE i = j
      BY DEF Once
  <2>1. i \in 1..(n - 1) /\ j \in 1..(n - 1) /\ queue[Place(i)] = queue[Place(j)]
      BY <1>5, <1>6
  <2>2. Place(i) = Place(j)
      BY <1>1, <1>4, <2>1 DEF Once
  <2>3. QED
      BY <1>1, <2>1, <2>2
<1>9. \A i \in DOMAIN rest : \E k \in DOMAIN queue : rest[i] = queue[k]
    BY <1>1, <1>4, <1>5, <1>6
<1>10. QED
    BY <1>5, <1>6, <1>7, <1>8, <1>9 DEF MovedUp

LEMMA Permits == PerDomain \in Nat \ {0}
BY FetchAssumption

LEMMA Hosts ==
  ASSUME LimitInv, NEW c \in Caller
  PROVE  url[c].host \in Host \cup {""} /\ step[c] \in {"idle", "acquire", "limit", "get", "response", "sleep"}
<1>1. url[c] \in Url
    BY DEF LimitInv, FetchTypeOK
<1>2. url[c] \in [scheme : {"http", "https", "other"}, host : Host \cup {""}, credentials : BOOLEAN]
    BY <1>1, FetchAssumption
<1>3. QED
    BY <1>2 DEF LimitInv, FetchTypeOK

LEMMA Queues ==
  ASSUME NEW queue \in Seq(Caller)
  PROVE  /\ DOMAIN queue = 1..Len(queue) /\ Len(queue) \in Nat
         /\ \A i \in DOMAIN queue : queue[i] \in Caller
OBVIOUS

LEMMA Lines ==
  ASSUME LimitInv, NEW h \in Host \cup {""}
  PROVE  /\ line[h] \in Seq(Caller) /\ Once(line[h]) /\ DOMAIN line[h] = 1..Len(line[h]) /\ Len(line[h]) \in Nat
         /\ \A i \in DOMAIN line[h] :
              line[h][i] \in Caller /\ step[line[h][i]] \in Inside /\ url[line[h][i]].host = h
<1>1. line[h] \in Seq(Caller) /\ Once(line[h])
    BY DEF LimitInv, LineInv
<1>2. /\ DOMAIN line[h] = 1..Len(line[h]) /\ Len(line[h]) \in Nat
      /\ \A i \in DOMAIN line[h] : line[h][i] \in Caller
    BY <1>1, Queues
<1>3. \A i \in DOMAIN line[h] : step[line[h][i]] \in Inside /\ url[line[h][i]].host = h
    BY DEF LimitInv, LineInv
<1>4. QED
    BY <1>1, <1>2, <1>3

(* A step that lets everybody stay where he stands.                             *)
LEMMA LinesStay ==
  ASSUME LimitInv, line' = line,
         \A d \in Caller : step[d] \in Inside => step'[d] \in Inside /\ url'[d] = url[d],
         \A d \in Caller : step'[d] \in {"get", "response"} => step[d] \in Inside /\ Holds(d)
  PROVE  LineInv'
<1>1. ASSUME NEW h \in Host \cup {""}, NEW i \in DOMAIN line[h]
      PROVE  step'[line[h][i]] \in Inside /\ url'[line[h][i]].host = h
  <2>1. line[h][i] \in Caller /\ step[line[h][i]] \in Inside /\ url[line[h][i]].host = h
      BY Lines
  <2>2. QED
      BY <2>1
<1>2. ASSUME NEW d \in Caller, step'[d] \in {"get", "response"} PROVE Holds(d)'
  <2>1. Holds(d) /\ url'[d] = url[d]
      BY <1>2
  <2>2. QED
      BY <2>1 DEF Holds
<1>3. QED
    BY <1>1, <1>2 DEF LimitInv, LineInv

(* fetch() has its result: the semaphore goes to the next in its line.          *)
LEMMA LineMoves ==
  ASSUME LimitInv, NEW c \in Caller, NEW outcome, Returned(c, outcome), Holds(c), UNCHANGED url
  PROVE  LineInv'
<1> DEFINE host == url[c].host
<1>1. host \in Host \cup {""}
    BY Hosts
<1>2. PICK queue :
        /\ queue = line[host] /\ queue \in Seq(Caller) /\ Once(queue)
        /\ DOMAIN queue = 1..Len(queue) /\ Len(queue) \in Nat
    BY <1>1, Lines
<1>3. PICK at : at \in DOMAIN queue /\ queue[at] = c
  <2>1. PICK i : i \in 1..PerDomain /\ i <= Len(queue) /\ queue[i] = c
      BY <1>2 DEF Holds
  <2>2. i \in DOMAIN queue
      BY <1>2, <2>1, Permits
  <2>3. QED
      BY <2>1, <2>2
<1>4. PICK rest : rest = Without(queue, c)
    OBVIOUS
<1>5. /\ rest \in Seq(Caller) /\ Once(rest) /\ DOMAIN rest = 1..Len(rest) /\ Len(rest) \in Nat
      /\ \A i \in DOMAIN rest : rest[i] # c /\ \E k \in DOMAIN queue : rest[i] = queue[k]
      /\ \A i \in DOMAIN queue : i # at => \E k \in DOMAIN rest : k <= i /\ rest[k] = queue[i]
  <2>1. /\ rest \in Seq(Caller) /\ Once(rest)
        /\ \A i \in DOMAIN rest : rest[i] # c /\ \E k \in DOMAIN queue : rest[i] = queue[k]
        /\ \A i \in DOMAIN queue : i # at => \E k \in DOMAIN rest : k <= i /\ rest[k] = queue[i]
    <3>1. MovedUp(queue, at, rest)
        BY <1>2, <1>3, <1>4, WithoutIs
    <3>2. QED
        BY <1>3, <3>1 DEF MovedUp
  <2>2. DOMAIN rest = 1..Len(rest) /\ Len(rest) \in Nat
      BY <2>1, Queues
  <2>3. QED
      BY <2>1, <2>2
<1>6. /\ line' \in [Host \cup {""} -> Seq(Caller)]
      /\ line'[host] = rest /\ \A h \in Host \cup {""} : h # host => line'[h] = line[h]
  <2>1. line' = [line EXCEPT ![host] = rest]
      BY <1>2, <1>4 DEF Returned, Left
  <2>2. line \in [Host \cup {""} -> Seq(Caller)]
      BY DEF LimitInv, LineInv
  <2>3. QED
      BY <1>1, <1>5, <2>1, <2>2
<1>7. \A d \in Caller : d # c => step'[d] = step[d]
    BY DEF Returned, StepTo, LimitInv, FetchTypeOK
<1>8. step'[c] \in {"idle", "sleep"}
    BY DEF Returned, StepTo, LimitInv, FetchTypeOK
<1>9. ASSUME NEW h \in Host \cup {""}, NEW i \in DOMAIN line'[h]
      PROVE  step'[line'[h][i]] \in Inside /\ url'[line'[h][i]].host = h
  <2>1. PICK k \in DOMAIN line[h] : line'[h][i] = line[h][k]
    <3>1. CASE h = host
        BY <1>2, <1>5, <1>6, <1>9, <3>1
    <3>2. CASE h # host
        BY <1>6, <1>9, <3>2
    <3>3. QED
        BY <3>1, <3>2
  <2>2. line[h][k] \in Caller /\ step[line[h][k]] \in Inside /\ url[line[h][k]].host = h
      BY Lines
  <2>3. line'[h][i] # c
    <3>1. CASE h = host
        BY <1>5, <1>6, <1>9, <3>1
    <3>2. CASE h # host
        BY <2>1, <2>2, <3>2
    <3>3. QED
        BY <3>1, <3>2
  <2>4. QED
      BY <1>7, <2>1, <2>2, <2>3
<1>10. ASSUME NEW h \in Host \cup {""} PROVE Once(line'[h])
    BY <1>5, <1>6 DEF LimitInv, LineInv
<1>11. ASSUME NEW d \in Caller, step'[d] \in {"get", "response"} PROVE Holds(d)'
  <2>1. d # c /\ step[d] \in {"get", "response"}
      BY <1>7, <1>8, <1>11
  <2>2. PICK i : i \in 1..PerDomain /\ i <= Len(line[url[d].host]) /\ line[url[d].host][i] = d
      BY <2>1 DEF LimitInv, LineInv, Holds
  <2>3. url[d].host \in Host \cup {""} /\ PerDomain \in Nat
      BY Hosts, Permits
  <2>4. CASE url[d].host # host
      BY <1>6, <2>2, <2>3, <2>4 DEF Holds
  <2>5. CASE url[d].host = host
    <3>1. i \in DOMAIN queue /\ i # at /\ queue[i] = d
      <4>1. i \in 1..PerDomain /\ i <= Len(queue) /\ queue[i] = d
          BY <1>2, <2>2, <2>5
      <4>2. i \in DOMAIN queue
          BY <1>2, <4>1, Permits
      <4>3. QED
          BY <1>3, <2>1, <4>1, <4>2
    <3>2. PICK k : k \in DOMAIN rest /\ k <= i /\ rest[k] = d
        BY <1>5, <3>1
    <3>3. k \in 1..PerDomain /\ k <= Len(rest)
      <4>1. k \in 1..Len(rest) /\ k <= i /\ i \in 1..PerDomain
          BY <1>5, <2>2, <3>2
      <4>2. QED
          BY <1>5, <4>1, Permits
    <3>4. QED
        BY <1>6, <2>5, <3>2, <3>3 DEF Holds
  <2>6. QED
      BY <2>4, <2>5
<1>12. QED
    BY <1>6, <1>9, <1>10, <1>11 DEF LineInv

(* A caller with its token queues up behind everybody.                           *)
LEMMA LineGrows ==
  ASSUME LimitInv, NEW c \in Caller, step[c] = "acquire", UNCHANGED url,
         step' = [step EXCEPT ![c] = "limit"], line' = [line EXCEPT ![url[c].host] = Append(@, c)]
  PROVE  LineInv'
<1> DEFINE host == url[c].host
<1>1. host \in Host \cup {""}
    BY Hosts
<1>2. PICK queue :
        /\ queue = line[host] /\ queue \in Seq(Caller) /\ Once(queue)
        /\ DOMAIN queue = 1..Len(queue) /\ Len(queue) \in Nat
    BY <1>1, Lines
<1>3. PICK more : more = Append(queue, c)
    OBVIOUS
<1>4. /\ more \in Seq(Caller) /\ DOMAIN more = 1..(Len(queue) + 1) /\ Len(more) = Len(queue) + 1
      /\ more[Len(queue) + 1] = c /\ \A i \in 1..Len(queue) : more[i] = queue[i]
    BY <1>2, <1>3
<1>5. /\ line' \in [Host \cup {""} -> Seq(Caller)]
      /\ line'[host] = more /\ \A h \in Host \cup {""} : h # host => line'[h] = line[h]
  <2>1. line' = [line EXCEPT ![host] = more]
      BY <1>2, <1>3
  <2>2. line \in [Host \cup {""} -> Seq(Caller)]
      BY DEF LimitInv, LineInv
  <2>3. more \in Seq(Caller)
      BY <1>4
  <2>4. QED
      BY <1>1, <2>1, <2>2, <2>3
<1>6. step'[c] = "limit" /\ \A d \in Caller : d # c => step'[d] = step[d]
    BY DEF LimitInv, FetchTypeOK
<1>7. \A i \in DOMAIN queue : queue[i] \in Caller /\ queue[i] # c /\ step[queue[i]] \in Inside /\ url[queue[i]].host = host
    BY <1>1, <1>2, Lines DEF Inside
<1>8. \A k \in DOMAIN more : k \notin DOMAIN queue => k = Len(queue) + 1
    BY <1>2, <1>4
<1>9. Once(more)
  <2> SUFFICES ASSUME NEW i \in DOMAIN more, NEW j \in DOMAIN more, more[i] = more[j] PROVE i = j
      BY DEF Once
  <2>1. CASE i \in DOMAIN queue /\ j \in DOMAIN queue
      BY <1>2, <1>4, <2>1 DEF Once
  <2>2. ASSUME NEW k \in DOMAIN more
        PROVE  IF k \in DOMAIN queue THEN more[k] # c ELSE k = Len(queue) + 1 /\ more[k] = c
    <3>1. CASE k \in DOMAIN queue
        BY <1>2, <1>4, <1>7, <3>1
    <3>2. CASE k \notin DOMAIN queue
      <4>1. k = Len(queue) + 1
          BY <1>8, <3>2
      <4>2. QED
          BY <1>4, <3>2, <4>1
    <3>3. QED
        BY <3>1, <3>2
  <2>3. QED
      BY <2>1, <2>2
<1>10. ASSUME NEW h \in Host \cup {""}, NEW i \in DOMAIN line'[h]
      PROVE  step'[line'[h][i]] \in Inside /\ url'[line'[h][i]].host = h
  <2>1. CASE h # host
    <3>1. /\ line[h][i] \in Caller /\ step[line[h][i]] \in Inside /\ url[line[h][i]].host = h
          /\ line'[h][i] = line[h][i]
        BY <1>5, <1>10, <2>1, Lines
    <3>2. QED
        BY <1>6, <2>1, <3>1
  <2>2. CASE h = host /\ i \in DOMAIN queue
    <3>1. line'[h][i] = queue[i]
        BY <1>2, <1>4, <1>5, <2>2
    <3>2. QED
        BY <1>6, <1>7, <2>2, <3>1
  <2>3. CASE h = host /\ i \notin DOMAIN queue
    <3>1. i = Len(queue) + 1
        BY <1>5, <1>8, <1>10, <2>3
    <3>2. line'[h][i] = c
        BY <1>4, <1>5, <2>3, <3>1
    <3>3. QED
        BY <1>6, <2>3, <3>2 DEF Inside
  <2>4. QED
      BY <2>1, <2>2, <2>3
<1>11. ASSUME NEW h \in Host \cup {""} PROVE Once(line'[h])
  <2>1. Once(line[h])
      BY Lines
  <2>2. QED
      BY <1>5, <1>9, <2>1
<1>12. ASSUME NEW d \in Caller, step'[d] \in {"get", "response"} PROVE Holds(d)'
  <2>1. d # c /\ step[d] \in {"get", "response"}
      BY <1>6, <1>12
  <2>2. PICK i : i \in 1..PerDomain /\ i <= Len(line[url[d].host]) /\ line[url[d].host][i] = d
      BY <2>1 DEF LimitInv, LineInv, Holds
  <2>3. url[d].host \in Host \cup {""}
      BY Hosts
  <2>4. CASE url[d].host # host
      BY <1>5, <2>2, <2>3, <2>4 DEF Holds
  <2>5. CASE url[d].host = host
    <3>1. i \in 1..PerDomain /\ i <= Len(queue) /\ queue[i] = d
        BY <1>2, <2>2, <2>5
    <3>2. i \in 1..Len(queue)
        BY <1>2, <3>1, Permits
    <3>3. i <= Len(more) /\ more[i] = d
        BY <1>2, <1>4, <3>1, <3>2, Permits
    <3>4. QED
        BY <1>5, <2>5, <3>1, <3>3 DEF Holds
  <2>6. QED
      BY <2>4, <2>5
<1>13. QED
    BY <1>5, <1>10, <1>11, <1>12 DEF LineInv

LEMMA LimitStep == FetchInv /\ LineInv /\ [FetchNext]_fetchVars => LineInv'
<1> SUFFICES ASSUME FetchInv, LineInv, [FetchNext]_fetchVars PROVE LineInv'
    OBVIOUS
<1>1. LimitInv
    BY DEF LimitInv, FetchInv
<1>2. /\ step \in [Caller -> {"idle", "acquire", "limit", "get", "response", "sleep"}]
      /\ url \in [Caller -> Url] /\ \A d \in Caller : step[d] \in {"get", "response"} => Holds(d)
    BY <1>1 DEF LimitInv, LineInv, FetchTypeOK
<1>3. CASE UNCHANGED fetchVars \/ Time
  <2>1. UNCHANGED <<step, url, line>>
      BY <1>3 DEF fetchVars, Time
  <2>2. QED
      BY <1>1, <1>2, <2>1, LinesStay DEF Inside
<1>4. ASSUME NEW c \in Caller, Begin(c) PROVE LineInv'
  <2>1. PICK u \in Url : url' = [url EXCEPT ![c] = u]
      BY <1>4 DEF Begin
  <2>2. step[c] = "idle" /\ step' = [step EXCEPT ![c] = "acquire"] /\ line' = line
      BY <1>4 DEF Begin, StepTo
  <2>3. QED
      BY <1>1, <1>2, <2>1, <2>2, LinesStay DEF Inside
<1>5. ASSUME NEW c \in Caller, Acquire(c) PROVE LineInv'
  <2>1. CASE served' = served
    <3>1. UNCHANGED <<step, url, line>>
        BY <1>5, <2>1 DEF Acquire
    <3>2. QED
        BY <1>1, <1>2, <3>1, LinesStay DEF Inside
  <2>2. CASE served' # served
      BY <1>1, <1>5, <2>2, LineGrows DEF Acquire, StepTo
  <2>3. QED
      BY <2>1, <2>2
<1>6. ASSUME NEW c \in Caller, Fetch(c) PROVE LineInv'
  <2>1. step[c] = "limit" /\ Holds(c) /\ UNCHANGED url
      BY <1>6 DEF Fetch
  <2>2. CASE validate_public_url(url[c])
    <3>1. step' = [step EXCEPT ![c] = "get"] /\ line' = line
        BY <1>6, <2>2 DEF Fetch, StepTo
    <3>2. QED
        BY <1>1, <1>2, <2>1, <3>1, LinesStay DEF Inside
  <2>3. CASE ~validate_public_url(url[c])
      BY <1>1, <1>6, <2>1, <2>3, LineMoves DEF Fetch
  <2>4. QED
      BY <2>2, <2>3
<1>7. ASSUME NEW c \in Caller, Get(c) PROVE LineInv'
  <2>1. step[c] = "get" /\ step' = [step EXCEPT ![c] = "response"] /\ UNCHANGED <<url, line>>
      BY <1>7 DEF Get, StepTo
  <2>2. QED
      BY <1>1, <1>2, <2>1, LinesStay DEF Inside
<1>8. ASSUME NEW c \in Caller, Raises(c) \/ Response(c) PROVE LineInv'
  <2>1. step[c] \in {"get", "response"} /\ UNCHANGED url /\ \E outcome \in {"good", "bad"} : Returned(c, outcome)
      BY <1>8 DEF Raises, Response
  <2>2. QED
      BY <1>1, <1>2, <2>1, LineMoves
<1>9. ASSUME NEW c \in Caller, Redirect(c) PROVE LineInv'
  <2>1. PICK location \in Url :
          IF validate_public_url(location) /\ hop[c] < MaxRedirects THEN Follow(c, location) ELSE Returned(c, "bad")
      BY <1>9 DEF Redirect
  <2>2. step[c] = "response" /\ UNCHANGED url
      BY <1>9 DEF Redirect
  <2>3. CASE Follow(c, location)
    <3>1. step' = [step EXCEPT ![c] = "get"] /\ line' = line
        BY <2>3 DEF Follow, StepTo
    <3>2. QED
        BY <1>1, <1>2, <2>2, <3>1, LinesStay DEF Inside
  <2>4. CASE Returned(c, "bad")
      BY <1>1, <1>2, <2>2, <2>4, LineMoves
  <2>5. QED
      BY <2>1, <2>3, <2>4
<1>10. ASSUME NEW c \in Caller, Retry(c) PROVE LineInv'
  <2>1. step[c] = "sleep" /\ step' = [step EXCEPT ![c] = "acquire"] /\ UNCHANGED <<url, line>>
      BY <1>10 DEF Retry, StepTo
  <2>2. QED
      BY <1>1, <1>2, <2>1, LinesStay DEF Inside
<1>11. QED
    BY <1>3, <1>4, <1>5, <1>6, <1>7, <1>8, <1>9, <1>10 DEF FetchNext, Advance

LEMMA LimitStart == FetchInit => LineInv
<1> SUFFICES ASSUME FetchInit PROVE LineInv
    OBVIOUS
<1>1. <<>> \in Seq(Caller) /\ DOMAIN <<>> = {}
    OBVIOUS
<1>2. line = [h \in Host \cup {""} |-> <<>>] /\ \A c \in Caller : step[c] = "idle"
    BY DEF FetchInit
<1>3. \A h \in Host \cup {""} : line[h] = <<>>
    BY <1>2
<1>4. QED
    BY <1>1, <1>2, <1>3 DEF LineInv, Once

(* Those who fetch from a domain stand at different places of its line.         *)
LEMMA VisitorsFit ==
  ASSUME LimitInv, NEW h \in Host
  PROVE  Cardinality(Visiting(h)) <= PerDomain
<1> DEFINE place == [c \in Visiting(h) |-> CHOOSE i \in 1..PerDomain : line[h][i] = c]
<1>1. ASSUME NEW c \in Visiting(h) PROVE place[c] \in 1..PerDomain /\ line[h][place[c]] = c
  <2>1. c \in Caller /\ step[c] \in {"get", "response"} /\ url[c].host = h
      BY DEF Visiting
  <2>2. \E i \in 1..PerDomain : line[h][i] = c
      BY <2>1 DEF LimitInv, LineInv, Holds
  <2>3. QED
      BY <2>2
<1>2. place \in Injection(Visiting(h), 1..PerDomain)
  <2>1. place \in [Visiting(h) -> 1..PerDomain]
      BY <1>1
  <2>2. ASSUME NEW c \in Visiting(h), NEW d \in Visiting(h), place[c] = place[d] PROVE c = d
      BY <1>1, <2>2
  <2> HIDE DEF place
  <2>3. QED
      BY <2>1, <2>2 DEF Injection, IsInjective
<1>3. IsFiniteSet(1..PerDomain) /\ Cardinality(1..PerDomain) = PerDomain
    BY FS_Interval, Permits
<1> HIDE DEF place
<1>4. QED
    BY <1>2, <1>3, FS_Injection

-----------------------------------------------------------------------------
(* _fetch_with_retries is a client of the rate limiter like any other: what     *)
(* the coroutines do is, for the limiter, a behaviour of RateLimiter.            *)
THEOREM FetchesUseTheLimiter == FetchSpec => Spec
<1>1. FetchInit => Init
    BY DEF FetchInit
<1>2. QED
    BY <1>1, LimiterStep, PTL DEF FetchSpec, Spec

(* The rate limiter keeps its bound whatever the coroutines that use it do.    *)
THEOREM FetchesKeepTheRate == FetchSpec => []RateKept
BY FetchesUseTheLimiter, RateIsKept, PTL

(* No coroutine ever has a connection for a URL that was not validated or to an *)
(* address that is not public, for any URLs, any answers of the DNS, any number *)
(* of redirects and retries.                                                     *)
THEOREM OnlyPublicIsVisited == FetchSpec => []OnlyPublicVisited
<1>1. FetchInv => OnlyPublicVisited
    BY DEF FetchInv, FetchTypeOK, CallerInv, Safe, OnlyPublicVisited
<1>2. QED
    BY <1>1, FetchInvInit, FetchInvStep, PTL DEF FetchSpec

(* Every GET request is paid for with a token, MaxRedirects + 1 to a token.    *)
THEOREM RequestsArePaid == FetchSpec => []EveryRequestIsPaid
<1>1. FetchInv => EveryRequestIsPaid
    BY DEF FetchInv, CallerInv, Budget, EveryRequestIsPaid
<1>2. QED
    BY <1>1, FetchInvInit, FetchInvStep, PTL DEF FetchSpec

(* At most per_domain_concurrency fetches of a domain go on at a time.          *)
THEOREM DomainLimitIsKept == FetchSpec => []DomainLimitKept
<1>1. FetchInv /\ LineInv => DomainLimitKept
    BY VisitorsFit DEF DomainLimitKept, LimitInv, FetchInv
<1>2. QED
    BY <1>1, FetchInvInit, FetchInvStep, LimitStart, LimitStep, PTL DEF FetchSpec

(* Only failures are retried, and a failure is returned after the last retry.  *)
THEOREM FailuresAreRetried == FetchSpec => []RetriesAreForFailures
<1>1. FetchInv => RetriesAreForFailures
    BY DEF FetchInv, CallerInv, Tries, RetriesAreForFailures
<1>2. QED
    BY <1>1, FetchInvInit, FetchInvStep, PTL DEF FetchSpec

=============================================================================
