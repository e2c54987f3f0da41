---------------------------- MODULE RateLimiter -----------------------------
(***************************************************************************)
(* The token bucket that all coroutines of a worker share. Time is counted in *)
(* ticks, TicksPerSecond to a second, and tokens in fractions of a token of    *)
(* that size, so that a tick brings Rate of them. The body of the loop in      *)
(* acquire holds an asyncio lock and has no await: it is one step.             *)
(***************************************************************************)
EXTENDS Naturals, Sequences

CONSTANTS
  Caller,          \* coroutines that call acquire()
  Rate,            \* requests_per_second: tokens per second, and the burst
  TicksPerSecond,  \* resolution of the model's clock
  Requests,        \* bound: calls of acquire() per caller
  Late,            \* bound: how many ticks after its time a sleep may end
  MaxIdle,         \* bound: until when time passes with nobody waiting
  MaxClock         \* bound on time

ASSUME NumberAssumption ==
  /\ {Rate, TicksPerSecond} \subseteq Nat \ {0}
  /\ {Requests, Late, MaxIdle, MaxClock} \subseteq Nat

VARIABLES
  now,      \* time.monotonic()
  tokens,   \* _tokens
  updated,  \* _updated_at
  until,    \* per caller: when its sleep ends, 0 if it has not slept
  calls,    \* per caller: how often it called acquire()
  served,   \* per caller: how often acquire() returned
  grants    \* when acquire() returned, in order

vars == <<now, tokens, updated, until, calls, served, grants>>

TypeOK ==
  /\ now \in Nat
  /\ tokens \in Nat
  /\ updated \in Nat /\ updated <= now
  /\ until \in [Caller -> Nat]
  /\ calls \in [Caller -> Nat] /\ served \in [Caller -> Nat]
  /\ grants \in Seq(Nat)

Init ==
  /\ now = 0 /\ updated = 0
  /\ tokens = Rate * TicksPerSecond
  /\ until = [c \in Caller |-> 0]
  /\ calls = [c \in Caller |-> 0] /\ served = [c \in Caller |-> 0]
  /\ grants = <<>>

Waiting(c) == served[c] < calls[c]

(* Timers fire at most Late ticks too late. *)
Tick ==
  /\ now < MaxClock
  /\ now < MaxIdle \/ \E c \in Caller : Waiting(c)
  /\ \A c \in Caller : Waiting(c) => now < until[c] + Late
  /\ now' = now + 1
  /\ UNCHANGED <<tokens, updated, until, calls, served, grants>>

(* A coroutine calls acquire(). *)
Ask(c) ==
  /\ ~Waiting(c) /\ calls[c] < Requests
  /\ calls' = [calls EXCEPT ![c] = @ + 1]
  /\ until' = [until EXCEPT ![c] = now]
  /\ UNCHANGED <<now, tokens, updated, served, grants>>

Smaller(a, b) == IF a <= b THEN a ELSE b
RefilledNoCap == tokens + (now - updated) * Rate   \* mutant: tokens pile up while nobody asks
Refilled == Smaller(Rate * TicksPerSecond, tokens + (now - updated) * Rate)

(* The time until a whole token is there, in ticks, rounded up. *)
WaitTime(t) == (TicksPerSecond - t + Rate - 1) \div Rate

(* One round of the loop: take a token, or sleep until there may be one. *)
Take(c) ==
  /\ Waiting(c) /\ now >= until[c]
  /\ updated' = now
  /\ \/ /\ Refilled >= TicksPerSecond
        /\ tokens' = Refilled - TicksPerSecond
        /\ served' = [served EXCEPT ![c] = @ + 1]
        /\ grants' = Append(grants, now)
        /\ UNCHANGED until
     \/ /\ Refilled < TicksPerSecond
        /\ tokens' = Refilled
        /\ until' = [until EXCEPT ![c] = now + WaitTime(Refilled)]
        /\ UNCHANGED <<served, grants>>
  /\ UNCHANGED <<now, calls>>

Next == Tick \/ \E c \in Caller : Ask(c) \/ Take(c)

Spec == Init /\ [][Next]_vars

-----------------------------------------------------------------------------
(* Properties *)

(* In any span of time, however idle the worker was before and however late    *)
(* the sleepers woke, acquire() returned at most Rate times, the burst, and     *)
(* Rate more for each second of the span.                                       *)
RateKept ==
  \A m, n \in DOMAIN grants :
    m <= n => (n - m + 1) * TicksPerSecond <= Rate * TicksPerSecond + Rate * (grants[n] - grants[m])

=============================================================================
