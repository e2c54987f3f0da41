-------------------------- MODULE SubmissionProofs --------------------------
(***************************************************************************)
(* Proofs about submissions. The row of a quota window counts what was charged *)
(* as long as transactions may still use the window, which is in its minute and *)
(* the next; then it is deleted and nobody can be charged for it any more.      *)
(***************************************************************************)
EXTENDS Submission, FiniteSetTheorems, TLAPS

States == {"new", "begun", "upserted", "charged", "created", "ended"}
Row == [requests : Nat, urls : Nat]

(* A transaction belongs to this minute or the one before; what it found is     *)
(* still so at its commit, since it holds the row.                               *)
Transactions ==
  \A r \in Request :
    /\ window[r] <= now
    /\ Open(r) => window[r] >= now - 1 /\ ~TooMany(r)
    /\ state[r] = "upserted" /\ allowed[r] => Fits(r, quota[window[r]])
    /\ \A q \in Request : state[q] = "upserted" /\ state[r] = "upserted" /\ window[q] = window[r] => q = r
    /\ state[r] \in {"new", "begun"} => ~allowed[r]

(* The quota is a cache of what was charged.                                    *)
Cached(w) == quota[w] = [requests |-> Cardinality(ChargedIn(w)), urls |-> UrlsIn(w)]

Answers ==
  \A r \in Request :
    /\ state[r] \in {"charged", "created"} => allowed[r]
    /\ state[r] # "ended" => answer[r] \in {0, 202} /\ r \notin jobs
    /\ r \in jobs => state[r] = "ended"

QuotaInv ==
  /\ TypeOK /\ Transactions
  /\ \A w \in Window : w >= now - 1 => Cached(w)
  /\ QuotaKept

JobInv == TypeOK /\ Answers /\ JobsAreWhole /\ RefusedLeavesNothing

-----------------------------------------------------------------------------
(* Types                                                                      *)


LEMMA UrlCounts == \A r \in Request : Urls[r] \in Nat \ {0}
<1>1. Urls \in [Request -> 1..500]
    BY RequestAssumption
<1>2. QED
    BY <1>1

LEMMA Limits ==
  /\ MaxRequests \in Nat \ {0} /\ MaxUrls \in Nat \ {0} /\ MaxClock \in Nat /\ MaxFaults \in Nat
  /\ KeepMinutes \in Nat /\ KeepMinutes >= 2
BY NumberAssumption

LEMMA TypeStep == TypeOK /\ [Next]_vars => TypeOK'
<1> SUFFICES ASSUME TypeOK, [Next]_vars PROVE TypeOK'
    OBVIOUS
<1> USE Limits DEF TypeOK, Window
<1>1. CASE UNCHANGED vars
    BY <1>1 DEF vars
<1>2. CASE Tick
    BY <1>2 DEF Tick
<1>3. ASSUME NEW r \in Request, Refuse(r) PROVE TypeOK'
    BY <1>3 DEF Refuse, To, Answer
<1>4. ASSUME NEW r \in Request, RefuseTooMany(r) PROVE TypeOK'
    BY <1>4 DEF RefuseTooMany, To, Answer
<1>5. ASSUME NEW r \in Request, Begin(r) PROVE TypeOK'
    BY <1>5 DEF Begin, To
<1>6. ASSUME NEW r \in Request, Upsert(r) PROVE TypeOK'
  <2>1. Fits(r, quota[window[r]]) \in BOOLEAN
    <3>1. \A a, b, c \in BOOLEAN : (a \/ (b /\ c)) \in BOOLEAN
        OBVIOUS
    <3>2. QED
        BY <3>1, Zenon DEF Fits
  <2>2. allowed' \in [Request -> BOOLEAN]
      BY <1>6, <2>1 DEF Upsert
  <2>3. QED
      BY <1>6, <2>2 DEF Upsert, To
<1>7. ASSUME NEW r \in Request, CommitQuota(r) PROVE TypeOK'
  <2>1. ASSUME NEW w \in Window
        PROVE  (IF Old(r, w) THEN NoRow ELSE IF w = window[r] THEN Charged(r, quota[w]) ELSE quota[w]) \in Row
    <3>1. quota[w] \in Row /\ Urls[r] \in Nat /\ NoRow \in Row
      <4>1. Urls[r] \in Nat
          BY UrlCounts
      <4>2. quota[w] \in Row
          BY DEF Row
      <4>3. NoRow \in Row
          BY DEF Row, NoRow
      <4>4. QED
          BY <4>1, <4>2, <4>3
    <3>2. [requests |-> quota[w].requests + 1, urls |-> quota[w].urls + Urls[r]] \in Row
        BY <3>1 DEF Row
    <3>3. QED
        BY <3>1, <3>2 DEF Charged
  <2>2. quota' \in [Window -> Row]
      BY <1>7, <2>1 DEF CommitQuota
  <2>3. state' \in [Request -> States] /\ answer' \in [Request -> {0, 202, 400, 429, 503}]
    <3>1. state \in [Request -> States] /\ "charged" \in States /\ "ended" \in States
        BY DEF States
    <3>2. CASE allowed[r]
      <4>1. To(r, "charged") /\ answer' = answer
          BY <1>7, <3>2, Zenon DEF CommitQuota
      <4>2. QED
          BY <3>1, <4>1 DEF To
    <3>3. CASE ~allowed[r]
      <4>1. To(r, "ended") /\ Answer(r, 429)
          BY <1>7, <3>3, Zenon DEF CommitQuota
      <4>2. QED
          BY <3>1, <4>1 DEF To, Answer
    <3>4. QED
        BY <3>2, <3>3
  <2>4. QED
      BY <1>7, <2>2, <2>3 DEF CommitQuota, Row, States
<1>8. ASSUME NEW r \in Request, Create(r) PROVE TypeOK'
    BY <1>8 DEF Create, To
<1>9. ASSUME NEW r \in Request, Respond(r) PROVE TypeOK'
    BY <1>9 DEF Respond, Answer
<1>10. ASSUME NEW r \in Request, CommitJob(r) PROVE TypeOK'
    BY <1>10 DEF CommitJob, To
<1>11. ASSUME NEW r \in Request, Fail(r) PROVE TypeOK'
  <2>1. (allowed[r] /\ ~Open(r)) \in BOOLEAN
      OBVIOUS
  <2>2. allowed' \in [Request -> BOOLEAN]
      BY <1>11, <2>1, Zenon DEF Fail
  <2>3. state' \in [Request -> {"new", "begun", "upserted", "charged", "created", "ended"}]
      BY <1>11 DEF Fail, To
  <2>4. answer' \in [Request -> {0, 202, 400, 429, 503}]
    <3>1. answer' = answer \/ Answer(r, 503)
        BY <1>11, Zenon DEF Fail
    <3>2. CASE answer' = answer
        BY <3>2
    <3>3. CASE Answer(r, 503)
        BY <3>3 DEF Answer
    <3>4. QED
        BY <3>1, <3>2, <3>3
  <2>5. faults' \in 0..MaxFaults /\ UNCHANGED <<now, quota, window, jobs, frontier>>
      BY <1>11 DEF Fail, Fault
  <2>6. QED
      BY <2>2, <2>3, <2>4, <2>5
<1>12. QED
    BY <1>1, <1>2, <1>3, <1>4, <1>5, <1>6, <1>7, <1>8, <1>9, <1>10, <1>11 DEF Next, Step

LEMMA TypeInit == Init => TypeOK
BY RequestAssumption, NumberAssumption DEF Init, TypeOK, Window, NoRow

(* Every variable of the submissions keeps its type.                           *)
THEOREM TypeCorrect == Spec => []TypeOK
BY TypeInit, TypeStep, PTL DEF Spec

-----------------------------------------------------------------------------
(* Jobs and answers                                                           *)

LEMMA JobStep == JobInv /\ [Next]_vars => JobInv'
<1> SUFFICES ASSUME JobInv, [Next]_vars PROVE JobInv'
    OBVIOUS
<1>0. TypeOK /\ TypeOK'
    BY TypeStep DEF JobInv
<1> USE <1>0 DEF JobInv, Answers, JobsAreWhole, RefusedLeavesNothing
<1>1. CASE UNCHANGED vars
    BY <1>1 DEF vars
<1>2. CASE Tick
    BY <1>2 DEF Tick
<1>3. ASSUME NEW r \in Request, Refuse(r) PROVE JobInv'
    BY <1>3 DEF Refuse, To, Answer, TypeOK
<1>4. ASSUME NEW r \in Request, RefuseTooMany(r) PROVE JobInv'
    BY <1>4 DEF RefuseTooMany, To, Answer, TypeOK
<1>5. ASSUME NEW r \in Request, Begin(r) PROVE JobInv'
    BY <1>5 DEF Begin, To, TypeOK
<1>6. ASSUME NEW r \in Request, Upsert(r) PROVE JobInv'
    BY <1>6 DEF Upsert, To, TypeOK
<1>7. ASSUME NEW r \in Request, CommitQuota(r) PROVE JobInv'
  <2>1. state[r] = "upserted" /\ UNCHANGED <<allowed, jobs, frontier>>
      BY <1>7 DEF CommitQuota
  <2>2. CASE allowed[r]
    <3>1. To(r, "charged") /\ answer' = answer
        BY <1>7, <2>2, Zenon DEF CommitQuota
    <3>2. QED
        BY <2>1, <2>2, <3>1 DEF To, TypeOK
  <2>3. CASE ~allowed[r]
    <3>1. To(r, "ended") /\ Answer(r, 429)
        BY <1>7, <2>3, Zenon DEF CommitQuota
    <3>2. QED
        BY <2>1, <2>3, <3>1 DEF To, Answer, TypeOK
  <2>4. QED
      BY <2>2, <2>3
<1>8. ASSUME NEW r \in Request, Create(r) PROVE JobInv'
    BY <1>8 DEF Create, To, TypeOK
<1>9. ASSUME NEW r \in Request, Respond(r) PROVE JobInv'
    BY <1>9 DEF Respond, Answer, TypeOK
<1>10. ASSUME NEW r \in Request, CommitJob(r) PROVE JobInv'
    BY <1>10 DEF CommitJob, To, TypeOK
<1>11. ASSUME NEW r \in Request, Fail(r) PROVE JobInv'
    BY <1>11 DEF Fail, Fault, To, Answer, TypeOK, Open
<1>12. QED
    BY <1>1, <1>2, <1>3, <1>4, <1>5, <1>6, <1>7, <1>8, <1>9, <1>10, <1>11 DEF Next, Step

LEMMA JobInvHolds == Spec => []JobInv
<1>1. Init => JobInv
    BY TypeInit DEF Init, JobInv, Answers, JobsAreWhole, RefusedLeavesNothing
<1>2. QED
    BY <1>1, JobStep, PTL DEF Spec

(* A visible job was charged and has all of its rows; no rows are visible       *)
(* without their job.                                                            *)
THEOREM SubmissionsAreWhole == Spec => []JobsAreWhole
<1>1. JobInv => JobsAreWhole
    BY DEF JobInv
<1>2. QED
    BY <1>1, JobInvHolds, PTL

(* A client that was refused or met an error has no job.                       *)
THEOREM RefusalsLeaveNothing == Spec => []RefusedLeavesNothing
<1>1. JobInv => RefusedLeavesNothing
    BY DEF JobInv
<1>2. QED
    BY <1>1, JobInvHolds, PTL

-----------------------------------------------------------------------------
(* The quota                                                                  *)

Units(S) == UNION {{q} \X (1..Urls[q]) : q \in S}

LEMMA UnitsFinite ==
  ASSUME NEW S \in SUBSET Request
  PROVE  IsFiniteSet(S) /\ IsFiniteSet(Units(S))
<1>1. IsFiniteSet(Request)
    BY RequestAssumption
<1>2. IsFiniteSet(S) /\ IsFiniteSet(1..500)
  <2>1. 1 \in Int /\ 500 \in Int
      OBVIOUS
  <2>2. IsFiniteSet(1..500)
      BY <2>1, FS_Interval
  <2>3. QED
      BY <1>1, <2>2, FS_Subset
<1>3. IsFiniteSet(S \X (1..500))
    BY <1>2, FS_Product
<1>4. Units(S) \subseteq S \X (1..500)
  <2>1. \A q \in S : 1..Urls[q] \subseteq 1..500
    <3>1. Urls \in [Request -> 1..500]
        BY RequestAssumption
    <3>2. \A q \in S : Urls[q] \in 1..500
        BY <3>1
    <3>3. QED
        BY <3>2
  <2>2. QED
      BY <2>1 DEF Units
<1>5. QED
    BY <1>2, <1>3, <1>4, FS_Subset

(* One more request adds one to the requests and its URLs to the URLs.         *)
LEMMA OneMore ==
  ASSUME NEW S \in SUBSET Request, NEW r \in Request, r \notin S
  PROVE  /\ Cardinality(S) \in Nat /\ Cardinality(Units(S)) \in Nat
         /\ Cardinality(S \cup {r}) = Cardinality(S) + 1
         /\ Cardinality(Units(S \cup {r})) = Cardinality(Units(S)) + Urls[r]
<1>1. IsFiniteSet(S) /\ IsFiniteSet(Units(S))
    BY UnitsFinite
<1>2. Cardinality(S) \in Nat /\ Cardinality(Units(S)) \in Nat
    BY <1>1, FS_CardinalityType
<1>3. Cardinality(S \cup {r}) = Cardinality(S) + 1
    BY <1>1, FS_AddElement
<1> DEFINE own == {r} \X (1..Urls[r])
<1>4. IsFiniteSet(own) /\ Cardinality(own) = Urls[r]
  <2>1. Urls[r] \in Nat /\ Urls[r] >= 1
      BY UrlCounts
  <2>2. IsFiniteSet(1..Urls[r]) /\ Cardinality(1..Urls[r]) = Urls[r]
      BY <2>1, FS_Interval
  <2>3. IsFiniteSet({r}) /\ Cardinality({r}) = 1
      BY FS_Singleton
  <2>4. IsFiniteSet(own) /\ Cardinality(own) = 1 * Urls[r]
      BY <2>2, <2>3, FS_Product
  <2>5. QED
      BY <2>1, <2>4
<1>5. Units(S \cup {r}) = Units(S) \cup own
    BY DEF Units
<1>6. Units(S) \cap own = {}
    BY DEF Units
<1> HIDE DEF own
<1>7. Cardinality(Units(S) \cup own) = Cardinality(Units(S)) + Cardinality(own) - Cardinality(Units(S) \cap own)
    BY <1>1, <1>4, FS_Union
<1>8. Cardinality(Units(S) \cap own) = 0
    BY <1>6, FS_EmptySet
<1>9. Cardinality(Units(S \cup {r})) = Cardinality(Units(S)) + Urls[r] - 0
    BY <1>4, <1>5, <1>7, <1>8
<1>10. QED
    BY <1>2, <1>3, <1>9, UrlCounts

LEMMA Counted ==
  ASSUME NEW w \in Window
  PROVE  /\ ChargedIn(w) \in SUBSET Request
         /\ UrlsIn(w) = Cardinality(Units(ChargedIn(w)))
         /\ Cardinality(ChargedIn(w)) \in Nat /\ UrlsIn(w) \in Nat
<1>1. ChargedIn(w) \in SUBSET Request
    BY DEF ChargedIn
<1>2. UrlsIn(w) = Cardinality(Units(ChargedIn(w)))
    BY DEF UrlsIn, Units
<1>3. Cardinality(ChargedIn(w)) \in Nat /\ Cardinality(Units(ChargedIn(w))) \in Nat
    BY <1>1, UnitsFinite, FS_CardinalityType
<1>4. QED
    BY <1>1, <1>2, <1>3

(* A step that charges nobody keeps what the windows have.                     *)
SameCharges == \A w \in Window : ChargedIn(w)' = ChargedIn(w)

LEMMA Unchanged ==
  ASSUME QuotaInv, SameCharges
  PROVE  QuotaKept' /\ \A w \in Window : quota'[w] = quota[w] /\ Cached(w) => Cached(w)'
BY DEF QuotaInv, QuotaKept, SameCharges, Cached, UrlsIn

(* All steps but the commit of the quota: the rows of the windows stay too.    *)
LEMMA QuietStep ==
  ASSUME QuotaInv, TypeOK', SameCharges, UNCHANGED quota, now' >= now, now' \in Nat, Transactions'
  PROVE  QuotaInv'
<1>1. ASSUME NEW w \in Window, w >= now' - 1 PROVE Cached(w)'
  <2>1. w >= now - 1
    <3>1. w \in Int /\ now \in Int
        BY Limits DEF QuotaInv, TypeOK, Window
    <3>2. w >= now' - 1
        BY <1>1
    <3>3. \A a, b, c \in Int : a >= b - 1 /\ b >= c => a >= c - 1
        OBVIOUS
    <3>4. now' \in Int /\ now' >= now
        OBVIOUS
    <3>5. QED
        BY <3>1, <3>2, <3>3, <3>4
  <2>2. Cached(w)
      BY <2>1 DEF QuotaInv
  <2>3. QED
      BY <2>2, Unchanged
<1>2. QED
    BY <1>1, Unchanged DEF QuotaInv

(* After a commit, all other transactions are as they were.                    *)
LEMMA OthersTransact ==
  ASSUME TypeOK, Transactions, NEW r \in Request, NEW s \in {"charged", "ended"},
         state' = [state EXCEPT ![r] = s], UNCHANGED <<now, window, allowed>>,
         \A q \in Request : state'[q] = "upserted" /\ allowed[q] => Fits(q, quota'[window[q]])
  PROVE  Transactions'
<1>1. \A q \in Request : state'[q] \in {"charged", "ended"} \/ state'[q] = state[q]
    BY DEF TypeOK
<1>2. \A q \in Request : Open(q)' => Open(q)
    BY <1>1 DEF Open
<1>3. \A q \in Request : TooMany(q)' <=> TooMany(q)
    BY DEF TooMany
<1>4. \A q \in Request : allowed'[q] /\ state'[q] = "upserted" => Fits(q, quota[window[q]])'
    BY DEF Fits
<1>5. QED
    BY <1>1, <1>2, <1>3, <1>4 DEF Transactions

LEMMA CommitStep ==
  ASSUME QuotaInv, NEW r \in Request, CommitQuota(r), TypeOK', NEW v \in Window, v = window[r]
  PROVE  QuotaInv'
<1>1. /\ state[r] = "upserted" /\ v >= now - 1 /\ v <= now /\ now \in Nat
      /\ ~TooMany(r)
      /\ allowed[r] => Fits(r, quota[v])
    BY Limits DEF CommitQuota, QuotaInv, Transactions, TypeOK, Window, Open
<1>2. /\ UNCHANGED <<now, window, allowed, jobs, frontier, faults>>
      /\ quota' = [w \in Window |-> IF Old(r, w) THEN NoRow ELSE IF w = v THEN Charged(r, quota[w]) ELSE quota[w]]
      /\ state' = [state EXCEPT ![r] = IF allowed[r] THEN "charged" ELSE "ended"]
  <2>1. CASE allowed[r]
      BY <2>1, Zenon DEF CommitQuota, To
  <2>2. CASE ~allowed[r]
      BY <2>2, Zenon DEF CommitQuota, To
  <2>3. QED
      BY <2>1, <2>2
<1>3. ASSUME NEW w \in Window, w >= now - 1
      PROVE  quota'[w] = IF w = v THEN Charged(r, quota[w]) ELSE quota[w]
  <2>1. ~Old(r, w)
      BY <1>1, <1>3, Limits DEF Old, Window
  <2>2. QED
      BY <1>2, <2>1
<1>4. ASSUME NEW w \in Window, w # v \/ ~allowed[r] PROVE ChargedIn(w)' = ChargedIn(w)
    BY <1>1, <1>2, <1>4 DEF ChargedIn, QuotaInv, TypeOK
<1>5. CASE ~allowed[r]
  <2>1. SameCharges
      BY <1>4, <1>5 DEF SameCharges
  <2>2. \A w \in Window : w >= now - 1 => quota'[w] = quota[w]
      BY <1>3, <1>5 DEF Charged
  <2>3. \A w \in Window : w >= now - 1 => Cached(w)'
      BY <2>1, <2>2, Unchanged DEF QuotaInv
  <2>4. QuotaKept'
      BY <2>1, Unchanged
  <2>5. Transactions'
    <3>1. ASSUME NEW q \in Request, state'[q] = "upserted", allowed[q] PROVE Fits(q, quota'[window[q]])
      <4>1. state[q] = "upserted" /\ window[q] >= now - 1 /\ window[q] \in Window
          BY <1>2, <1>5, <3>1 DEF QuotaInv, TypeOK, Transactions, Open
      <4>2. Fits(q, quota[window[q]])
          BY <3>1, <4>1 DEF QuotaInv, Transactions
      <4>3. QED
          BY <2>2, <4>1, <4>2
    <3>2. QED
        BY <1>2, <1>5, <3>1, OthersTransact DEF QuotaInv
  <2>6. QED
      BY <1>2, <2>3, <2>4, <2>5 DEF QuotaInv
<1>6. CASE allowed[r]
  <2> DEFINE S == ChargedIn(v)
  <2>1. S \in SUBSET Request /\ r \notin S
      BY <1>1 DEF ChargedIn
  <2>2. ChargedIn(v)' = S \cup {r}
      BY <1>1, <1>2, <1>6 DEF ChargedIn, QuotaInv, TypeOK
  <2> HIDE DEF S
  <2>3. /\ Cardinality(S) \in Nat /\ Cardinality(Units(S)) \in Nat
        /\ Cardinality(S \cup {r}) = Cardinality(S) + 1
        /\ Cardinality(Units(S \cup {r})) = Cardinality(Units(S)) + Urls[r]
      BY <2>1, OneMore
  <2>4. UrlsIn(v)' = Cardinality(Units(S)) + Urls[r] /\ UrlsIn(v) = Cardinality(Units(S))
      BY <2>2, <2>3 DEF UrlsIn, Units, S
  <2>5. quota[v] = [requests |-> Cardinality(S), urls |-> Cardinality(Units(S))]
      BY <1>1, <2>4 DEF QuotaInv, Cached, S
  <2>6. quota'[v] = [requests |-> Cardinality(S) + 1, urls |-> Cardinality(Units(S)) + Urls[r]]
      BY <1>1, <1>3, <1>6, <2>5 DEF Charged
  <2>7. Cardinality(S) + 1 <= MaxRequests /\ Cardinality(Units(S)) + Urls[r] <= MaxUrls
    <3>1. quota[v].requests = Cardinality(S) /\ quota[v].urls = Cardinality(Units(S))
        BY <2>5
    <3>2. Urls[r] \in Nat /\ MaxRequests \in Nat /\ MaxUrls \in Nat /\ MaxRequests >= 1 /\ Urls[r] <= MaxUrls
        BY <1>1, Limits, UrlCounts DEF TooMany
    <3>3. CASE quota[v] = NoRow
        BY <2>3, <3>1, <3>2, <3>3 DEF NoRow
    <3>4. CASE quota[v] # NoRow
      <4>1. quota[v].requests < MaxRequests /\ quota[v].urls + Urls[r] <= MaxUrls
          BY <1>1, <1>6, <3>4 DEF Fits
      <4>2. QED
          BY <2>3, <3>1, <3>2, <4>1
    <3>5. QED
        BY <3>3, <3>4
  <2>8. QuotaKept'
    <3>1. ASSUME NEW w \in Window PROVE (Cardinality(ChargedIn(w)) <= MaxRequests /\ UrlsIn(w) <= MaxUrls)'
      <4>1. CASE w = v
          BY <2>2, <2>3, <2>4, <2>7, <4>1
      <4>2. CASE w # v
          BY <1>4, <4>2 DEF QuotaInv, QuotaKept, UrlsIn
      <4>3. QED
          BY <4>1, <4>2
    <3>2. QED
        BY <3>1 DEF QuotaKept
  <2>9. \A w \in Window : w >= now - 1 => Cached(w)'
    <3>1. ASSUME NEW w \in Window, w >= now - 1 PROVE Cached(w)'
      <4>1. CASE w = v
          BY <2>2, <2>3, <2>4, <2>6, <4>1 DEF Cached
      <4>2. CASE w # v
          BY <1>3, <1>4, <3>1, <4>2 DEF QuotaInv, Cached, UrlsIn
      <4>3. QED
          BY <4>1, <4>2
    <3>2. QED
        BY <3>1
  <2>10. Transactions'
    <3>1. ASSUME NEW q \in Request, state'[q] = "upserted", allowed[q] PROVE Fits(q, quota'[window[q]])
      <4>1. state[q] = "upserted" /\ window[q] >= now - 1 /\ window[q] \in Window /\ q # r
          BY <1>2, <1>6, <3>1 DEF QuotaInv, TypeOK, Transactions, Open
      <4>2. window[q] # v
          BY <1>1, <4>1 DEF QuotaInv, Transactions
      <4>3. Fits(q, quota[window[q]])
          BY <3>1, <4>1 DEF QuotaInv, Transactions
      <4>4. QED
          BY <1>3, <4>1, <4>2, <4>3
    <3>2. QED
        BY <1>2, <1>6, <3>1, OthersTransact DEF QuotaInv
  <2>11. QED
      BY <1>2, <2>8, <2>9, <2>10 DEF QuotaInv
<1>7. QED
    BY <1>5, <1>6

LEMMA TickStep == QuotaInv /\ Tick /\ TypeOK' => QuotaInv'
<1> SUFFICES ASSUME QuotaInv, Tick, TypeOK' PROVE QuotaInv'
    OBVIOUS
<1>1. /\ now \in Nat /\ now' = now + 1 /\ UNCHANGED <<quota, state, window, allowed>>
      /\ \A r \in Request : window[r] \in Nat /\ (Open(r) => window[r] = now)
    BY Limits DEF Tick, QuotaInv, TypeOK, Window
<1>2. SameCharges
    BY <1>1 DEF SameCharges, ChargedIn
<1>3. now' \in Nat /\ now' >= now
    BY <1>1
<1>4. Transactions'
    BY <1>1 DEF QuotaInv, Transactions, Open, TooMany, Fits
<1>5. QED
    BY <1>1, <1>2, <1>3, <1>4, QuietStep

(* A request that has not been charged moves on, and is not charged by that.    *)
LEMMA Uncharged ==
  ASSUME TypeOK, NEW r \in Request, NEW s \in States, state' = [state EXCEPT ![r] = s],
         \A q \in Request \ {r} : window'[q] = window[q] /\ allowed'[q] = allowed[q],
         \/ state[r] \notin {"charged", "created", "ended"} /\ (s \notin {"charged", "created", "ended"} \/ ~allowed'[r])
         \/ /\ {state[r], s} \subseteq {"charged", "created", "ended"}
            /\ window'[r] = window[r] /\ allowed'[r] = allowed[r]
  PROVE  SameCharges
<1>1. ASSUME NEW w \in Window, NEW q \in Request PROVE q \in ChargedIn(w)' <=> q \in ChargedIn(w)
  <2>1. CASE q = r
      BY <2>1 DEF ChargedIn, TypeOK
  <2>2. CASE q # r
      BY <2>2 DEF ChargedIn, TypeOK
  <2>3. QED
      BY <2>1, <2>2
<1>2. QED
    BY <1>1 DEF SameCharges, ChargedIn

LEMMA QuietRequest ==
  ASSUME QuotaInv, TypeOK', NEW r \in Request,
         Refuse(r) \/ RefuseTooMany(r) \/ Begin(r) \/ Upsert(r) \/ Create(r) \/ Respond(r) \/ CommitJob(r) \/ Fail(r)
  PROVE  QuotaInv'
<1>1. TypeOK /\ now \in Nat /\ \A q \in Request : window[q] \in Nat
  <2>1. TypeOK
      BY DEF QuotaInv
  <2>2. now \in 0..MaxClock /\ \A q \in Request : window[q] \in 0..MaxClock
      BY <2>1 DEF TypeOK, Window
  <2>3. 0..MaxClock \subseteq Nat
      BY Limits
  <2>4. QED
      BY <2>1, <2>2, <2>3
<1>2. UNCHANGED <<now, quota>>
    BY DEF Refuse, RefuseTooMany, Begin, Upsert, Create, Respond, CommitJob, Fail
<1>3. SameCharges /\ Transactions'
  <2> USE <1>1, <1>2 DEF States
  <2>1. CASE Refuse(r) \/ RefuseTooMany(r)
    <3>1. state[r] = "new" /\ To(r, "ended") /\ UNCHANGED <<window, allowed>> /\ ~allowed[r]
        BY <2>1 DEF Refuse, RefuseTooMany, QuotaInv, Transactions
    <3>2. SameCharges
        BY <3>1, Uncharged DEF To
    <3>3. QED
        BY <3>1, <3>2, OthersTransact DEF QuotaInv, To, Transactions, TypeOK
  <2>2. CASE Begin(r)
    <3>1. /\ state[r] = "new" /\ ~TooMany(r) /\ To(r, "begun") /\ UNCHANGED allowed /\ ~allowed[r]
          /\ window' = [window EXCEPT ![r] = now]
        BY <2>2 DEF Begin, QuotaInv, Transactions
    <3>2. SameCharges
      <4>1. state' = [state EXCEPT ![r] = "begun"] /\ ~allowed'[r] /\ state[r] = "new"
          BY <3>1 DEF To
      <4>2. \A q \in Request \ {r} : window'[q] = window[q] /\ allowed'[q] = allowed[q]
          BY <3>1 DEF TypeOK
      <4>3. QED
          BY <4>1, <4>2, Uncharged
    <3>3. Transactions'
        BY <3>1 DEF To, QuotaInv, Transactions, TypeOK, Open, TooMany, Fits
    <3>4. QED
        BY <3>2, <3>3
  <2>3. CASE Upsert(r)
    <3>1. /\ state[r] = "begun" /\ ~Locked(r) /\ To(r, "upserted") /\ UNCHANGED window
          /\ allowed' = [allowed EXCEPT ![r] = Fits(r, quota[window[r]])]
        BY <2>3 DEF Upsert
    <3>2. SameCharges
      <4>1. state' = [state EXCEPT ![r] = "upserted"] /\ state[r] = "begun"
          BY <3>1 DEF To
      <4>2. \A q \in Request \ {r} : window'[q] = window[q] /\ allowed'[q] = allowed[q]
          BY <3>1 DEF TypeOK
      <4>3. QED
          BY <4>1, <4>2, Uncharged
    <3>3. \A q \in Request \ {r} : ~(state[q] = "upserted" /\ window[q] = window[r])
        BY <3>1 DEF Locked
    <3>4. allowed'[r] => Fits(r, quota[window[r]])
      <4>1. r \in DOMAIN allowed
          BY DEF TypeOK
      <4>2. allowed'[r] = Fits(r, quota[window[r]])
          BY <3>1, <4>1, Zenon
      <4>3. QED
          BY <4>2, Zenon
    <3>5. state'[r] = "upserted" /\ \A q \in Request \ {r} : state'[q] = state[q] /\ allowed'[q] = allowed[q]
        BY <3>1 DEF To, TypeOK
    <3>6. Transactions'
        BY <3>1, <3>3, <3>4, <3>5 DEF QuotaInv, Transactions, Open, TooMany, Fits
    <3>7. QED
        BY <3>2, <3>6
  <2>4. CASE Create(r) \/ CommitJob(r)
    <3>1. PICK s \in {"created", "ended"} : To(r, s) /\ state[r] \in {"charged", "created"} /\ UNCHANGED <<window, allowed>>
        BY <2>4 DEF Create, CommitJob
    <3>2. SameCharges
        BY <3>1, Uncharged DEF To
    <3>3. Transactions'
        BY <3>1 DEF To, QuotaInv, Transactions, TypeOK, Open, TooMany, Fits
    <3>4. QED
        BY <3>2, <3>3
  <2>5. CASE Respond(r)
    <3>1. UNCHANGED <<state, window, allowed>>
        BY <2>5 DEF Respond
    <3>2. QED
        BY <3>1 DEF SameCharges, ChargedIn, QuotaInv, Transactions, Open, TooMany, Fits
  <2>6. CASE Fail(r)
    <3>1. /\ state[r] \in {"begun", "upserted", "charged", "created"} /\ To(r, "ended") /\ UNCHANGED window
          /\ allowed' = [allowed EXCEPT ![r] = @ /\ ~Open(r)]
        BY <2>6 DEF Fail
    <3>2. Open(r) => ~allowed'[r]
      <4>1. r \in DOMAIN allowed
          BY DEF TypeOK
      <4>2. allowed'[r] = (allowed[r] /\ ~Open(r))
          BY <3>1, <4>1, Zenon
      <4>3. QED
          BY <4>2, Zenon
    <3>3. ~Open(r) => allowed'[r] = allowed[r]
        BY <3>1 DEF TypeOK
    <3>4. \A q \in Request \ {r} : allowed'[q] = allowed[q]
        BY <3>1 DEF TypeOK
    <3>5. SameCharges
        BY <3>1, <3>2, <3>3, <3>4, Uncharged DEF To, Open
    <3>6. Transactions'
        BY <3>1, <3>4 DEF To, QuotaInv, Transactions, TypeOK, Open, TooMany, Fits
    <3>7. QED
        BY <3>5, <3>6
  <2>7. QED
      BY <2>1, <2>2, <2>3, <2>4, <2>5, <2>6
<1>4. now' \in Nat /\ now' >= now
    BY <1>1, <1>2
<1>5. QED
    BY <1>2, <1>3, <1>4, QuietStep

LEMMA QuotaStep == QuotaInv /\ [Next]_vars => QuotaInv'
<1> SUFFICES ASSUME QuotaInv, [Next]_vars PROVE QuotaInv'
    OBVIOUS
<1>1. TypeOK'
    BY TypeStep DEF QuotaInv
<1>2. CASE UNCHANGED vars
  <2>1. SameCharges /\ UNCHANGED <<now, quota, state, window, allowed>>
      BY <1>2 DEF vars, SameCharges, ChargedIn
  <2>2. Transactions'
      BY <2>1 DEF QuotaInv, Transactions, Open, TooMany, Fits
  <2>3. now \in Nat
      BY Limits DEF QuotaInv, TypeOK, Window
  <2>4. now' \in Nat /\ now' >= now
      BY <2>1, <2>3
  <2>5. QED
      BY <1>1, <2>1, <2>2, <2>4, QuietStep
<1>3. CASE Tick
    BY <1>1, <1>3, TickStep
<1>4. ASSUME NEW r \in Request, CommitQuota(r) PROVE QuotaInv'
  <2>1. window[r] \in Window
      BY DEF QuotaInv, TypeOK
  <2>2. QED
      BY <1>1, <1>4, <2>1, CommitStep
<1>5. QED
    BY <1>1, <1>2, <1>3, <1>4, QuietRequest DEF Next, Step

LEMMA QuotaInit == Init => QuotaInv
<1> SUFFICES ASSUME Init PROVE QuotaInv
    OBVIOUS
<1>1. ASSUME NEW w \in Window PROVE ChargedIn(w) = {} /\ UrlsIn(w) = 0 /\ Cardinality(ChargedIn(w)) = 0
  <2>1. ChargedIn(w) = {}
      BY DEF Init, ChargedIn
  <2>2. UNION {{q} \X (1..Urls[q]) : q \in {}} = {}
      OBVIOUS
  <2>3. QED
      BY <2>1, <2>2, FS_EmptySet DEF UrlsIn
<1>2. TypeOK
    BY TypeInit
<1>3. Transactions
    BY Limits DEF Init, Transactions, Open
<1>4. \A w \in Window : Cached(w)
    BY <1>1 DEF Cached, Init, NoRow
<1>5. QuotaKept
    BY <1>1, Limits DEF QuotaKept
<1>6. QED
    BY <1>2, <1>3, <1>4, <1>5 DEF QuotaInv

(* For any number of requests, replicas, faults and limits, no window is        *)
(* charged for more than the quota.                                              *)
THEOREM QuotaIsKept == Spec => []QuotaKept
<1>1. QuotaInv => QuotaKept
    BY DEF QuotaInv
<1>2. QED
    BY <1>1, QuotaInit, QuotaStep, PTL DEF Spec

=============================================================================
