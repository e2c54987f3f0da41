--------------------------- MODULE InMemoryProofs ---------------------------
(***************************************************************************)
(* Proofs about the repository the tests use: leases are not stolen, and it   *)
(* implements the work queue that the frontier in PostgreSQL implements, too. *)
(***************************************************************************)
EXTENDS InMemory, TLAPS

States == {"absent", "pending", "leased", "complete", "dead"}
Row == [state : States, attempt : Nat, available : Nat, token : Nat, expires : Nat]

Budget ==
  \A i \in Item :
    /\ item[i].attempt <= MaxAttempts[i]
    /\ item[i].state = "leased" => item[i].attempt > 0
    /\ item[i].state = "absent" => item[i].attempt = 0

Inv == TypeOK /\ Budget

-----------------------------------------------------------------------------
(* Types                                                                      *)

LEMMA Numbers ==
  /\ \A i \in Item : i # NoPage /\ MaxAttempts[i] \in Nat \ {0}
  /\ LeaseSeconds \in Nat /\ RetryDelays \subseteq Nat
BY NumberAssumption DEF NoPage

LEMMA RowTyped ==
  TypeOK => clock \in Nat /\ \A i \in Item : item[i] \in Row /\ given[i] \in Nat
BY DEF TypeOK, Row, States

LEMMA NewRow ==
  ASSUME NEW s \in States, NEW a \in Nat, NEW v \in Nat, NEW t \in Nat, NEW e \in Nat
  PROVE  /\ ItemAt(s, a, v, t, e) \in Row
         /\ ItemAt(s, a, v, t, e).state = s /\ ItemAt(s, a, v, t, e).attempt = a
         /\ ItemAt(s, a, v, t, e).token = t
BY DEF ItemAt, Row

LEMMA RowsType ==
  TypeOK <=> /\ clock \in Nat
             /\ item \in [Item -> Row]
             /\ given \in [Item -> Nat]
             /\ page \in [Url -> Item \cup {NoPage}]
             /\ held \subseteq Lease
             /\ \A i \in Item : (item[i].state = "leased") <=> (item[i].token # NoToken)
BY DEF TypeOK, Row, States

LEMMA InvInit == Init => Inv
<1> SUFFICES ASSUME Init PROVE Inv
    OBVIOUS
<1>1. ItemAt("absent", 0, 0, NoToken, 0) \in Row /\ ItemAt("absent", 0, 0, NoToken, 0).state = "absent"
      /\ ItemAt("absent", 0, 0, NoToken, 0).attempt = 0 /\ ItemAt("absent", 0, 0, NoToken, 0).token = NoToken
    BY NewRow DEF States, NoToken
<1>2. \A i \in Item : item[i] = ItemAt("absent", 0, 0, NoToken, 0)
    BY DEF Init
<1>3. TypeOK
    BY <1>1, <1>2, RowsType DEF Init
<1>4. Budget
    BY <1>1, <1>2, Numbers DEF Budget
<1>5. QED
    BY <1>3, <1>4 DEF Inv

(* What a step makes of one row, without the rest of it.                       *)
Ended(i) == \E s \in {"pending", "complete", "dead"}, v \in Nat : item'[i] = Released(i, s, v)
RowSteps(i) ==
  \/ item'[i] = item[i]
  \/ item[i].state = "absent" /\ item'[i] = ItemAt("pending", 0, clock, NoToken, 0)
  \/ Due(i) /\ ~Exhausted(i) /\ item'[i] = Claimed(i)
  \/ item[i].state = "leased" /\ item'[i] = [item[i] EXCEPT !.expires = clock + LeaseSeconds]
  \/ item[i].state = "leased" /\ Ended(i)

LEMMA ReleasedRow ==
  ASSUME Inv, NEW i \in Item, NEW s \in States, NEW v \in Nat
  PROVE  /\ Released(i, s, v) \in Row
         /\ Released(i, s, v).state = s /\ Released(i, s, v).token = NoToken
         /\ Released(i, s, v).attempt = item[i].attempt
<1>1. item[i].attempt \in Nat
    BY RowTyped DEF Inv, Row
<1>2. QED
    BY <1>1, NewRow DEF Released, NoToken

LEMMA ClaimedRow ==
  ASSUME Inv, NEW i \in Item
  PROVE  /\ Claimed(i) \in Row
         /\ Claimed(i).state = "leased" /\ Claimed(i).token = given[i] + 1
         /\ Claimed(i).attempt = item[i].attempt + 1
<1>1. item[i].attempt \in Nat /\ item[i].available \in Nat /\ given[i] \in Nat
    BY RowTyped DEF Inv, Row
<1>2. clock + LeaseSeconds \in Nat
  <2>1. clock \in Nat /\ LeaseSeconds \in Nat
      BY Numbers, RowTyped DEF Inv
  <2>2. QED
      BY <2>1
<1>3. QED
    BY <1>1, <1>2 DEF Claimed, ItemAt, Row, States

(* Every step changes the rows in one of these ways, and nothing else matters   *)
(* for the invariant but the types.                                              *)
LEMMA RowsKept ==
  ASSUME Inv, NEW i \in Item, RowSteps(i)
  PROVE  /\ item'[i] \in Row
         /\ (item'[i].state = "leased") <=> (item'[i].token # NoToken)
         /\ item'[i].attempt <= MaxAttempts[i]
         /\ item'[i].state = "leased" => item'[i].attempt > 0
         /\ item'[i].state = "absent" => item'[i].attempt = 0
<1> USE Numbers
<1>1. /\ item[i] \in Row /\ given[i] \in Nat /\ clock \in Nat
      /\ (item[i].state = "leased") <=> (item[i].token # NoToken)
      /\ item[i].attempt <= MaxAttempts[i]
      /\ item[i].state = "leased" => item[i].attempt > 0
      /\ item[i].state = "absent" => item[i].attempt = 0
    BY RowTyped DEF Inv, TypeOK, Budget
<1>2. CASE item'[i] = item[i]
    BY <1>1, <1>2
<1>3. CASE item'[i] = ItemAt("pending", 0, clock, NoToken, 0)
    BY <1>1, <1>3 DEF ItemAt, Row, States, NoToken
<1>4. CASE Due(i) /\ ~Exhausted(i) /\ item'[i] = Claimed(i)
    BY <1>1, <1>4, ClaimedRow DEF Exhausted, NoToken, Row
<1>5. CASE item[i].state = "leased" /\ item'[i] = [item[i] EXCEPT !.expires = clock + LeaseSeconds]
    BY <1>1, <1>5 DEF Row
<1>6. CASE Ended(i)
  <2>1. PICK s \in {"pending", "complete", "dead"}, v \in Nat : item'[i] = Released(i, s, v)
      BY <1>6 DEF Ended
  <2>2. s \in States /\ s \notin {"leased", "absent"}
      BY DEF States
  <2>3. QED
      BY <1>1, <2>1, <2>2, ReleasedRow
<1>7. QED
    BY <1>2, <1>3, <1>4, <1>5, <1>6 DEF RowSteps

(* A lease that a step acts on is the one of its row.                          *)
LEMMA ActsOn ==
  ASSUME Inv, NEW l \in held, Valid(l)
  PROVE  /\ l.item \in Item /\ item[l.item].state = "leased"
         /\ l = [item |-> l.item, token |-> item[l.item].token]
<1>1. l \in Lease
    BY DEF Inv, TypeOK
<1>2. QED
    BY <1>1 DEF Valid, Lease

LEMMA StepsRows ==
  ASSUME Inv, [Next]_vars
  PROVE  /\ \A i \in Item : RowSteps(i)
         /\ item' = [i \in Item |-> item'[i]]
<1> USE DEF RowSteps
<1>0. item = [i \in Item |-> item[i]]
    BY DEF Inv, TypeOK
<1>1. CASE Tick \/ UNCHANGED vars
    BY <1>0, <1>1 DEF Tick, vars
<1>2. ASSUME NEW j \in Job, Schedule(j)
      PROVE  (\A i \in Item : RowSteps(i)) /\ item' = [i \in Item |-> item'[i]]
    BY <1>2 DEF Schedule
<1>3. CASE Acquire
  <2> DEFINE dead == {i \in Item : Expired(i) /\ Exhausted(i)}
             claim == First(BatchSize, {i \in Item : Due(i) /\ ~Exhausted(i)})
  <2>1. item' = [i \in Item |-> IF i \in dead THEN Released(i, "dead", clock)
                                ELSE IF i \in claim THEN Claimed(i) ELSE item[i]]
      BY <1>3 DEF Acquire
  <2>2. \A i \in claim : Due(i) /\ ~Exhausted(i)
      BY DEF First
  <2>3. clock \in Nat
      BY RowTyped DEF Inv
  <2>4. ASSUME NEW i \in Item PROVE RowSteps(i)
    <3>1. CASE i \in dead
        BY <2>1, <2>3, <3>1 DEF Ended, Expired
    <3>2. CASE i \notin dead /\ i \in claim
        BY <2>1, <2>2, <3>2
    <3>3. CASE i \notin dead /\ i \notin claim
        BY <2>1, <3>3
    <3>4. QED
        BY <3>1, <3>2, <3>3
  <2>5. QED
      BY <2>1, <2>4
<1>4. ASSUME NEW l \in held,
             \/ Renew(l) \/ Drop(l)
             \/ \E u \in FinalUrls[l.item] : Save(l, u)
             \/ \E d \in RetryDelays : Fail(l, d)
      PROVE  (\A i \in Item : RowSteps(i)) /\ item' = [i \in Item |-> item'[i]]
  <2>1. CASE Renew(l)
    <3>1. l.item \in Item /\ item[l.item].state = "leased"
        BY <2>1, ActsOn DEF Renew
    <3>2. item' = [item EXCEPT ![l.item].expires = clock + LeaseSeconds]
        BY <2>1 DEF Renew
    <3>3. QED
        BY <1>0, <3>1, <3>2
  <2>2. CASE Drop(l)
      BY <1>0, <2>2 DEF Drop
  <2>3. ASSUME NEW u \in FinalUrls[l.item], Save(l, u)
        PROVE  (\A i \in Item : RowSteps(i)) /\ item' = [i \in Item |-> item'[i]]
    <3>1. l.item \in Item /\ item[l.item].state = "leased"
        BY <2>3, ActsOn DEF Save
    <3>2. item' = [item EXCEPT ![l.item] = Released(l.item, "complete", item[l.item].available)]
        BY <2>3 DEF Save
    <3>3. item[l.item].available \in Nat
        BY <3>1, RowTyped DEF Inv, Row
    <3>4. Ended(l.item)
        BY <1>0, <3>1, <3>2, <3>3 DEF Ended
    <3>5. QED
        BY <1>0, <3>1, <3>2, <3>4
  <2>4. ASSUME NEW d \in RetryDelays, Fail(l, d)
        PROVE  (\A i \in Item : RowSteps(i)) /\ item' = [i \in Item |-> item'[i]]
    <3> DEFINE s == IF Exhausted(l.item) THEN "dead" ELSE "pending"
    <3>1. l.item \in Item /\ item[l.item].state = "leased"
        BY <2>4, ActsOn DEF Fail
    <3>2. item' = [item EXCEPT ![l.item] = Released(l.item, s, clock + d)]
        BY <2>4 DEF Fail
    <3>3. clock \in Nat /\ d \in Nat
        BY RowTyped, Numbers DEF Inv
    <3>4. clock + d \in Nat /\ s \in {"pending", "complete", "dead"}
        BY <3>3
    <3>5. item'[l.item] = Released(l.item, s, clock + d)
        BY <1>0, <3>1, <3>2
    <3>6. Ended(l.item)
        BY <3>4, <3>5 DEF Ended
    <3>7. QED
        BY <1>0, <3>1, <3>2, <3>6
  <2>5. QED
      BY <1>4, <2>1, <2>2, <2>3, <2>4
<1>5. QED
    BY <1>1, <1>2, <1>3, <1>4 DEF Next

LEMMA OthersTyped ==
  ASSUME Inv, [Next]_vars
  PROVE  clock' \in Nat /\ given' \in [Item -> Nat] /\ page' \in [Url -> Item \cup {NoPage}] /\ held' \subseteq Lease
<1>1. clock \in Nat /\ given \in [Item -> Nat] /\ page \in [Url -> Item \cup {NoPage}] /\ held \subseteq Lease
    BY DEF Inv, TypeOK
<1>2. CASE Tick \/ UNCHANGED vars
    BY <1>1, <1>2 DEF Tick, vars
<1>3. CASE \E j \in Job : Schedule(j)
    BY <1>1, <1>3 DEF Schedule
<1>4. CASE Acquire
  <2>1. PICK claim \in SUBSET Item :
          /\ given' = [i \in Item |-> IF i \in claim THEN given[i] + 1 ELSE given[i]]
          /\ held' = held \cup {[item |-> i, token |-> given[i] + 1] : i \in claim}
          /\ UNCHANGED <<clock, page>>
      BY <1>4 DEF Acquire, First
  <2>2. \A i \in Item : given[i] + 1 \in Nat
      BY <1>1
  <2>3. held' \subseteq Lease
      BY <1>1, <2>1, <2>2 DEF Lease
  <2>4. QED
      BY <1>1, <2>1, <2>3
<1>5. ASSUME NEW l \in held,
             \/ Renew(l) \/ Drop(l)
             \/ \E u \in FinalUrls[l.item] : Save(l, u)
             \/ \E d \in RetryDelays : Fail(l, d)
      PROVE  /\ clock' \in Nat /\ given' \in [Item -> Nat]
             /\ page' \in [Url -> Item \cup {NoPage}] /\ held' \subseteq Lease
  <2>1. l.item \in Item
      BY <1>1 DEF Lease
  <2>2. CASE Renew(l) \/ Drop(l) \/ (\E d \in RetryDelays : Fail(l, d))
      BY <1>1, <2>2 DEF Renew, Drop, Fail
  <2>3. ASSUME NEW u \in FinalUrls[l.item], Save(l, u)
        PROVE  page' \in [Url -> Item \cup {NoPage}] /\ UNCHANGED <<clock, given>> /\ held' \subseteq held
      BY <1>1, <2>1, <2>3 DEF Save, SavePages
  <2>4. QED
      BY <1>1, <1>5, <2>2, <2>3
<1>6. QED
    BY <1>2, <1>3, <1>4, <1>5 DEF Next

LEMMA InvStep == Inv /\ [Next]_vars => Inv'
<1> SUFFICES ASSUME Inv, [Next]_vars PROVE Inv'
    OBVIOUS
<1>1. \A i \in Item :
        /\ item'[i] \in Row
        /\ (item'[i].state = "leased") <=> (item'[i].token # NoToken)
        /\ item'[i].attempt <= MaxAttempts[i]
        /\ item'[i].state = "leased" => item'[i].attempt > 0
        /\ item'[i].state = "absent" => item'[i].attempt = 0
    BY StepsRows, RowsKept
<1>2. item' \in [Item -> Row]
    BY <1>1, StepsRows
<1>3. RowsType'
    BY RowsType, PTL
<1>4. TypeOK'
    BY <1>1, <1>2, OthersTyped, <1>3
<1>5. QED
    BY <1>1, <1>4 DEF Inv, Budget

(* Every variable keeps its type, and the rows that are leased are those with  *)
(* a token.                                                                      *)
THEOREM TypeCorrect == Spec => []TypeOK
BY InvInit, InvStep, PTL DEF Spec, Inv

-----------------------------------------------------------------------------
(* Leases                                                                      *)

LEMMA NotStolen ==
  ASSUME Inv, [Next]_vars, NEW i \in Item, item[i].state = "leased", item[i].expires >= clock
  PROVE  \/ item'[i].token = item[i].token
         \/ LeaseOf(i) \in held \ held' /\ given' = given
<1>0. item \in [Item -> Row]
    BY RowsType DEF Inv
<1>1. CASE Tick \/ UNCHANGED vars \/ (\E l \in held : Drop(l))
    BY <1>1 DEF Tick, vars, Drop
<1>2. ASSUME NEW j \in Job, Schedule(j) PROVE item'[i].token = item[i].token
    BY <1>2 DEF Schedule
<1>3. CASE Acquire
  <2>1. item[i].expires \in Nat /\ clock \in Nat
      BY RowTyped DEF Inv, Row
  <2>2. ~Expired(i) /\ ~Due(i)
      BY <2>1 DEF Expired, Due
  <2>3. item'[i] = item[i]
      BY <1>3, <2>2 DEF Acquire, First
  <2>4. QED
      BY <2>3
<1>4. ASSUME NEW l \in held, Renew(l) PROVE item'[i].token = item[i].token
    BY <1>0, <1>4 DEF Renew, Row
<1>5. ASSUME NEW l \in held,
             (\E u \in FinalUrls[l.item] : Save(l, u)) \/ (\E d \in RetryDelays : Fail(l, d))
      PROVE  \/ item'[i].token = item[i].token
             \/ LeaseOf(i) \in held \ held' /\ given' = given
  <2>1. Valid(l) /\ held' = held \ {l} /\ given' = given
      BY <1>5 DEF Save, Fail
  <2>2. l.item \in Item /\ l = [item |-> l.item, token |-> item[l.item].token]
      BY <2>1, ActsOn
  <2>3. CASE l.item = i
      BY <1>5, <2>1, <2>2, <2>3 DEF LeaseOf
  <2>4. CASE l.item # i
      BY <1>0, <1>5, <2>4 DEF Save, Fail
  <2>5. QED
      BY <2>3, <2>4
<1>6. QED
    BY <1>1, <1>2, <1>3, <1>4, <1>5 DEF Next

(* A lease that has not expired is ended only by the worker that holds it.       *)
THEOREM LeasesAreNotStolen == Spec => LeaseNotStolen
<1>1. Inv /\ [Next]_vars =>
        [\A i \in Item :
           item[i].state = "leased" /\ item[i].expires >= clock =>
             \/ item'[i].token = item[i].token
             \/ LeaseOf(i) \in held \ held' /\ given' = given]_vars
    BY NotStolen
<1>2. QED
    BY <1>1, InvInit, InvStep, PTL DEF Spec, LeaseNotStolen

-----------------------------------------------------------------------------
(* The work queue                                                              *)

LEMMA Status ==
  ASSUME NEW i \in Item
  PROVE  /\ item[i].state = "absent" => statusBar[i] = "absent"
         /\ item[i].state \in {"pending", "leased"} => statusBar[i] = "open"
         /\ item[i].state = "complete" => statusBar[i] = "done"
         /\ item[i].state = "dead" => statusBar[i] = "dead"
         /\ triesBar[i] = item[i].attempt
BY DEF statusBar, StatusOf, triesBar

LEMMA StatusNext ==
  ASSUME NEW i \in Item
  PROVE  /\ item'[i].state = "absent" => statusBar'[i] = "absent"
         /\ item'[i].state \in {"pending", "leased"} => statusBar'[i] = "open"
         /\ item'[i].state = "complete" => statusBar'[i] = "done"
         /\ item'[i].state = "dead" => statusBar'[i] = "dead"
         /\ triesBar'[i] = item'[i].attempt
BY DEF statusBar, StatusOf, triesBar

BarTypes == statusBar = [i \in Item |-> statusBar[i]] /\ triesBar = [i \in Item |-> triesBar[i]]
LEMMA BarTyped == BarTypes /\ BarTypes'
<1>1. statusBar = [i \in Item |-> statusBar[i]] /\ (statusBar = [i \in Item |-> statusBar[i]])'
    BY Zenon DEF statusBar
<1>2. triesBar = [i \in Item |-> triesBar[i]] /\ (triesBar = [i \in Item |-> triesBar[i]])'
    BY Zenon DEF triesBar
<1>3. QED
    BY <1>1, <1>2 DEF BarTypes

(* A row keeps its status and tries when it does not change, when its lease is  *)
(* renewed, and when it waits for another attempt.                               *)
LEMMA Unseen ==
  ASSUME NEW i \in Item, item[i] \in Row,
         item'[i].attempt = item[i].attempt,
         item'[i].state = item[i].state \/ {item'[i].state, item[i].state} \subseteq {"pending", "leased"}
  PROVE  statusBar'[i] = statusBar[i] /\ triesBar'[i] = triesBar[i]
<1>1. item[i].state \in States
    BY DEF Row
<1>2. QED
    BY <1>1, Status, StatusNext DEF States

LEMMA InitRefined == Init => WQ!Init
<1> SUFFICES ASSUME Init PROVE WQ!Init
    OBVIOUS
<1>1. \A i \in Item : item[i].state = "absent" /\ item[i].attempt = 0
    BY DEF Init, ItemAt
<1>2. \A i \in Item : statusBar[i] = "absent" /\ triesBar[i] = 0
    BY <1>1, Status
<1>3. pagesBar = {}
    BY DEF Init, pagesBar
<1>4. QED
    BY <1>2, <1>3, BarTyped DEF BarTypes, WQ!Init

LEMMA SubmitRefined ==
  ASSUME Inv, NEW j \in Job, Schedule(j)
  PROVE  WQ!Submit(j)
<1>1. ASSUME NEW i \in Item, JobOf[i] = j
      PROVE  statusBar[i] = "absent" /\ statusBar'[i] = "open" /\ triesBar'[i] = triesBar[i]
  <2>1. item[i].state = "absent" /\ item[i].attempt = 0
      BY <1>1 DEF Schedule, Inv, Budget
  <2>2. item'[i].state = "pending" /\ item'[i].attempt = 0
      BY <1>1 DEF Schedule, ItemAt
  <2>3. QED
      BY <2>1, <2>2, Status, StatusNext
<1>2. ASSUME NEW i \in Item, JobOf[i] # j
      PROVE  statusBar'[i] = statusBar[i] /\ triesBar'[i] = triesBar[i]
  <2>1. item'[i] = item[i]
      BY <1>2 DEF Schedule
  <2>2. QED
      BY <2>1, Unseen, RowTyped DEF Inv
<1>3. /\ statusBar' = [i \in Item |-> IF JobOf[i] = j THEN "open" ELSE statusBar[i]]
      /\ triesBar' = triesBar
    BY <1>1, <1>2, BarTyped DEF BarTypes
<1>4. pagesBar' = pagesBar
    BY DEF Schedule, pagesBar
<1>5. QED
    BY <1>1, <1>3, <1>4 DEF WQ!Submit

LEMMA TakeRefined ==
  ASSUME Inv, Acquire
  PROVE  \E C, D \in SUBSET Item : WQ!Take(C, D)
<1> DEFINE D == {i \in Item : Expired(i) /\ Exhausted(i)}
           C == First(BatchSize, {i \in Item : Due(i) /\ ~Exhausted(i)})
<1>1. C \in SUBSET Item /\ D \in SUBSET Item /\ \A i \in C : Due(i) /\ ~Exhausted(i)
    BY DEF First
<1>2. \A i \in Item : item'[i] = IF i \in D THEN Released(i, "dead", clock)
                                 ELSE IF i \in C THEN Claimed(i) ELSE item[i]
    BY DEF Acquire
<1>3. \A i \in Item : /\ item[i] \in Row /\ item[i].attempt \in Nat /\ MaxAttempts[i] \in Nat
                      /\ item[i].attempt <= MaxAttempts[i]
    BY RowTyped, Numbers DEF Inv, Row, Budget
<1>4. ASSUME NEW i \in C
      PROVE  /\ i \notin D /\ statusBar[i] = "open" /\ triesBar[i] < MaxAttempts[i]
             /\ statusBar'[i] = "open" /\ triesBar'[i] = triesBar[i] + 1
  <2>1. i \in Item /\ i \notin D /\ item[i].state \in {"pending", "leased"} /\ ~Exhausted(i)
      BY <1>1 DEF Due, Expired
  <2>2. item'[i].state = "leased" /\ item'[i].attempt = item[i].attempt + 1
      BY <1>2, <2>1, ClaimedRow
  <2>3. item[i].attempt < MaxAttempts[i]
      BY <1>3, <2>1 DEF Exhausted
  <2>4. QED
      BY <2>1, <2>2, <2>3, Status, StatusNext
<1>5. ASSUME NEW i \in D
      PROVE  /\ statusBar[i] = "open" /\ triesBar[i] = MaxAttempts[i]
             /\ statusBar'[i] = "dead" /\ triesBar'[i] = triesBar[i]
  <2>1. i \in Item /\ item[i].state = "leased" /\ Exhausted(i)
      BY DEF Expired
  <2>2. item'[i].state = "dead" /\ item'[i].attempt = item[i].attempt
    <3>1. clock \in Nat /\ "dead" \in States
        BY RowTyped DEF Inv, States
    <3>2. item'[i] = Released(i, "dead", clock)
        BY <1>2, <2>1
    <3>3. QED
        BY <2>1, <3>1, <3>2, ReleasedRow
  <2>3. item[i].attempt = MaxAttempts[i]
      BY <1>3, <2>1 DEF Exhausted
  <2>4. QED
      BY <2>1, <2>2, <2>3, Status, StatusNext
<1>6. ASSUME NEW i \in Item, i \notin C, i \notin D
      PROVE  statusBar'[i] = statusBar[i] /\ triesBar'[i] = triesBar[i]
    BY <1>2, <1>3, <1>6, Unseen
<1> HIDE DEF C, D
<1>7. /\ statusBar' = [i \in Item |-> IF i \in D THEN "dead" ELSE statusBar[i]]
      /\ triesBar' = [i \in Item |-> IF i \in C THEN triesBar[i] + 1 ELSE triesBar[i]]
    BY <1>1, <1>4, <1>5, <1>6, BarTyped DEF BarTypes
<1>8. pagesBar' = pagesBar
    BY DEF Acquire, pagesBar
<1>9. WQ!Take(C, D)
    BY <1>4, <1>5, <1>7, <1>8 DEF WQ!Take
<1>10. QED
    BY <1>1, <1>9

(* A row that one step settles or returns; all others stay.                    *)
LEMMA OneRow ==
  ASSUME Inv, NEW k \in Item, NEW s \in {"pending", "complete", "dead"}, NEW v \in Nat,
         item[k].state = "leased",
         item' = [item EXCEPT ![k] = Released(k, s, v)]
  PROVE  /\ statusBar[k] = "open" /\ triesBar[k] > 0 /\ triesBar' = triesBar
         /\ s = "pending" => statusBar' = statusBar
         /\ s = "complete" => statusBar' = [statusBar EXCEPT ![k] = "done"]
         /\ s = "dead" => statusBar' = [statusBar EXCEPT ![k] = "dead"]
<1>0. item \in [Item -> Row]
    BY RowsType DEF Inv
<1>1. statusBar[k] = "open" /\ triesBar[k] > 0
    BY Status DEF Inv, Budget
<1>2. item'[k].state = s /\ item'[k].attempt = item[k].attempt
    BY <1>0, ReleasedRow DEF States
<1>3. \A i \in Item : i # k => statusBar'[i] = statusBar[i] /\ triesBar'[i] = triesBar[i]
    BY <1>0, Unseen
<1>4. triesBar'[k] = triesBar[k]
    BY <1>2, Status, StatusNext
<1>5. triesBar' = triesBar
    BY <1>3, <1>4, BarTyped DEF BarTypes
<1>6. /\ s = "pending" => statusBar'[k] = "open"
      /\ s = "complete" => statusBar'[k] = "done"
      /\ s = "dead" => statusBar'[k] = "dead"
    BY <1>2, StatusNext
<1>7. QED
    BY <1>1, <1>3, <1>5, <1>6, BarTyped DEF BarTypes

LEMMA SaveRefined ==
  ASSUME Inv, NEW l \in held, NEW u \in FinalUrls[l.item], Save(l, u)
  PROVE  \E i \in Item : \E v \in FinalUrls[i] : WQ!Finish(i, v)
<1>1. l.item \in Item /\ item[l.item].state = "leased"
    BY ActsOn DEF Save
<1>2. item[l.item].available \in Nat
    BY <1>1, RowTyped DEF Inv, Row
<1>3. /\ statusBar[l.item] = "open" /\ triesBar[l.item] > 0 /\ triesBar' = triesBar
      /\ statusBar' = [statusBar EXCEPT ![l.item] = "done"]
    BY <1>1, <1>2, OneRow DEF Save
<1>4. u \in Url
    BY <1>1, NumberAssumption
<1>5. pagesBar' = pagesBar \cup {u}
  <2>1. page \in [Url -> Item \cup {NoPage}] /\ page' = [page EXCEPT ![u] = IF page[u] = NoPage THEN l.item ELSE page[u]]
      BY DEF Inv, TypeOK, Save, SavePages
  <2>2. l.item # NoPage
      BY <1>1, Numbers
  <2>3. QED
      BY <1>4, <2>1, <2>2 DEF pagesBar
<1>6. WQ!Finish(l.item, u)
    BY <1>3, <1>5 DEF WQ!Finish
<1>7. QED
    BY <1>1, <1>6

LEMMA FailRefined ==
  ASSUME Inv, NEW l \in held, NEW d \in RetryDelays, Fail(l, d)
  PROVE  (\E i \in Item : WQ!GiveUp(i)) \/ UNCHANGED <<statusBar, triesBar, pagesBar>>
<1>1. l.item \in Item /\ item[l.item].state = "leased"
    BY ActsOn DEF Fail
<1>2. clock + d \in Nat
  <2>1. clock \in Nat /\ d \in Nat
      BY RowTyped, Numbers DEF Inv
  <2>2. QED
      BY <2>1
<1>3. pagesBar' = pagesBar
    BY DEF Fail, pagesBar
<1>4. CASE Exhausted(l.item)
  <2>1. item' = [item EXCEPT ![l.item] = Released(l.item, "dead", clock + d)]
      BY <1>4 DEF Fail
  <2>2. /\ statusBar[l.item] = "open" /\ triesBar' = triesBar
        /\ statusBar' = [statusBar EXCEPT ![l.item] = "dead"]
      BY <1>1, <1>2, <2>1, OneRow
  <2>3. triesBar[l.item] = MaxAttempts[l.item]
    <3>1. /\ item[l.item].attempt \in Nat /\ MaxAttempts[l.item] \in Nat
          /\ item[l.item].attempt <= MaxAttempts[l.item]
        BY <1>1, RowTyped, Numbers DEF Inv, Row, Budget
    <3>2. QED
        BY <1>1, <1>4, <3>1, Status DEF Exhausted
  <2>4. WQ!GiveUp(l.item)
      BY <1>3, <2>2, <2>3 DEF WQ!GiveUp
  <2>5. QED
      BY <1>1, <2>4
<1>5. CASE ~Exhausted(l.item)
  <2>1. item' = [item EXCEPT ![l.item] = Released(l.item, "pending", clock + d)]
      BY <1>5 DEF Fail
  <2>2. UNCHANGED <<statusBar, triesBar>>
      BY <1>1, <1>2, <2>1, OneRow
  <2>3. QED
      BY <1>3, <2>2
<1>6. QED
    BY <1>4, <1>5

LEMMA RenewRefined ==
  ASSUME Inv, NEW l \in held, Renew(l)
  PROVE  UNCHANGED <<statusBar, triesBar, pagesBar>>
<1>0. item \in [Item -> Row]
    BY RowsType DEF Inv
<1>1. \A i \in Item : item'[i].state = item[i].state /\ item'[i].attempt = item[i].attempt
    BY <1>0 DEF Renew, Row
<1>2. \A i \in Item : statusBar'[i] = statusBar[i] /\ triesBar'[i] = triesBar[i]
    BY <1>0, <1>1, Unseen
<1>3. QED
    BY <1>2, BarTyped DEF BarTypes, Renew, pagesBar

LEMMA StepRefined == Inv /\ [Next]_vars => [WQ!Next]_(WQ!vars)
<1> SUFFICES ASSUME Inv, [Next]_vars PROVE [WQ!Next]_(WQ!vars)
    OBVIOUS
<1> USE DEF WQ!Next, WQ!vars
<1>1. CASE Tick \/ UNCHANGED vars \/ \E l \in held : Drop(l)
  <2>1. item' = item /\ page' = page
      BY <1>1 DEF Tick, vars, Drop
  <2>2. statusBar' = statusBar /\ triesBar' = triesBar /\ pagesBar' = pagesBar
      BY <2>1 DEF statusBar, StatusOf, triesBar, pagesBar
  <2>3. QED
      BY <2>2
<1>2. CASE Acquire
    BY <1>2, TakeRefined
<1>3. ASSUME NEW j \in Job, Schedule(j) PROVE WQ!Next
    BY <1>3, SubmitRefined
<1>4. ASSUME NEW l \in held, NEW u \in FinalUrls[l.item], Save(l, u) PROVE WQ!Next
    BY <1>4, SaveRefined
<1>5. ASSUME NEW l \in held, NEW d \in RetryDelays, Fail(l, d) PROVE [WQ!Next]_(WQ!vars)
    BY <1>5, FailRefined
<1>6. ASSUME NEW l \in held, Renew(l) PROVE UNCHANGED WQ!vars
    BY <1>6, RenewRefined
<1>7. QED
    BY <1>1, <1>2, <1>3, <1>4, <1>5, <1>6 DEF Next

(* What is tested against the repository in memory is tested against the work   *)
(* queue that the repository in PostgreSQL implements, too.                       *)
THEOREM Refinement == Spec => ImplementsWorkQueue
<1>1. Init => Inv
    BY InvInit
<1>2. Inv /\ [Next]_vars => Inv'
    BY InvStep
<1>3. QED
    BY <1>1, <1>2, InitRefined, StepRefined, PTL DEF Spec, ImplementsWorkQueue, WQ!Spec

-----------------------------------------------------------------------------
(* What the queue promises, whoever implements it, holds of the dictionaries.   *)

LEMMA QueueStep == WQ!TypeOK /\ WQ!Promise /\ [WQ!Next]_(WQ!vars) => (WQ!TypeOK /\ WQ!Promise)'
<1> SUFFICES ASSUME WQ!TypeOK, WQ!Promise, [WQ!Next]_(WQ!vars) PROVE (WQ!TypeOK /\ WQ!Promise)'
    OBVIOUS
<1> USE DEF WQ!TypeOK, WQ!Promise
<1>0. MaxAttempts \in [Item -> Nat \ {0}] /\ JobOf \in [Item -> Job]
    BY NumberAssumption
<1>1. CASE UNCHANGED WQ!vars
    BY <1>1 DEF WQ!vars
<1>2. ASSUME NEW j \in Job, WQ!Submit(j) PROVE (WQ!TypeOK /\ WQ!Promise)'
    BY <1>0, <1>2 DEF WQ!Submit
<1>3. ASSUME NEW C \in SUBSET Item, NEW D \in SUBSET Item, WQ!Take(C, D) PROVE (WQ!TypeOK /\ WQ!Promise)'
    BY <1>0, <1>3 DEF WQ!Take
<1>4. ASSUME NEW i \in Item, WQ!GiveUp(i) PROVE (WQ!TypeOK /\ WQ!Promise)'
    BY <1>0, <1>4 DEF WQ!GiveUp
<1>5. ASSUME NEW i \in Item, NEW u \in FinalUrls[i], WQ!Finish(i, u) PROVE (WQ!TypeOK /\ WQ!Promise)'
    BY <1>0, <1>5 DEF WQ!Finish
<1>6. QED
    BY <1>1, <1>2, <1>3, <1>4, <1>5 DEF WQ!Next

LEMMA QueueEnds ==
  ASSUME WQ!TypeOK, WQ!Next
  PROVE  /\ pagesBar \subseteq pagesBar'
         /\ \A i \in Item : statusBar[i] \in {"done", "dead"} =>
              statusBar'[i] = statusBar[i] /\ triesBar'[i] = triesBar[i]
<1> USE DEF WQ!TypeOK
<1>1. ASSUME NEW j \in Job, WQ!Submit(j), NEW i \in Item, statusBar[i] \in {"done", "dead"}
      PROVE  statusBar'[i] = statusBar[i] /\ triesBar'[i] = triesBar[i]
    BY <1>1 DEF WQ!Submit
<1>2. ASSUME NEW C \in SUBSET Item, NEW D \in SUBSET Item, WQ!Take(C, D),
             NEW i \in Item, statusBar[i] \in {"done", "dead"}
      PROVE  statusBar'[i] = statusBar[i] /\ triesBar'[i] = triesBar[i]
    BY <1>2 DEF WQ!Take
<1>3. ASSUME NEW k \in Item, WQ!GiveUp(k) \/ \E u \in FinalUrls[k] : WQ!Finish(k, u),
             NEW i \in Item, statusBar[i] \in {"done", "dead"}
      PROVE  statusBar'[i] = statusBar[i] /\ triesBar'[i] = triesBar[i]
    BY <1>3 DEF WQ!GiveUp, WQ!Finish
<1>4. pagesBar \subseteq pagesBar'
    BY DEF WQ!Next, WQ!Submit, WQ!Take, WQ!GiveUp, WQ!Finish
<1>5. QED
    BY <1>1, <1>2, <1>3, <1>4 DEF WQ!Next

(* The repository of the tests, too, tries a row at most max_attempts times,     *)
(* ends it once, and has a page for what it calls complete.                       *)
THEOREM PromiseIsKept == Spec => []WQ!Promise /\ WQ!EndsOnce
<1>1. WQ!Init => WQ!TypeOK /\ WQ!Promise
    BY NumberAssumption DEF WQ!Init, WQ!TypeOK, WQ!Promise
<1>2. WQ!TypeOK /\ [WQ!Next]_(WQ!vars) =>
        [/\ pagesBar \subseteq pagesBar'
         /\ \A i \in Item : statusBar[i] \in {"done", "dead"} =>
              statusBar'[i] = statusBar[i] /\ triesBar'[i] = triesBar[i]]_(WQ!vars)
    BY QueueEnds
<1>3. WQ!Spec => []WQ!Promise /\ WQ!EndsOnce
    BY <1>1, <1>2, QueueStep, PTL DEF WQ!Spec, WQ!EndsOnce
<1>4. QED
    BY <1>3, Refinement, PTL DEF ImplementsWorkQueue
=============================================================================
