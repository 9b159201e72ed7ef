--------------------------- MODULE ProofingProofs ---------------------------
(***************************************************************************)
(* Proofs about Proofing: what the calendar makes of the age the issuer    *)
(* reckons with, and, for any sessions, codes, callbacks and restarts, how *)
(* a session becomes an enrollment and an enrollment a signature.          *)
(***************************************************************************)
EXTENDS Proofing, TLAPS

-----------------------------------------------------------------------------
(* The calendar.                                                           *)

\* The days before a year.
DaysBeforeYear(year) ==
  LET y == year - 1 IN 365 * y + y \div 4 - y \div 100 + y \div 400

LEMMA NextYear ==
  ASSUME NEW y \in Int
  PROVE  DaysBeforeYear(y + 1) = DaysBeforeYear(y) + (IF IsLeap(y) THEN 366 ELSE 365)
<1>1. y \div 4 = (y - 1) \div 4 + (IF y % 4 = 0 THEN 1 ELSE 0)
  OBVIOUS
<1>2. y \div 100 = (y - 1) \div 100 + (IF y % 100 = 0 THEN 1 ELSE 0)
  OBVIOUS
<1>3. y \div 400 = (y - 1) \div 400 + (IF y % 400 = 0 THEN 1 ELSE 0)
  OBVIOUS
<1>4. (y % 400 = 0 => y % 100 = 0) /\ (y % 100 = 0 => y % 4 = 0)
  OBVIOUS
<1> QED BY <1>1, <1>2, <1>3, <1>4 DEF DaysBeforeYear, IsLeap

LEMMA YearsGrow ==
  ASSUME NEW x \in Int, NEW y \in Int, x < y
  PROVE  DaysBeforeYear(x + 1) <= DaysBeforeYear(y)
BY DEF DaysBeforeYear

Months == 1 .. 12

LEMMA MonthsGrow ==
  ASSUME NEW y \in Int, NEW m \in Months, NEW n \in Months, m < n
  PROVE  DaysBefore(y, m) + DaysIn(y, m) <= DaysBefore(y, n)
BY DEF Months, DaysBefore, DaysIn

LEMMA MonthInYear ==
  ASSUME NEW y \in Int, NEW m \in Months
  PROVE  /\ DaysBefore(y, m) \in Nat
         /\ DaysBefore(y, m) + DaysIn(y, m) <= (IF IsLeap(y) THEN 366 ELSE 365)
BY DEF Months, DaysBefore, DaysIn


LEMMA Ranges ==
  ASSUME NEW y \in Int, NEW m \in Months
  PROVE  DaysBeforeYear(y) \in Int /\ DaysBefore(y, m) \in Nat /\ DaysIn(y, m) \in Nat
BY DEF Months, DaysBeforeYear, DaysBefore, DaysIn

\* The number of a day by its year, month and day.
Number(y, m, d) == DaysBeforeYear(y) + DaysBefore(y, m) + d

LEMMA YearsInOrder ==
  ASSUME NEW y \in Int, NEW m \in Months, NEW d \in Nat \ {0}, d <= DaysIn(y, m),
         NEW u \in Int, NEW n \in Months, NEW e \in Nat \ {0}, y < u
  PROVE  Number(y, m, d) < Number(u, n, e)
<1>1. DaysBeforeYear(y) + DaysBefore(y, m) + DaysIn(y, m) <= DaysBeforeYear(y + 1)
  <2>1. DaysBeforeYear(y) \in Int /\ DaysBefore(y, m) \in Nat /\ DaysIn(y, m) \in Nat
    BY Ranges
  <2>2. DaysBeforeYear(y + 1) = DaysBeforeYear(y) + (IF IsLeap(y) THEN 366 ELSE 365)
    BY NextYear
  <2>3. DaysBefore(y, m) + DaysIn(y, m) <= (IF IsLeap(y) THEN 366 ELSE 365)
    BY MonthInYear
  <2> QED BY <2>1, <2>2, <2>3
<1>2. DaysBeforeYear(y + 1) <= DaysBeforeYear(u)
  BY YearsGrow
<1>3. /\ DaysBeforeYear(y) \in Int /\ DaysBefore(y, m) \in Nat /\ DaysIn(y, m) \in Nat
      /\ DaysBeforeYear(y + 1) \in Int /\ DaysBeforeYear(u) \in Int /\ DaysBefore(u, n) \in Nat
  BY Ranges
<1> QED BY <1>1, <1>2, <1>3 DEF Number

LEMMA MonthsInOrder ==
  ASSUME NEW y \in Int, NEW m \in Months, NEW d \in Nat \ {0}, d <= DaysIn(y, m),
         NEW n \in Months, NEW e \in Nat \ {0}, m < n
  PROVE  Number(y, m, d) < Number(y, n, e)
<1>1. DaysBefore(y, m) + DaysIn(y, m) <= DaysBefore(y, n)
  BY MonthsGrow
<1>2. /\ DaysBeforeYear(y) \in Int /\ DaysBefore(y, m) \in Nat /\ DaysIn(y, m) \in Nat
      /\ DaysBefore(y, n) \in Nat
  BY Ranges
<1> QED BY <1>1, <1>2 DEF Number

\* Days are numbered in the order of the calendar.
LEMMA DaysInOrder ==
  ASSUME NEW y \in Int, NEW m \in Months, NEW d \in Nat \ {0}, d <= DaysIn(y, m),
         NEW u \in Int, NEW n \in Months, NEW e \in Nat \ {0}, e <= DaysIn(u, n)
  PROVE  Number(y, m, d) <= Number(u, n, e)
           <=> \/ y < u
               \/ y = u /\ m < n
               \/ y = u /\ m = n /\ d <= e
<1>1. Number(y, m, d) \in Int /\ Number(u, n, e) \in Int
  BY Ranges DEF Number
<1>2. CASE y = u /\ m = n
  <2>1. DaysBeforeYear(y) \in Int /\ DaysBefore(y, m) \in Nat
    BY Ranges
  <2>2. Number(u, n, e) = Number(y, m, e)
    BY <1>2
  <2>3. Number(y, m, d) <= Number(y, m, e) <=> d <= e
    BY <2>1 DEF Number
  <2> QED BY <1>2, <2>2, <2>3 DEF Months
<1>3. CASE y < u
  BY <1>1, <1>3, YearsInOrder
<1>4. CASE u < y
  BY <1>1, <1>4, YearsInOrder
<1>5. CASE y = u /\ m < n
  BY <1>1, <1>5, MonthsInOrder
<1>6. CASE y = u /\ n < m
  BY <1>1, <1>6, MonthsInOrder
<1> QED BY <1>2, <1>3, <1>4, <1>5, <1>6 DEF Months

\* On any day, a person has had n birthdays exactly if the age reckoned is n
\* or more.
LEMMA AgeIsBirthdays ==
  ASSUME NEW dob, IsDate(dob), NEW today, IsDate(today), NEW n \in Int
  PROVE  OfAge(dob, n, today) <=> n <= AgeInYears(dob, today)
<1> DEFINE y == dob.year + n
           b == Birthday(dob, n)
<1>1. /\ dob.year \in Int /\ dob.month \in Months /\ dob.day \in Nat \ {0}
      /\ dob.day <= DaysIn(dob.year, dob.month)
      /\ y \in Int
  BY DEF IsDate, Months
<1>2. /\ today.year \in Int /\ today.month \in Months /\ today.day \in Nat \ {0}
      /\ today.day <= DaysIn(today.year, today.month)
  BY DEF IsDate, Months
<1>3. /\ DayNumber(today) = Number(today.year, today.month, today.day)
      /\ DayNumber(b) = Number(b.year, b.month, b.day)
  BY DEF DayNumber, Number, DaysBeforeYear
<1>4. CASE dob.month = 2 /\ dob.day = 29 /\ ~ IsLeap(y)
  <2>1. b.year = y /\ b.month = 3 /\ b.day = 1
    BY <1>4 DEF Birthday
  <2>2. OfAge(dob, n, today) <=> Number(y, 3, 1) <= Number(today.year, today.month, today.day)
    BY <1>3, <2>1 DEF OfAge
  <2>3. 1 <= DaysIn(y, 3) /\ 3 \in Months
    BY DEF DaysIn, Months
  <2>4. OfAge(dob, n, today) <=>
          \/ y < today.year
          \/ y = today.year /\ 3 < today.month
          \/ y = today.year /\ 3 = today.month /\ 1 <= today.day
    <3> HIDE DEF y
    <3> QED BY <1>1, <1>2, <2>2, <2>3, DaysInOrder
  <2>5. y = today.year /\ today.month = 2 => today.day < 29
    BY <1>2, <1>4 DEF DaysIn
  <2> QED BY <1>1, <1>2, <1>4, <2>4, <2>5 DEF AgeInYears, Months
<1>5. CASE ~ (dob.month = 2 /\ dob.day = 29 /\ ~ IsLeap(y))
  <2>1. b.year = y /\ b.month = dob.month /\ b.day = dob.day
    BY <1>5 DEF Birthday, IsDate
  <2>2. OfAge(dob, n, today) <=>
          Number(y, dob.month, dob.day) <= Number(today.year, today.month, today.day)
    BY <1>3, <2>1 DEF OfAge
  <2>3. dob.day <= DaysIn(y, dob.month)
    BY <1>1, <1>5 DEF DaysIn
  <2>4. OfAge(dob, n, today) <=>
          \/ y < today.year
          \/ y = today.year /\ dob.month < today.month
          \/ y = today.year /\ dob.month = today.month /\ dob.day <= today.day
    <3> HIDE DEF y
    <3> QED BY <1>1, <1>2, <2>2, <2>3, DaysInOrder
  <2> QED BY <1>1, <1>2, <2>4 DEF AgeInYears, Months
<1> QED BY <1>4, <1>5

-----------------------------------------------------------------------------
(* The state.                                                              *)

\* Where a callback has an ID token in its hand, has taken its session, and is
\* at work.
InHand == {"answer", "store", "validate", "create"}
Past == {"exchange"} \cup InHand
Busy == {"entered"} \cup Past

Locals ==
  [code : Codes \cup {None}, state : Sessions \cup {None}, at : Nat,
   token : IdTokens \cup {None}, keys : Nat \cup {None}]

\* What a callback has among its locals, given what has been drawn: in its last
\* step before it enrolls, a token that carries its session's nonce.
Equipped(label, l, ids) ==
  /\ label \in Busy => l.code \in Codes \cap ids /\ l.state \in Sessions \cap ids
  /\ label \in InHand => l.token \in IdTokens
  /\ label \notin InHand => l.token = None
  /\ label = "store" => l.keys \in 0 .. MaxRestarts
  /\ label = "create" => l.token.dob \in Dobs /\ l.token.nonce = l.state

CallbacksInv ==
  /\ pc \in [Callbacks -> Labels]
  /\ local \in [Callbacks -> Locals]
  /\ \A r \in Callbacks : Equipped(pc[r], local[r], drawn)

SessionsInv ==
  /\ sessions \in [Sessions -> 0 .. MaxTime \cup {None}]
  /\ \A s \in Sessions : sessions[s] # None => s \in drawn
EnrollmentsInv ==
  /\ enrollments \in [Enrollments -> Rows \cup {None}]
  /\ proofOf \in [Enrollments -> Sessions \cup {None}]
  /\ \A e \in Enrollments :
       /\ e \in drawn <=> enrollments[e] # None
       /\ proofOf[e] # None => proofOf[e] \in drawn
IdpInv ==
  /\ idpKey \in 0 .. restarts
  /\ codes \in [Codes -> CodeRecords \cup {None}]
  /\ \A c \in Codes : codes[c] # None => c \in drawn
RestInv ==
  /\ now \in 0 .. MaxTime
  /\ mode \in {"oidc", "asserted"}
  /\ jwks \in 0 .. MaxRestarts \cup {None}
  /\ drawn \subseteq Sessions \cup Codes \cup Enrollments
  /\ attested \subseteq
       [nonce : Sessions, challenge : Sessions, dob : Dobs \cup {Timestamp}]
  /\ restarts \in 0 .. MaxRestarts

ShapeInv == CallbacksInv /\ SessionsInv /\ EnrollmentsInv /\ IdpInv /\ RestInv

LEMMA BusyIsRunning == \A r \in Callbacks : pc[r] \in Labels => (Running(r) <=> pc[r] \in Busy)
BY DEF Running, Labels, Busy, Past, InHand

LEMMA ShapeInvTypes == ShapeInv => TypeOK
<1> SUFFICES ASSUME ShapeInv PROVE TypeOK
  OBVIOUS
<1>1. ASSUME NEW e \in Enrollments
      PROVE  /\ e \in drawn <=> enrollments[e] # None
             /\ enrollments[e] # None => enrollments[e].dob \in Dobs
  BY DEF ShapeInv, EnrollmentsInv, Rows
<1>2. ASSUME NEW r \in Callbacks
      PROVE  /\ Running(r) => {local[r].code, local[r].state} \subseteq drawn
             /\ pc[r] \in {"answer", "store", "validate", "create"}
                  => local[r].token # None
  <2>1. pc[r] \in Labels /\ Equipped(pc[r], local[r], drawn)
    BY DEF ShapeInv, CallbacksInv
  <2>2. None \notin IdTokens
    BY ProofingAssumption
  <2> QED BY <2>1, <2>2, BusyIsRunning DEF Equipped, InHand
<1>3. idpKey \in 0 .. MaxRestarts
  BY ProofingAssumption DEF ShapeInv, IdpInv, RestInv
<1> QED BY <1>1, <1>2, <1>3
        DEF ShapeInv, CallbacksInv, SessionsInv, EnrollmentsInv, IdpInv, RestInv, TypeOK

LEMMA NoLocalsType == NoLocals \in Locals /\ NoLocals.token = None
BY DEF NoLocals, Locals

\* A callback's move keeps the shape when its new locals have what its new label
\* asks for.
LEMMA GotoShape ==
  ASSUME CallbacksInv, NEW r \in Callbacks, NEW label \in Labels, NEW l \in Locals,
         Goto(r, label, l), drawn \subseteq drawn', Equipped(label, l, drawn')
  PROVE  CallbacksInv'
<1>1. pc' = [pc EXCEPT ![r] = label] /\ local' = [local EXCEPT ![r] = l]
  BY DEF Goto
<1>2. pc' \in [Callbacks -> Labels] /\ local' \in [Callbacks -> Locals]
  BY <1>1 DEF CallbacksInv
<1>3. ASSUME NEW q \in Callbacks
      PROVE  Equipped(pc'[q], local'[q], drawn')
  <2>1. CASE q = r
    <3>1. pc'[q] = label /\ local'[q] = l
      BY <1>1, <2>1 DEF CallbacksInv
    <3> QED BY <3>1
  <2>2. CASE q # r
    <3>1. pc'[q] = pc[q] /\ local'[q] = local[q]
      BY <1>1, <2>2 DEF CallbacksInv
    <3>2. Equipped(pc[q], local[q], drawn)
      BY DEF CallbacksInv
    <3> QED BY <3>1, <3>2 DEF Equipped
  <2> QED BY <2>1, <2>2
<1>4. (\A q \in Callbacks : Equipped(pc[q], local[q], drawn))'
  BY <1>3 DEF Equipped
<1> QED BY <1>2, <1>4 DEF CallbacksInv

LEMMA FailShape ==
  ASSUME CallbacksInv, NEW r \in Callbacks, NEW label \in {"failed", "done"},
         Goto(r, label, NoLocals), drawn \subseteq drawn'
  PROVE  CallbacksInv'
<1>1. label \in Labels /\ Equipped(label, NoLocals, drawn')
  BY NoLocalsType DEF Labels, Equipped, Busy, Past, InHand
<1> QED BY <1>1, NoLocalsType, GotoShape

LEMMA StayShape ==
  ASSUME CallbacksInv, UNCHANGED <<pc, local>>, drawn \subseteq drawn'
  PROVE  CallbacksInv'
<1>1. ASSUME NEW q \in Callbacks
      PROVE  Equipped(pc'[q], local'[q], drawn')
  BY DEF CallbacksInv, Equipped
<1>2. (\A q \in Callbacks : Equipped(pc[q], local[q], drawn))'
  BY <1>1 DEF Equipped
<1> QED BY <1>2 DEF CallbacksInv

LEMMA ShapeInit == Init => ShapeInv
<1> SUFFICES ASSUME Init PROVE ShapeInv
  OBVIOUS
<1>1. CallbacksInv
  BY NoLocalsType DEF Init, CallbacksInv, Labels, Equipped, Busy, Past, InHand
<1>2. SessionsInv /\ EnrollmentsInv /\ IdpInv /\ RestInv
  BY ProofingAssumption DEF Init, SessionsInv, EnrollmentsInv, IdpInv, RestInv
<1> QED BY <1>1, <1>2 DEF ShapeInv

\* Calls of the callback, up to the exchange of the code.
LEMMA ArriveShape ==
  ASSUME ShapeInv, NEW r \in Callbacks,
         \/ \E c \in Codes, s \in Sessions : Callback(r, c, s)
         \/ Consume(r) \/ Exchange(r) \/ Unreachable(r) \/ LoseAnswer(r)
  PROVE  ShapeInv'
<1>0. /\ CallbacksInv /\ pc[r] \in Labels /\ local[r] \in Locals
      /\ Equipped(pc[r], local[r], drawn)
  BY DEF ShapeInv, CallbacksInv
<1>1. drawn' = drawn /\ UNCHANGED <<now, mode, enrollments, jwks, idpKey, history>>
  BY DEF Callback, Consume, Exchange, Unreachable, LoseAnswer, issuer, idp, history
<1>2. EnrollmentsInv' /\ RestInv'
  BY <1>1 DEF ShapeInv, EnrollmentsInv, RestInv, history
<1>3. SessionsInv'
  <2>1. CASE sessions' = sessions
    BY <1>1, <2>1 DEF ShapeInv, SessionsInv
  <2>2. CASE Consume(r)
    BY <1>1, <2>2 DEF Consume, ShapeInv, SessionsInv
  <2> QED BY <2>1, <2>2 DEF Callback, Exchange, Unreachable, LoseAnswer, issuer
<1>4. IdpInv'
  <2>1. CASE codes' = codes
    BY <1>1, <2>1 DEF ShapeInv, IdpInv, history
  <2>2. CASE codes' = [codes EXCEPT ![local[r].code] = None]
    BY <1>1, <2>2 DEF ShapeInv, IdpInv, history
  <2> QED BY <2>1, <2>2 DEF Callback, Consume, Exchange, Unreachable, LoseAnswer, idp
<1>5. CallbacksInv'
  <2>1. CASE Fail(r)
    BY <1>0, <1>1, <2>1, FailShape DEF Fail
  <2>2. ASSUME NEW c \in Codes, NEW s \in Sessions, Callback(r, c, s)
        PROVE  CallbacksInv'
    <3> DEFINE held == [NoLocals EXCEPT !.code = c]
               aimed == [held EXCEPT !.state = s]
               l == [aimed EXCEPT !.at = now]
    <3>1. held \in Locals /\ held.token = None /\ held.code = c
      BY NoLocalsType DEF Locals
    <3> HIDE DEF held
    <3>2. aimed \in Locals /\ aimed.token = None /\ aimed.code = c /\ aimed.state = s
      BY <3>1 DEF Locals
    <3> HIDE DEF aimed
    <3>3. now \in Nat
      BY ProofingAssumption DEF ShapeInv, RestInv
    <3>4. l \in Locals /\ l.token = None /\ l.code = c /\ l.state = s
      BY <3>2, <3>3 DEF Locals
    <3>5. Goto(r, "entered", l) /\ {c, s} \subseteq drawn
      BY <2>2 DEF Callback, held, aimed
    <3> HIDE DEF l
    <3>6. Equipped("entered", l, drawn')
      BY <1>1, <3>4, <3>5 DEF Equipped, InHand
    <3> QED BY <1>0, <1>1, <3>4, <3>5, <3>6, GotoShape DEF Labels
  <2>3. CASE Consume(r) /\ Goto(r, "exchange", local[r])
    <3>1. Equipped("exchange", local[r], drawn')
      BY <1>0, <1>1, <2>3 DEF Consume, Equipped, Busy, Past, InHand
    <3> QED BY <1>0, <1>1, <2>3, <3>1, GotoShape DEF Labels
  <2>4. CASE Exchange(r) /\ ~ Fail(r)
    <3> DEFINE record == codes[local[r].code]
               token == [nonce |-> record.nonce, dob |-> record.dob,
                         exp |-> now + IdTokenTtl, key |-> idpKey]
               l == [local[r] EXCEPT !.token = token]
    <3>1. Exchangeable(r, record) /\ Goto(r, "answer", l)
      BY <2>4 DEF Exchange
    <3>2. /\ local[r].code \in Codes \cap drawn /\ local[r].state \in Sessions \cap drawn
      BY <1>0, <2>4 DEF Exchange, Equipped, Busy, Past
    <3>3. record \in CodeRecords
      BY <3>1, <3>2 DEF Exchangeable, ShapeInv, IdpInv
    <3>4. now + IdTokenTtl \in Nat /\ idpKey \in Nat
      BY ProofingAssumption DEF ShapeInv, RestInv, IdpInv
    <3> HIDE DEF record
    <3>5. token \in IdTokens
      BY <3>3, <3>4 DEF IdTokens, CodeRecords
    <3> HIDE DEF token
    <3>6. l \in Locals /\ l.token = token /\ l.code = local[r].code /\ l.state = local[r].state
      BY <1>0, <3>5 DEF Locals
    <3> HIDE DEF l
    <3>7. Equipped("answer", l, drawn')
      BY <1>1, <3>2, <3>5, <3>6 DEF Equipped, InHand
    <3> QED BY <1>0, <1>1, <3>1, <3>6, <3>7, GotoShape DEF Labels
  <2> QED BY <2>1, <2>2, <2>3, <2>4 DEF Consume, Exchange, Unreachable, LoseAnswer
<1> QED BY <1>2, <1>3, <1>4, <1>5 DEF ShapeInv

\* A row for an enrollment id that has not been drawn before.
LEMMA EnrollShape ==
  ASSUME ShapeInv, NEW e \in Enrollments, NEW dob \in Dobs, e \notin drawn,
         drawn' = drawn \cup {e},
         enrollments' = [enrollments EXCEPT
           ![e] = [dob |-> dob, expires_at |-> now + EnrollmentTtl]],
         \/ proofOf' = proofOf
         \/ \E s \in Sessions \cap drawn : proofOf' = [proofOf EXCEPT ![e] = s]
  PROVE  EnrollmentsInv'
<1> DEFINE row == [dob |-> dob, expires_at |-> now + EnrollmentTtl]
<1>1. now + EnrollmentTtl \in Nat
  BY ProofingAssumption DEF ShapeInv, RestInv
<1>2. row \in Rows /\ row # None
  BY <1>1, ProofingAssumption DEF Rows
<1> HIDE DEF row
<1>3. enrollments' = [enrollments EXCEPT ![e] = row]
  BY DEF row
<1>4. /\ enrollments' \in [Enrollments -> Rows \cup {None}]
      /\ \A f \in Enrollments : f \in drawn' <=> enrollments'[f] # None
  BY <1>2, <1>3 DEF ShapeInv, EnrollmentsInv
<1>5. /\ proofOf' \in [Enrollments -> Sessions \cup {None}]
      /\ \A f \in Enrollments : proofOf'[f] # None => proofOf'[f] \in drawn'
  BY DEF ShapeInv, EnrollmentsInv
<1> QED BY <1>4, <1>5 DEF EnrollmentsInv

\* Calls of the callback with an ID token in hand.
LEMMA ServeShape ==
  ASSUME ShapeInv, NEW r \in Callbacks,
         \/ GetJwks(r) \/ StoreJwks(r) \/ Validate(r)
         \/ \E e \in Enrollments : CreateEnrollment(r, e)
  PROVE  ShapeInv'
<1>0. /\ CallbacksInv /\ pc[r] \in Labels /\ local[r] \in Locals
      /\ Equipped(pc[r], local[r], drawn)
  BY DEF ShapeInv, CallbacksInv
<1>1. CASE GetJwks(r)
  <2>1. UNCHANGED <<now, mode, issuer, idp, history>>
    BY <1>1 DEF GetJwks
  <2>2. SessionsInv' /\ EnrollmentsInv' /\ IdpInv' /\ RestInv'
    BY <2>1 DEF ShapeInv, SessionsInv, EnrollmentsInv, IdpInv, RestInv, issuer, idp, history
  <2>3. drawn' = drawn /\ pc[r] = "answer"
    BY <1>1, <2>1 DEF GetJwks, history
  <2>4. CASE jwks # None /\ Goto(r, "validate", [local[r] EXCEPT !.keys = jwks])
    <3> DEFINE l == [local[r] EXCEPT !.keys = jwks]
    <3>1. jwks \in Nat
      BY <2>4, ProofingAssumption DEF ShapeInv, RestInv
    <3>2. /\ l \in Locals /\ l.token = local[r].token
          /\ l.code = local[r].code /\ l.state = local[r].state
      BY <1>0, <3>1 DEF Locals
    <3>3. Goto(r, "validate", l)
      BY <2>4
    <3> HIDE DEF l
    <3>4. Equipped("validate", l, drawn')
      BY <1>0, <2>3, <3>2 DEF Equipped, Busy, Past, InHand
    <3> QED BY <1>0, <2>2, <2>3, <3>2, <3>3, <3>4, GotoShape DEF ShapeInv, Labels
  <2>5. CASE Goto(r, "store", [local[r] EXCEPT !.keys = idpKey])
    <3> DEFINE l == [local[r] EXCEPT !.keys = idpKey]
    <3>1. idpKey \in 0 .. MaxRestarts
      BY ProofingAssumption DEF ShapeInv, IdpInv, RestInv
    <3>2. /\ l \in Locals /\ l.keys = idpKey /\ l.token = local[r].token
          /\ l.code = local[r].code /\ l.state = local[r].state
      BY <1>0, <3>1 DEF Locals
    <3>3. Goto(r, "store", l)
      BY <2>5
    <3> HIDE DEF l
    <3>4. Equipped("store", l, drawn')
      BY <1>0, <2>3, <3>1, <3>2 DEF Equipped, Busy, Past, InHand
    <3> QED BY <1>0, <2>2, <2>3, <3>2, <3>3, <3>4, GotoShape DEF ShapeInv, Labels
  <2> QED BY <1>1, <2>4, <2>5 DEF GetJwks
<1>2. CASE StoreJwks(r)
  <2>1. pc[r] = "store" /\ jwks' = local[r].keys /\ drawn' = drawn
    BY <1>2 DEF StoreJwks, history
  <2>2. local[r].keys \in 0 .. MaxRestarts
    BY <1>0, <2>1 DEF Equipped
  <2>3. SessionsInv' /\ EnrollmentsInv' /\ IdpInv' /\ RestInv'
    BY <1>2, <2>2
    DEF StoreJwks, ShapeInv, SessionsInv, EnrollmentsInv, IdpInv, RestInv, idp, history
  <2>4. Equipped("answer", local[r], drawn')
    BY <1>0, <2>1 DEF Equipped, Busy, Past, InHand
  <2>5. CallbacksInv'
    BY <1>0, <1>2, <2>1, <2>4, GotoShape DEF StoreJwks, Labels
  <2> QED BY <2>3, <2>5 DEF ShapeInv
<1>3. CASE Validate(r)
  <2>1. /\ UNCHANGED <<now, mode, issuer, idp, history>> /\ drawn' = drawn
        /\ pc[r] = "validate"
    BY <1>3 DEF Validate, history
  <2>2. SessionsInv' /\ EnrollmentsInv' /\ IdpInv' /\ RestInv'
    BY <2>1 DEF ShapeInv, SessionsInv, EnrollmentsInv, IdpInv, RestInv, issuer, idp, history
  <2>3. CASE Fail(r)
    BY <1>0, <2>1, <2>2, <2>3, FailShape DEF Fail, ShapeInv
  <2>4. CASE ~ Fail(r)
    <3>1. /\ Goto(r, "create", local[r])
          /\ local[r].token.nonce = local[r].state /\ local[r].token.dob # Timestamp
      BY <1>3, <2>4 DEF Validate
    <3>2. local[r].token \in IdTokens
      BY <1>0, <2>1 DEF Equipped, InHand
    <3>3. Equipped("create", local[r], drawn')
      BY <1>0, <2>1, <3>1, <3>2 DEF Equipped, Busy, Past, InHand, IdTokens
    <3> QED BY <1>0, <2>1, <2>2, <3>1, <3>3, GotoShape DEF ShapeInv, Labels
  <2> QED BY <2>3, <2>4
<1>4. ASSUME NEW e \in Enrollments, CreateEnrollment(r, e) PROVE ShapeInv'
  <2>1. /\ pc[r] = "create" /\ drawn' = drawn \cup {e}
        /\ local[r].token.dob \in Dobs /\ local[r].state \in Sessions \cap drawn
    BY <1>0, <1>4 DEF CreateEnrollment, Equipped, Busy, Past, InHand
  <2>2. EnrollmentsInv'
    BY <1>4, <2>1, EnrollShape DEF CreateEnrollment
  <2>3. SessionsInv' /\ IdpInv' /\ RestInv'
    BY <1>4, <2>1 DEF CreateEnrollment, ShapeInv, SessionsInv, IdpInv, RestInv, idp
  <2>4. CallbacksInv'
    BY <1>0, <1>4, <2>1, FailShape DEF CreateEnrollment
  <2> QED BY <2>2, <2>3, <2>4 DEF ShapeInv
<1> QED BY <1>1, <1>2, <1>3, <1>4

LEMMA ShapeStep == ShapeInv /\ [Next]_vars => ShapeInv'
<1> SUFFICES ASSUME ShapeInv, [Next]_vars PROVE ShapeInv'
  OBVIOUS
<1>0. CallbacksInv
  BY DEF ShapeInv
<1>1. ASSUME NEW s \in Sessions, Authorize(s) PROVE ShapeInv'
  <2>1. CallbacksInv'
    BY <1>0, <1>1, StayShape DEF Authorize
  <2>2. SessionsInv'
    BY <1>1, ProofingAssumption DEF Authorize, ShapeInv, SessionsInv, RestInv
  <2>3. EnrollmentsInv' /\ IdpInv' /\ RestInv'
    BY <1>1, ProofingAssumption
    DEF Authorize, ShapeInv, EnrollmentsInv, IdpInv, RestInv, idp
  <2> QED BY <2>1, <2>2, <2>3 DEF ShapeInv
<1>2. ASSUME NEW c \in Codes, NEW n \in Sessions, NEW ch \in Sessions,
             NEW d \in Dobs \cup {Timestamp}, Submit(c, n, ch, d)
      PROVE  ShapeInv'
  <2>1. CallbacksInv'
    BY <1>0, <1>2, StayShape DEF Submit
  <2>2. IdpInv'
    <3>1. [nonce |-> n, challenge |-> ch, dob |-> d, at |-> now] \in CodeRecords
      BY ProofingAssumption DEF ShapeInv, RestInv, CodeRecords
    <3> QED BY <1>2, <3>1 DEF Submit, ShapeInv, IdpInv
  <2>3. SessionsInv' /\ EnrollmentsInv'
    BY <1>2, ProofingAssumption DEF Submit, ShapeInv, SessionsInv, EnrollmentsInv, issuer
  <2>4. RestInv'
    BY <1>2 DEF Submit, ShapeInv, RestInv, issuer
  <2> QED BY <2>1, <2>2, <2>3, <2>4 DEF ShapeInv
<1>3. ASSUME NEW e \in Enrollments, NEW d \in Dobs, AssertedEnroll(e, d)
      PROVE  ShapeInv'
  <2>1. CallbacksInv'
    BY <1>0, <1>3, StayShape DEF AssertedEnroll
  <2>2. EnrollmentsInv'
    BY <1>3, EnrollShape DEF AssertedEnroll
  <2>3. SessionsInv' /\ IdpInv' /\ RestInv'
    BY <1>3 DEF AssertedEnroll, ShapeInv, SessionsInv, IdpInv, RestInv, idp
  <2> QED BY <2>1, <2>2, <2>3 DEF ShapeInv
<1>4. CASE \/ \E e \in Enrollments, claim \in Claims : Issue(e, claim)
           \/ \E e \in Enrollments : IssueCredential(e)
           \/ Tick \/ Quiescent \/ UNCHANGED vars
  <2>1. /\ UNCHANGED <<mode, issuer, idp, pc, local, drawn, attested, proofOf, restarts>>
        /\ now' = now \/ (now < MaxTime /\ now' = now + 1)
    BY <1>4 DEF Issue, IssueCredential, Tick, Quiescent, vars, history
  <2>2. CallbacksInv'
    BY <1>0, <2>1, StayShape
  <2>3. SessionsInv' /\ EnrollmentsInv' /\ IdpInv'
    BY <2>1 DEF ShapeInv, SessionsInv, EnrollmentsInv, IdpInv, issuer, idp
  <2>4. RestInv'
    BY <2>1, ProofingAssumption DEF ShapeInv, RestInv, issuer, idp
  <2> QED BY <2>2, <2>3, <2>4 DEF ShapeInv
<1>5. CASE IssuerRestart
  <2>1. ASSUME NEW r \in Callbacks
        PROVE  Equipped(pc'[r], local'[r], drawn') /\ pc'[r] \in Labels \ Busy
    <3>1. pc[r] \in Labels
      BY DEF ShapeInv, CallbacksInv
    <3>2. pc'[r] \in Labels \ Busy /\ local'[r] = NoLocals
      BY <1>5, <3>1, BusyIsRunning DEF IssuerRestart, Labels, Busy, Past, InHand
    <3> QED BY <3>2, NoLocalsType DEF Equipped, Busy, Past, InHand
  <2>2. (\A r \in Callbacks : Equipped(pc[r], local[r], drawn))'
    BY <2>1 DEF Equipped
  <2>3. pc' \in [Callbacks -> Labels] /\ local' \in [Callbacks -> Locals]
    BY <1>5, <2>1, NoLocalsType DEF IssuerRestart
  <2>4. CallbacksInv'
    BY <2>2, <2>3 DEF CallbacksInv
  <2>5. SessionsInv' /\ EnrollmentsInv'
    BY <1>5 DEF IssuerRestart, ShapeInv, SessionsInv, EnrollmentsInv
  <2>6. IdpInv' /\ RestInv'
    BY <1>5, ProofingAssumption DEF IssuerRestart, ShapeInv, IdpInv, RestInv, idp
  <2> QED BY <2>4, <2>5, <2>6 DEF ShapeInv
<1>6. CASE IdpRestart
  <2>1. CallbacksInv'
    BY <1>0, <1>6, StayShape DEF IdpRestart
  <2>2. SessionsInv' /\ EnrollmentsInv'
    BY <1>6 DEF IdpRestart, ShapeInv, SessionsInv, EnrollmentsInv, issuer
  <2>3. IdpInv' /\ RestInv'
    BY <1>6, ProofingAssumption DEF IdpRestart, ShapeInv, IdpInv, RestInv, issuer
  <2> QED BY <2>1, <2>2, <2>3 DEF ShapeInv
<1> QED BY <1>1, <1>2, <1>3, <1>4, <1>5, <1>6, ArriveShape, ServeShape DEF Next, Serve

LEMMA ShapeCorrect == Spec => []ShapeInv
BY ShapeInit, ShapeStep, PTL DEF Spec

\* oidc_callback and proofing.py: however callbacks overlap, whatever code comes
\* with whatever state and whichever server restarts, a callback that has got
\* past the exchange has an ID token, and every enrollment has a birth date.
THEOREM TypeCorrect == Spec => []TypeOK
BY ShapeCorrect, ShapeInvTypes, PTL

\* _age_in_years, for every birth date and every day: the age is the number of
\* birthdays had, as the calendar counts them.
THEOREM AgeIsCounted == Spec => []AgeCountsBirthdays
<1>1. ASSUME ShapeInv, NEW e \in Enrollments, enrollments[e] # None
      PROVE  LET dob == enrollments[e].dob
                 age == AgeInYears(dob, DateOf[now])
             IN OfAge(dob, age, DateOf[now]) /\ ~ OfAge(dob, age + 1, DateOf[now])
  <2> DEFINE dob == enrollments[e].dob
             today == DateOf[now]
             age == AgeInYears(dob, today)
  <2>1. IsDate(dob) /\ IsDate(today)
    BY <1>1, ProofingAssumption DEF ShapeInv, EnrollmentsInv, RestInv, Rows
  <2>2. age \in Int
    <3> HIDE DEF dob, today
    <3> QED BY <2>1 DEF AgeInYears, IsDate
  <2>3. OfAge(dob, age, today) <=> age <= age
    <3> HIDE DEF dob, today
    <3> QED BY <2>1, <2>2, AgeIsBirthdays
  <2>4. OfAge(dob, age + 1, today) <=> age + 1 <= age
    <3> HIDE DEF dob, today
    <3> QED BY <2>1, <2>2, AgeIsBirthdays
  <2> QED BY <2>2, <2>3, <2>4
<1>2. ShapeInv => AgeCountsBirthdays
  BY <1>1 DEF AgeCountsBirthdays
<1> QED BY <1>2, ShapeCorrect, PTL

-----------------------------------------------------------------------------
(* One session, one enrollment.                                            *)

\* Callbacks that have taken their session.
Proving == {r \in Callbacks : pc[r] \in Past}

\* A session is in one place: waiting in the store, with one callback that has
\* taken it, behind one enrollment, or gone.
OnceInv ==
  /\ \A s \in Sessions : sessions[s] # None =>
       /\ \A r \in Proving : local[r].state # s
       /\ \A e \in Enrollments : proofOf[e] # s
  /\ \A q, r \in Proving : local[q].state = local[r].state => q = r
  /\ \A r \in Proving, e \in Enrollments : proofOf[e] # local[r].state
  /\ OneEnrollmentPerSession

LEMMA OnceInit == Init => OnceInv
BY DEF Init, OnceInv, Proving, Past, InHand, OneEnrollmentPerSession

\* A step of one callback leaves the others where they are.
LEMMA OthersStay ==
  ASSUME CallbacksInv, NEW r \in Callbacks, NEW label, NEW l, Goto(r, label, l)
  PROVE  \A q \in Callbacks :
           \/ q # r /\ pc'[q] = pc[q] /\ local'[q] = local[q]
           \/ q = r /\ pc'[q] = label /\ local'[q] = l
BY DEF CallbacksInv, Goto

\* Steps after which no session is where it was not.
LEMMA OnceKept ==
  ASSUME OnceInv, proofOf' = proofOf,
         \A s \in Sessions : sessions'[s] # None => sessions[s] # None,
         \A q \in Callbacks : pc'[q] \in Past =>
           pc[q] \in Past /\ local'[q].state = local[q].state
  PROVE  OnceInv'
<1>1. \A q \in Proving' : q \in Proving /\ local'[q].state = local[q].state
  BY DEF Proving
<1>2. OneEnrollmentPerSession'
  BY DEF OnceInv, OneEnrollmentPerSession
<1> QED BY <1>1, <1>2 DEF OnceInv

LEMMA OnceStep == ShapeInv /\ OnceInv /\ [Next]_vars => OnceInv'
<1> SUFFICES ASSUME ShapeInv, OnceInv, [Next]_vars PROVE OnceInv'
  OBVIOUS
<1>0. CallbacksInv
  BY DEF ShapeInv
<1>1. ASSUME NEW s \in Sessions, Authorize(s) PROVE OnceInv'
  <2>1. /\ s \notin drawn /\ sessions' = [sessions EXCEPT ![s] = now]
        /\ UNCHANGED <<pc, local, proofOf>>
    BY <1>1 DEF Authorize
  <2>2. \A r \in Proving : local[r].state # s
    BY <2>1 DEF Proving, ShapeInv, CallbacksInv, Equipped, Busy
  <2>3. \A e \in Enrollments : proofOf[e] # s
    BY <2>1, ProofingAssumption DEF ShapeInv, EnrollmentsInv
  <2>4. \A t \in Sessions : sessions'[t] # None => t = s \/ sessions[t] # None
    BY <2>1 DEF ShapeInv, SessionsInv
  <2> QED BY <2>1, <2>2, <2>3, <2>4 DEF OnceInv, Proving, OneEnrollmentPerSession
<1>2. ASSUME NEW r \in Callbacks, Consume(r) PROVE OnceInv'
  <2> DEFINE s == local[r].state
  <2>1. /\ pc[r] = "entered" /\ proofOf' = proofOf
        /\ sessions' = [sessions EXCEPT ![s] = None]
    BY <1>2 DEF Consume, history
  <2>2. s \in Sessions
    BY <2>1 DEF ShapeInv, CallbacksInv, Equipped, Busy
  <2>3. \A t \in Sessions : sessions'[t] # None => t # s /\ sessions[t] # None
    BY <2>1, <2>2 DEF ShapeInv, SessionsInv
  <2>4. CASE Fail(r)
    <3>1. \A q \in Callbacks : pc'[q] \in Past => pc[q] \in Past /\ local'[q] = local[q]
      BY <1>0, <2>4, OthersStay DEF Fail, Past, InHand
    <3> QED BY <2>1, <2>3, <3>1, OnceKept
  <2>5. CASE ~ Fail(r)
    <3>1. sessions[s] # None /\ Goto(r, "exchange", local[r])
      BY <1>2, <2>5 DEF Consume
    <3>2. \A q \in Callbacks :
            \/ q # r /\ pc'[q] = pc[q] /\ local'[q] = local[q]
            \/ q = r /\ local'[q] = local[r]
      BY <1>0, <3>1, OthersStay
    <3>3. /\ \A q \in Proving : local[q].state # s
          /\ \A e \in Enrollments : proofOf[e] # s
      BY <2>2, <3>1 DEF OnceInv
    <3>4. \A q \in Proving' : q = r \/ (q \in Proving /\ local'[q] = local[q])
      BY <3>2 DEF Proving
    <3>5. local'[r].state = s
      BY <3>2
    <3> HIDE DEF s
    <3>6. OneEnrollmentPerSession'
      BY <2>1 DEF OnceInv, OneEnrollmentPerSession
    <3> QED BY <2>1, <2>3, <3>3, <3>4, <3>5, <3>6 DEF OnceInv
  <2> QED BY <2>4, <2>5
<1>3. ASSUME NEW r \in Callbacks, NEW e \in Enrollments, CreateEnrollment(r, e)
      PROVE  OnceInv'
  <2> DEFINE s == local[r].state
  <2>1. /\ r \in Proving /\ sessions' = sessions
        /\ proofOf' = [proofOf EXCEPT ![e] = s]
    BY <1>3 DEF CreateEnrollment, Proving, Past, InHand
  <2>2. \A q \in Callbacks : pc'[q] \in Past =>
          q # r /\ pc[q] \in Past /\ local'[q] = local[q]
    BY <1>0, <1>3, OthersStay DEF CreateEnrollment, Past, InHand
  <2>3. \A q \in Proving' : q # r /\ q \in Proving /\ local'[q] = local[q]
    BY <2>2 DEF Proving
  <2>4. \A f \in Enrollments : proofOf'[f] = IF f = e THEN s ELSE proofOf[f]
    BY <2>1 DEF ShapeInv, EnrollmentsInv
  <2>5. /\ \A q \in Proving : q # r => local[q].state # s
        /\ \A f \in Enrollments : proofOf[f] # s
        /\ \A t \in Sessions : sessions[t] # None => t # s
    BY <2>1 DEF OnceInv
  <2> HIDE DEF s
  <2>6. OneEnrollmentPerSession'
    BY <2>4, <2>5 DEF OnceInv, OneEnrollmentPerSession
  <2> QED BY <2>1, <2>3, <2>4, <2>5, <2>6 DEF OnceInv
<1>4. ASSUME NEW r \in Callbacks,
             \/ \E c \in Codes, s \in Sessions : Callback(r, c, s)
             \/ Exchange(r) \/ Unreachable(r) \/ LoseAnswer(r)
             \/ GetJwks(r) \/ StoreJwks(r) \/ Validate(r)
      PROVE  OnceInv'
  <2>1. UNCHANGED <<sessions, proofOf>>
    BY <1>4 DEF Callback, Exchange, Unreachable, LoseAnswer, GetJwks, StoreJwks,
       Validate, issuer, history
  <2> DEFINE StaysPast ==
               \E label, l :
                 /\ Goto(r, label, l)
                 /\ label \in Past => pc[r] \in Past /\ l.state = local[r].state
  <2>2. StaysPast
    <3>1. ASSUME Exchange(r), ~ Fail(r) PROVE StaysPast
      <4>1. \E token : Goto(r, "answer", [local[r] EXCEPT !.token = token])
        BY <3>1 DEF Exchange
      <4>2. \A token : [local[r] EXCEPT !.token = token].state = local[r].state
        BY <1>0 DEF CallbacksInv, Locals
      <4> QED BY <3>1, <4>1, <4>2 DEF Exchange, Past
    <3>2. ASSUME GetJwks(r) PROVE StaysPast
      <4>1. \A k : [local[r] EXCEPT !.keys = k].state = local[r].state
        BY <1>0 DEF CallbacksInv, Locals
      <4> QED BY <3>2, <4>1 DEF GetJwks, Past, InHand
    <3>3. CASE Fail(r)
      BY <3>3 DEF Fail, Past, InHand
    <3>4. CASE StoreJwks(r) \/ (Validate(r) /\ ~ Fail(r))
      BY <3>4 DEF StoreJwks, Validate, Past, InHand
    <3>5. ASSUME NEW c \in Codes, NEW s \in Sessions, Callback(r, c, s)
          PROVE  StaysPast
      <4>1. \E l : Goto(r, "entered", l)
        BY <3>5 DEF Callback
      <4>2. "entered" \notin Past
        BY DEF Past, InHand
      <4> QED BY <4>1, <4>2
    <3> QED BY <1>4, <3>1, <3>2, <3>3, <3>4, <3>5 DEF Unreachable, LoseAnswer
  <2>3. \A q \in Callbacks : pc'[q] \in Past =>
          pc[q] \in Past /\ local'[q].state = local[q].state
    BY <1>0, <2>2, OthersStay
  <2> QED BY <2>1, <2>3, OnceKept
<1>5. CASE IssuerRestart
  <2>1. \A r \in Callbacks : pc'[r] \notin Past
    BY <1>5, BusyIsRunning
    DEF IssuerRestart, ShapeInv, CallbacksInv, Labels, Busy, Past, InHand
  <2>2. proofOf' = proofOf /\ \A s \in Sessions : sessions'[s] = None
    BY <1>5 DEF IssuerRestart
  <2> QED BY <2>1, <2>2, OnceKept
<1>6. CASE \/ \E c \in Codes, n, ch \in Sessions, d \in Dobs \cup {Timestamp} :
                Submit(c, n, ch, d)
           \/ \E e \in Enrollments, d \in Dobs : AssertedEnroll(e, d)
           \/ \E e \in Enrollments, claim \in Claims : Issue(e, claim)
           \/ \E e \in Enrollments : IssueCredential(e)
           \/ Tick \/ IdpRestart \/ Quiescent \/ UNCHANGED vars
  <2>1. UNCHANGED <<sessions, proofOf, pc, local>>
    BY <1>6 DEF Submit, AssertedEnroll, Issue, IssueCredential, Tick, IdpRestart,
       Quiescent, vars, issuer, history
  <2> QED BY <2>1, OnceKept
<1> QED BY <1>1, <1>2, <1>3, <1>4, <1>5, <1>6 DEF Next, Serve

\* ProofingSessionStore.consume and oidc_callback: a session enrolls once,
\* however often its page is submitted and its callback called.
THEOREM EnrolledOnce == Spec => []OneEnrollmentPerSession
<1>1. OnceInv => OneEnrollmentPerSession
  BY DEF OnceInv
<1> QED BY <1>1, ShapeInit, OnceInit, ShapeStep, OnceStep, PTL DEF Spec

-----------------------------------------------------------------------------
(* What was submitted, enrolled and signed.                                *)

\* The birth date on its way: in a code, in an ID token, in a row.
CodesAttested ==
  \A c \in Codes : codes[c] # None =>
    [nonce |-> codes[c].nonce, challenge |-> codes[c].challenge, dob |-> codes[c].dob]
      \in attested
TokensAttested ==
  \A r \in Callbacks : local[r].token # None =>
    [nonce |-> local[r].token.nonce, challenge |-> local[r].state,
     dob |-> local[r].token.dob] \in attested

AttestedInv == CodesAttested /\ TokensAttested /\ EnrolledAsAttested

LEMMA AttestedInit == Init => AttestedInv
BY DEF Init, AttestedInv, CodesAttested, TokensAttested, EnrolledAsAttested, NoLocals

\* Steps that carry no birth date.
LEMMA AttestedKept ==
  ASSUME AttestedInv, UNCHANGED <<mode, enrollments, attested, proofOf>>,
         \A c \in Codes : codes'[c] # None => codes'[c] = codes[c],
         \A q \in Callbacks : local'[q].token # None =>
           local'[q].token = local[q].token /\ local'[q].state = local[q].state
  PROVE  AttestedInv'
<1>1. EnrolledAsAttested'
  BY DEF AttestedInv, EnrolledAsAttested
<1>2. CodesAttested'
  BY DEF AttestedInv, CodesAttested
<1>3. TokensAttested'
  BY DEF AttestedInv, TokensAttested
<1> QED BY <1>1, <1>2, <1>3 DEF AttestedInv

LEMMA AttestedStep == ShapeInv /\ AttestedInv /\ [Next]_vars => AttestedInv'
<1> SUFFICES ASSUME ShapeInv, AttestedInv, [Next]_vars PROVE AttestedInv'
  OBVIOUS
<1>0. CallbacksInv /\ NoLocals.token = None
  BY NoLocalsType DEF ShapeInv
<1>1. ASSUME NEW c \in Codes, NEW n \in Sessions, NEW ch \in Sessions,
             NEW d \in Dobs \cup {Timestamp}, Submit(c, n, ch, d)
      PROVE  AttestedInv'
  <2> DEFINE record == [nonce |-> n, challenge |-> ch, dob |-> d, at |-> now]
             submitted == [nonce |-> n, challenge |-> ch, dob |-> d]
  <2>1. /\ codes' = [codes EXCEPT ![c] = record]
        /\ attested' = attested \cup {submitted}
        /\ UNCHANGED <<mode, enrollments, local, proofOf>>
    BY <1>1 DEF Submit, issuer
  <2>2. [nonce |-> record.nonce, challenge |-> record.challenge, dob |-> record.dob]
          = submitted
    OBVIOUS
  <2> HIDE DEF record, submitted
  <2>3. \A b \in Codes : codes'[b] = IF b = c THEN record ELSE codes[b]
    BY <2>1 DEF ShapeInv, IdpInv
  <2>4. CodesAttested'
    BY <2>1, <2>2, <2>3 DEF AttestedInv, CodesAttested
  <2>5. TokensAttested'
    BY <2>1 DEF AttestedInv, TokensAttested
  <2>6. EnrolledAsAttested'
    BY <2>1 DEF AttestedInv, EnrolledAsAttested
  <2> QED BY <2>4, <2>5, <2>6 DEF AttestedInv
<1>2. ASSUME NEW r \in Callbacks, Exchange(r), ~ Fail(r) PROVE AttestedInv'
  <2> DEFINE record == codes[local[r].code]
             token == [nonce |-> record.nonce, dob |-> record.dob,
                       exp |-> now + IdTokenTtl, key |-> idpKey]
             l == [local[r] EXCEPT !.token = token]
  <2>1. /\ record # None /\ record.challenge = local[r].state
        /\ Goto(r, "answer", l) /\ local[r].code \in Codes
    BY <1>2 DEF Exchange, Exchangeable, ShapeInv, CallbacksInv, Equipped, Busy, Past
  <2>2. l.token = token /\ l.state = local[r].state
    BY DEF ShapeInv, CallbacksInv, Locals
  <2>3. [nonce |-> record.nonce, challenge |-> record.challenge, dob |-> record.dob]
          \in attested
    BY <2>1 DEF AttestedInv, CodesAttested
  <2>4. [nonce |-> token.nonce, challenge |-> l.state, dob |-> token.dob] \in attested
    BY <2>1, <2>2, <2>3
  <2> HIDE DEF record, token, l
  <2>5. \A q \in Callbacks : local'[q] = IF q = r THEN l ELSE local[q]
    BY <1>0, <2>1, OthersStay
  <2>6. /\ UNCHANGED <<mode, enrollments, attested, proofOf>>
        /\ \A c \in Codes : codes'[c] # None => codes'[c] = codes[c]
    BY <1>2 DEF Exchange, issuer, history, ShapeInv, IdpInv
  <2>7. EnrolledAsAttested' /\ CodesAttested'
    BY <2>6 DEF AttestedInv, EnrolledAsAttested, CodesAttested
  <2>8. TokensAttested'
    BY <2>2, <2>4, <2>5, <2>6 DEF AttestedInv, TokensAttested
  <2> QED BY <2>7, <2>8 DEF AttestedInv
<1>3. ASSUME NEW r \in Callbacks, NEW e \in Enrollments, CreateEnrollment(r, e)
      PROVE  AttestedInv'
  <2> DEFINE token == local[r].token
             row == [dob |-> token.dob, expires_at |-> now + EnrollmentTtl]
  <2>1. /\ enrollments' = [enrollments EXCEPT ![e] = row]
        /\ proofOf' = [proofOf EXCEPT ![e] = local[r].state]
        /\ Goto(r, "done", NoLocals) /\ UNCHANGED <<mode, codes, attested>>
    BY <1>3 DEF CreateEnrollment, idp
  <2>2. token \in IdTokens /\ token.nonce = local[r].state
    BY <1>3 DEF CreateEnrollment, ShapeInv, CallbacksInv, Equipped, InHand
  <2>3. [nonce |-> local[r].state, challenge |-> local[r].state, dob |-> token.dob]
          \in attested
    BY <2>2, ProofingAssumption DEF AttestedInv, TokensAttested
  <2>4. row.dob = token.dob
    OBVIOUS
  <2> HIDE DEF token, row
  <2>5. \A f \in Enrollments :
          /\ enrollments'[f] = IF f = e THEN row ELSE enrollments[f]
          /\ proofOf'[f] = IF f = e THEN local[r].state ELSE proofOf[f]
    BY <2>1 DEF ShapeInv, EnrollmentsInv
  <2>6. EnrolledAsAttested'
    BY <2>1, <2>3, <2>4, <2>5 DEF AttestedInv, EnrolledAsAttested
  <2>7. \A q \in Callbacks : local'[q] = local[q] \/ local'[q].token = None
    BY <1>0, <2>1, OthersStay
  <2>8. CodesAttested' /\ TokensAttested'
    BY <2>1, <2>7 DEF AttestedInv, CodesAttested, TokensAttested
  <2> QED BY <2>6, <2>8 DEF AttestedInv
<1>4. ASSUME NEW e \in Enrollments, NEW d \in Dobs, AssertedEnroll(e, d)
      PROVE  AttestedInv'
  <2>1. mode # "oidc" /\ UNCHANGED <<mode, codes, local, attested>>
    BY <1>4 DEF AssertedEnroll, idp
  <2> QED BY <2>1 DEF AttestedInv, EnrolledAsAttested, CodesAttested, TokensAttested
<1>5. ASSUME NEW r \in Callbacks,
             \/ \E c \in Codes, s \in Sessions : Callback(r, c, s)
             \/ Consume(r) \/ (Exchange(r) /\ Fail(r))
             \/ Unreachable(r) \/ LoseAnswer(r)
             \/ GetJwks(r) \/ StoreJwks(r) \/ Validate(r)
      PROVE  AttestedInv'
  <2>1. UNCHANGED <<mode, enrollments, attested, proofOf>>
    BY <1>5 DEF Callback, Consume, Exchange, Unreachable, LoseAnswer, GetJwks,
       StoreJwks, Validate, issuer, history
  <2>2. codes' = codes \/ codes' = [codes EXCEPT ![local[r].code] = None]
    BY <1>5 DEF Callback, Consume, Exchange, Unreachable, LoseAnswer, GetJwks,
       StoreJwks, Validate, idp
  <2>3. \A c \in Codes : codes'[c] # None => codes'[c] = codes[c]
    BY <2>2 DEF ShapeInv, IdpInv
  <2> DEFINE KeepsToken ==
               \E label, l :
                 /\ Goto(r, label, l)
                 /\ l.token # None =>
                      l.token = local[r].token /\ l.state = local[r].state
  <2>4. KeepsToken
    <3>1. CASE Fail(r)
      BY <1>0, <3>1 DEF Fail
    <3>2. CASE ~ Fail(r) /\ (Consume(r) \/ StoreJwks(r) \/ Validate(r))
      BY <3>2 DEF Consume, StoreJwks, Validate
    <3>3. CASE GetJwks(r)
      <4>1. \A k : /\ [local[r] EXCEPT !.keys = k].token = local[r].token
                   /\ [local[r] EXCEPT !.keys = k].state = local[r].state
        BY <1>0 DEF CallbacksInv, Locals
      <4> QED BY <3>3, <4>1 DEF GetJwks
    <3>4. ASSUME NEW c \in Codes, NEW s \in Sessions, Callback(r, c, s)
          PROVE  KeepsToken
      <4> DEFINE l == [NoLocals EXCEPT !.code = c, !.state = s, !.at = now]
      <4>1. l.token = None
        BY DEF NoLocals
      <4>2. Goto(r, "entered", l)
        BY <3>4 DEF Callback
      <4> HIDE DEF l
      <4> QED BY <4>1, <4>2
    <3> QED BY <1>5, <3>1, <3>2, <3>3, <3>4 DEF Unreachable, LoseAnswer
  <2>5. \A q \in Callbacks : local'[q].token # None =>
          local'[q].token = local[q].token /\ local'[q].state = local[q].state
    BY <1>0, <2>4, OthersStay
  <2> QED BY <2>1, <2>3, <2>5, AttestedKept
<1>6. CASE IssuerRestart \/ IdpRestart
  <2>1. UNCHANGED <<mode, enrollments, attested, proofOf>>
    BY <1>6 DEF IssuerRestart, IdpRestart, issuer
  <2>2. \A c \in Codes : codes'[c] # None => codes'[c] = codes[c]
    BY <1>6 DEF IssuerRestart, IdpRestart, idp
  <2>3. \A q \in Callbacks : local'[q].token # None =>
          local'[q].token = local[q].token /\ local'[q].state = local[q].state
    BY <1>0, <1>6 DEF IssuerRestart, IdpRestart
  <2> QED BY <2>1, <2>2, <2>3, AttestedKept
<1>7. CASE \/ \E s \in Sessions : Authorize(s)
           \/ \E e \in Enrollments, claim \in Claims : Issue(e, claim)
           \/ \E e \in Enrollments : IssueCredential(e)
           \/ Tick \/ Quiescent \/ UNCHANGED vars
  <2>1. UNCHANGED <<mode, enrollments, attested, proofOf, codes, local>>
    BY <1>7 DEF Authorize, Issue, IssueCredential, Tick, Quiescent, vars, issuer, idp,
       history
  <2> QED BY <2>1, AttestedKept
<1> QED BY <1>1, <1>2, <1>3, <1>4, <1>5, <1>6, <1>7 DEF Next, Serve

LEMMA AttestedCorrect == Spec => [](ShapeInv /\ AttestedInv)
BY ShapeInit, AttestedInit, ShapeStep, AttestedStep, PTL DEF Spec

\* PKCE and the nonce: the token a callback holds was made on a page with its own
\* session's code challenge, and when it comes to enroll, with its nonce too,
\* however pages mix the two and callbacks mix codes and states.
THEOREM TokenIsItsSessions == Spec => []TokenReachesItsSession
<1>1. ASSUME ShapeInv, AttestedInv, NEW r \in Callbacks, pc[r] = "create"
      PROVE  local[r].token.nonce = local[r].state
  BY <1>1 DEF ShapeInv, CallbacksInv, Equipped
<1>2. ShapeInv /\ AttestedInv => TokenReachesItsSession
  BY <1>1 DEF AttestedInv, TokensAttested, TokenReachesItsSession
<1> QED BY <1>2, AttestedCorrect, PTL

\* oidc_callback: in OIDC mode an enrollment's birth date is one the IdP attested
\* on a page with the nonce and the code challenge of the session that enrolled.
THEOREM DobIsAttested == Spec => []EnrolledAsAttested
<1>1. AttestedInv => EnrolledAsAttested
  BY DEF AttestedInv
<1> QED BY <1>1, AttestedCorrect, PTL

\* The last signature was made for an enrollment that is still there, and for
\* claims it was eligible for when it was made.
SignedInv ==
  signed # None =>
    LET e == signed.enrollment IN
      /\ e \in Enrollments /\ enrollments[e] # None
      /\ signed.at \in 0 .. MaxTime /\ signed.at < enrollments[e].expires_at
      /\ signed.claims \subseteq EligibleClaims(enrollments[e].dob, DateOf[signed.at])

LEMMA SignedStep == ShapeInv /\ SignedInv /\ [Next]_vars => SignedInv'
<1> SUFFICES ASSUME ShapeInv, SignedInv, [Next]_vars PROVE SignedInv'
  OBVIOUS
<1>1. ASSUME signed' = signed,
             \A e \in Enrollments : enrollments[e] # None => enrollments'[e] = enrollments[e]
      PROVE  SignedInv'
  BY <1>1 DEF SignedInv
<1>2. ASSUME NEW e \in Enrollments, NEW claim \in Claims, Issue(e, claim)
      PROVE  SignedInv'
  <2>1. /\ enrollments[e] # None /\ now < enrollments[e].expires_at
        /\ claim \in EligibleClaims(enrollments[e].dob, DateOf[now])
        /\ signed' = [enrollment |-> e, claims |-> {claim}, at |-> now]
        /\ enrollments' = enrollments /\ now \in 0 .. MaxTime
    BY <1>2 DEF Issue, issuer, ShapeInv, RestInv
  <2> QED BY <2>1 DEF SignedInv
<1>3. ASSUME NEW e \in Enrollments, IssueCredential(e) PROVE SignedInv'
  <2>1. /\ enrollments[e] # None /\ now < enrollments[e].expires_at
        /\ signed' = [enrollment |-> e, at |-> now,
                      claims |-> EligibleClaims(enrollments[e].dob, DateOf[now])]
        /\ enrollments' = enrollments /\ now \in 0 .. MaxTime
    BY <1>3 DEF IssueCredential, issuer, ShapeInv, RestInv
  <2> QED BY <2>1 DEF SignedInv
<1>4. ASSUME NEW e \in Enrollments, e \notin drawn, signed' = signed,
             \E row : enrollments' = [enrollments EXCEPT ![e] = row]
      PROVE  SignedInv'
  <2>1. enrollments[e] = None
    BY <1>4 DEF ShapeInv, EnrollmentsInv
  <2> QED BY <1>1, <1>4, <2>1 DEF ShapeInv, EnrollmentsInv
<1>5. ASSUME NEW r \in Callbacks, NEW e \in Enrollments, CreateEnrollment(r, e)
      PROVE  SignedInv'
  BY <1>4, <1>5 DEF CreateEnrollment
<1>6. ASSUME NEW e \in Enrollments, NEW d \in Dobs, AssertedEnroll(e, d)
      PROVE  SignedInv'
  BY <1>4, <1>6 DEF AssertedEnroll
<1>7. CASE UNCHANGED <<enrollments, signed>>
  BY <1>1, <1>7
<1>8. ASSUME NEW r \in Callbacks,
             \/ \E c \in Codes, s \in Sessions : Callback(r, c, s)
             \/ Consume(r) \/ Exchange(r) \/ Unreachable(r) \/ LoseAnswer(r)
             \/ GetJwks(r) \/ StoreJwks(r) \/ Validate(r)
      PROVE  SignedInv'
  BY <1>7, <1>8 DEF Callback, Consume, Exchange, Unreachable, LoseAnswer, GetJwks,
     StoreJwks, Validate, issuer, history
<1>9. CASE \/ \E s \in Sessions : Authorize(s)
           \/ \E c \in Codes, n, ch \in Sessions, d \in Dobs \cup {Timestamp} :
                Submit(c, n, ch, d)
           \/ Tick \/ IssuerRestart \/ IdpRestart \/ Quiescent \/ UNCHANGED vars
  BY <1>7, <1>9 DEF Authorize, Submit, Tick, IssuerRestart, IdpRestart, Quiescent, vars,
     issuer, history
<1> QED BY <1>2, <1>3, <1>5, <1>6, <1>8, <1>9 DEF Next, Serve

\* issue and issue_credential: whatever is signed is for claims that the birth
\* date attested for the enrollment satisfies, by the calendar, on that day.
THEOREM SignedForTheAged == Spec => []SignedOnlyForTheAged
<1>1. Init => SignedInv
  BY DEF Init, SignedInv
<1>2. ASSUME ShapeInv, AttestedInv, SignedInv, signed # None
      PROVE  LET e == signed.enrollment IN
               /\ \A c \in signed.claims :
                    OfAge(enrollments[e].dob, CLAIM_MIN_AGE[c], DateOf[signed.at])
               /\ mode = "oidc" =>
                    \E a \in attested :
                      /\ a.nonce = proofOf[e] /\ a.challenge = proofOf[e]
                      /\ a.dob \in Dobs
                      /\ \A c \in signed.claims :
                           OfAge(a.dob, CLAIM_MIN_AGE[c], DateOf[signed.at])
               /\ signed.at < enrollments[e].expires_at
  <2> DEFINE e == signed.enrollment
             dob == enrollments[e].dob
             today == DateOf[signed.at]
  <2>1. /\ e \in Enrollments /\ enrollments[e] # None
        /\ signed.at \in 0 .. MaxTime /\ signed.at < enrollments[e].expires_at
        /\ signed.claims \subseteq EligibleClaims(dob, today)
    BY <1>2 DEF SignedInv
  <2>2. dob \in Dobs
    BY <1>2, <2>1 DEF ShapeInv, EnrollmentsInv, Rows
  <2>3. IsDate(dob) /\ IsDate(today)
    BY <2>1, <2>2, ProofingAssumption
  <2>4. ASSUME NEW c \in signed.claims PROVE OfAge(dob, CLAIM_MIN_AGE[c], today)
    <3>1. c \in Claims /\ AgeInYears(dob, today) >= CLAIM_MIN_AGE[c]
      BY <2>1 DEF EligibleClaims
    <3>2. CLAIM_MIN_AGE[c] \in Int
      BY <3>1 DEF Claims, CLAIM_MIN_AGE
    <3> HIDE DEF dob, today
    <3>3. AgeInYears(dob, today) \in Int
      BY <2>3 DEF AgeInYears, IsDate
    <3> QED BY <2>3, <3>1, <3>2, <3>3, AgeIsBirthdays
  <2>5. mode = "oidc" =>
          [nonce |-> proofOf[e], challenge |-> proofOf[e], dob |-> dob] \in attested
    BY <1>2, <2>1 DEF AttestedInv, EnrolledAsAttested
  <2> QED BY <2>1, <2>2, <2>4, <2>5
<1>3. ShapeInv /\ AttestedInv /\ SignedInv => SignedOnlyForTheAged
  BY <1>2 DEF SignedOnlyForTheAged
<1> QED BY <1>1, <1>3, AttestedCorrect, SignedStep, PTL DEF Spec
=============================================================================
