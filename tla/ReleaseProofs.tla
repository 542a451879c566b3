---------------------------- MODULE ReleaseProofs ----------------------------
(***************************************************************************)
(* Theorems about the release tools, under the specification that runs     *)
(* them side by side.                                                      *)
(***************************************************************************)
EXTENDS MCReleaseTools, Sequences, FiniteSetTheorems, TLAPS

\* What a behaviour's cast says of the processes that take part.
LEMMA CastsKnown ==
    ASSUME cast \in Casts
    PROVE  cast.tool \in {"bootstrap", "chain", "rollback", "gate"} => cast.processes \subseteq Operators
  <1> DEFINE Known == cast.tool \in {"bootstrap", "chain", "rollback", "gate"}
                        => cast.processes \subseteq Operators
  <1>1. CASE \/ cast = [tool |-> "preflight"] \/ cast = [tool |-> "cleanup"]
             \/ cast = [tool |-> "attest"] \/ \E g, m, n : cast = Reviewing(g, m, n)
    BY <1>1 DEF Reviewing
  <1>2. ASSUME NEW p \in SUBSET Operators, NEW a, NEW b,
               cast = RollingBack(p, a, b)
        PROVE  Known
    BY <1>2 DEF RollingBack
  <1>3. ASSUME NEW p \in SUBSET Operators, NEW a, NEW b, NEW c, cast = Booting(p, a, b, c)
        PROVE  Known
    BY <1>3 DEF Booting
  <1>4. ASSUME NEW p \in SUBSET Operators, NEW a, NEW b, NEW c, NEW d,
               cast = Closing(p, a, b, c, d) \/ cast = Gating(p, a, b, c, d)
        PROVE  Known
    BY <1>4 DEF Closing, Gating
  <1>5. \A p \in Operators : {p} \in SUBSET Operators
    OBVIOUS
  <1>6. Operators \in SUBSET Operators
    OBVIOUS
  <1> HIDE DEF Known
  <1>7. Known
    BY <1>1, <1>2, <1>3, <1>4, <1>5, <1>6 DEF Casts, Known
  <1> QED
    BY <1>7 DEF Known

\* What stands in for induction: a set of numbers that is not empty has a least one.
LEMMA LeastNumber ==
    ASSUME NEW T \in SUBSET Nat, T # {} PROVE \E m \in T : \A k \in T : m <= k
  <1> DEFINE R == OpToRel(<, Nat)
  <1>1. IsWellFoundedOn(R, Nat)
    BY NatLessThanWellFounded
  <1>2. \A x, y \in Nat : <<x, y>> \in R <=> x < y
    BY DEF OpToRel
  <1> HIDE DEF R
  <1>3. PICK m \in T : \A k \in T : ~ (<<k, m>> \in R)
    BY <1>1, WFMin
  <1>4. ASSUME NEW k \in T PROVE m <= k
    <2>1. m \in Nat /\ k \in Nat /\ ~ (k < m)
      BY <1>2, <1>3
    <2> QED
      BY <2>1
  <1> QED
    BY <1>4

-----------------------------------------------------------------------------
(* The AWS preflight *)

LEMMA PreflightConstants ==
    /\ Preflight!Calls = 1..19 /\ Preflight!End = 20 /\ Preflight!Sts = {1}
    /\ Preflight!NovaProfile = 13 /\ Preflight!Converse = 14 /\ Preflight!Budget = 15
    /\ Preflight!Notifications = 16 /\ Len(Preflight!Operations) = 19
    /\ Preflight!Operations = [i \in 1..19 |-> Preflight!Operations[i]]
  BY DEF Preflight!Calls, Preflight!End, Preflight!Sts, Preflight!NovaProfile,
         Preflight!Converse, Preflight!Budget, Preflight!Notifications, Preflight!Operations

\* The loop of _ledger_is_valid does what its recursive definition says, for a ledger of
\* any length.
LEMMA PositionsDef ==
    ASSUME NEW l, Len(l) \in Nat
    PROVE  \A n \in 0..Len(l) :
             Preflight!Positions(l)[n] =
               IF n = 0 THEN 0 ELSE Preflight!Position(Preflight!Positions(l)[n - 1], l[n])
  <1> DEFINE Step(p, n) == Preflight!Position(p, l[n])
             IsLoop(f, n) == f = [i \in 0..n |-> IF i = 0 THEN 0 ELSE Step(f[i - 1], i)]
             Stuck == {n \in Nat : ~ \E f : IsLoop(f, n)}
  <1>1. Preflight!Positions(l) = CHOOSE f : IsLoop(f, Len(l))
    BY DEF Preflight!Positions
  <1> HIDE DEF Step
  <1>2. Stuck = {}
    <2>1. SUFFICES ASSUME Stuck # {} PROVE FALSE
      OBVIOUS
    <2>2. PICK m \in Stuck : \A k \in Stuck : m <= k
      BY <2>1, LeastNumber
    <2>3. m \in Nat /\ ~ \E f : IsLoop(f, m)
      OBVIOUS
    <2>4. m # 0
      <3> DEFINE f == [i \in 0..0 |-> 0]
      <3>1. IsLoop(f, 0)
        OBVIOUS
      <3> HIDE DEF IsLoop, f
      <3>2. \E g : IsLoop(g, 0)
        BY <3>1
      <3>3. 0 \notin Stuck
        BY <3>2
      <3> QED
        BY <3>3
    <2>5. m - 1 \in Nat /\ m - 1 \notin Stuck
      <3> HIDE DEF Stuck
      <3>1. m - 1 \in Nat /\ ~ (m <= m - 1)
        BY <2>3, <2>4
      <3> QED
        BY <2>2, <3>1
    <2>6. PICK f : IsLoop(f, m - 1)
      BY <2>5
    <2> DEFINE g == [i \in 0..m |-> IF i = m THEN Step(f[m - 1], m) ELSE f[i]]
    <2>7. ASSUME NEW i \in 0..m PROVE g[i] = IF i = 0 THEN 0 ELSE Step(g[i - 1], i)
      <3>1. CASE i = m
        BY <2>3, <2>4, <3>1
      <3>2. CASE i # m
        <4>1. i \in 0..(m - 1) /\ (i # 0 => i - 1 \in 0..m /\ i - 1 # m)
          BY <2>3, <3>2
        <4>2. g[i] = f[i] /\ (i # 0 => g[i - 1] = f[i - 1])
          BY <3>2, <4>1
        <4>3. f[i] = IF i = 0 THEN 0 ELSE Step(f[i - 1], i)
          BY <2>6, <4>1
        <4> QED
          BY <4>2, <4>3
      <3> QED
        BY <3>1, <3>2
    <2>8. DOMAIN g = 0..m /\ g = [i \in DOMAIN g |-> g[i]]
      OBVIOUS
    <2> HIDE DEF g
    <2>9. IsLoop(g, m)
      BY <2>7, <2>8
    <2> QED
      BY <2>3, <2>9
  <1>3. \E f : IsLoop(f, Len(l))
    BY <1>2
  <1>4. IsLoop(Preflight!Positions(l), Len(l))
    BY <1>1, <1>3
  <1> QED
    BY <1>4 DEF Step

\* A call is found at its own place or before, if the search starts before it.
LEMMA PositionFound ==
    ASSUME NEW c \in 1..19, NEW pos \in Nat, pos < c
    PROVE  Preflight!Position(pos, c) \in Nat /\ Preflight!Position(pos, c) <= c
  <1> DEFINE later == {k \in Preflight!Calls : k > pos
                         /\ Preflight!Operations[k] = Preflight!Operations[c]}
  <1>1. later \in SUBSET Nat /\ c \in later
    BY PreflightConstants
  <1>2. Preflight!Position(pos, c) = CHOOSE x \in later : \A y \in later : x <= y
    BY <1>1 DEF Preflight!Position, Preflight!Min
  <1> HIDE DEF later
  <1>3. \E x \in later : \A y \in later : x <= y
    BY <1>1, LeastNumber
  <1>4. Preflight!Position(pos, c) \in later /\ \A y \in later : Preflight!Position(pos, c) <= y
    BY <1>2, <1>3
  <1> QED
    BY <1>1, <1>4

Rising(l) == \A i, j \in 1..Len(l) : i < j => l[i] < l[j]

\* _ledger_is_valid accepts the calls of any preflight that made them in their order.
LEMMA RisingIsValid ==
    ASSUME NEW l \in Seq(1..19), Rising(l) PROVE Preflight!LedgerIsValid(l, FALSE)
  <1> DEFINE P == Preflight!Positions(l)
             Late == {n \in 1..Len(l) : ~ (P[n] \in Nat /\ P[n] <= l[n])}
  <1>1. Len(l) \in Nat /\ \A n \in 1..Len(l) : l[n] \in 1..19
    OBVIOUS
  <1>2. \A n \in 0..Len(l) : P[n] = IF n = 0 THEN 0 ELSE Preflight!Position(P[n - 1], l[n])
    BY <1>1, PositionsDef
  <1> HIDE DEF P
  <1>3. Late = {}
    <2>1. SUFFICES ASSUME Late # {} PROVE FALSE
      OBVIOUS
    <2>2. Late \in SUBSET Nat
      BY <1>1
    <2>3. PICK m \in Late : \A k \in Late : m <= k
      BY <2>1, <2>2, LeastNumber
    <2>4. m \in 1..Len(l) /\ m \in Nat /\ m # 0 /\ l[m] \in 1..19
      BY <1>1
    <2>5. P[m - 1] \in Nat /\ P[m - 1] < l[m]
      <3>1. CASE m = 1
        <4>1. P[0] = 0
          BY <1>1, <1>2
        <4>2. m - 1 = 0
          BY <3>1
        <4>3. P[m - 1] = 0
          BY <4>1, <4>2
        <4> QED
          BY <2>4, <4>3
      <3>2. CASE m # 1
        <4>1. PICK k \in 1..Len(l) : k = m - 1 /\ k < m /\ ~ (m <= k)
          BY <1>1, <2>4, <3>2
        <4>2. k \notin Late
          BY <2>3, <4>1
        <4>3. P[k] \in Nat /\ P[k] <= l[k]
          BY <4>2
        <4>4. l[k] < l[m] /\ l[k] \in 1..19
          BY <1>1, <2>4, <4>1 DEF Rising
        <4>5. P[k] < l[m]
          <5>1. \A x, y, z : x \in Nat /\ y \in 1..19 /\ z \in 1..19 /\ x <= y /\ y < z => x < z
            OBVIOUS
          <5> QED
            BY <2>4, <4>3, <4>4, <5>1, Zenon
        <4> QED
          <5>1. m - 1 = k
            BY <1>1, <2>4, <4>1
          <5> HIDE DEF Late
          <5> QED
            BY <4>3, <4>5, <5>1
      <3> QED
        BY <3>1, <3>2
    <2>6. Preflight!Position(P[m - 1], l[m]) \in Nat
          /\ Preflight!Position(P[m - 1], l[m]) <= l[m]
      BY <2>4, <2>5, PositionFound
    <2> QED
      BY <1>1, <1>2, <2>4, <2>6
  <1>4. P[Len(l)] < 20
    <2>1. CASE Len(l) = 0
      BY <1>1, <1>2, <2>1
    <2>2. CASE Len(l) # 0
      <3>1. Len(l) \in 1..Len(l) /\ Len(l) \notin Late /\ l[Len(l)] \in 1..19
        BY <1>1, <1>3, <2>2
      <3>2. P[Len(l)] \in Nat /\ P[Len(l)] <= l[Len(l)]
        BY <3>1
      <3> QED
        BY <3>1, <3>2
    <2> QED
      BY <2>1, <2>2
  <1> QED
    BY <1>4, PreflightConstants DEF Preflight!LedgerIsValid, P

\* What a receipt is worth once it is made.
Made ==
    /\ awsReceipt.status \in {"PASS", "BLOCKED"}
    /\ Preflight!Validates(awsReceipt)
    /\ awsReceipt.status = "PASS" => reasons = {}

\* The calls are made in their order, and answered before the next.
InOrder ==
    /\ Rising(ledger) /\ \A i \in 1..Len(ledger) : ledger[i] < at
    /\ DOMAIN answer \subseteq 1..(at - 1)
\* Without a reason every call so far was made and answered well.
NothingMissing ==
    /\ Len(ledger) = at - 1 /\ \A i \in 1..Len(ledger) : ledger[i] = i
    /\ DOMAIN answer = 1..(at - 1) /\ \A c \in 1..(at - 1) : answer[c] = "good"
\* The paid call came after thirteen good answers.
ProbePaid ==
    (\E i \in 1..Len(ledger) : ledger[i] = 14) =>
        \A c \in 1..13 : c \in DOMAIN answer /\ answer[c] = "good"

PreflightInv ==
    /\ at \in 1..20 /\ synthetic \in BOOLEAN /\ ledger \in Seq(1..19)
    /\ InOrder
    /\ reasons = {} => NothingMissing
    /\ ProbePaid
    /\ awsReceipt = Preflight!NoReceipt \/ (at = 20 /\ Made)

LEMMA LedgerIsSeq ==
    ASSUME ledger \in Seq(1..19)
    PROVE  Len(ledger) \in Nat /\ \A i \in 1..Len(ledger) : ledger[i] \in 1..19
  OBVIOUS

LEMMA PreflightInit ==
    ASSUME Preflight!Init PROVE PreflightInv
  BY PreflightConstants DEF Preflight!Init, PreflightInv, Rising, InOrder, NothingMissing, ProbePaid

LEMMA CallKeeps ==
    ASSUME PreflightInv, NEW c \in 1..19, Preflight!Call(c) PROVE PreflightInv'
  <1>1. PICK a \in Preflight!Answers :
          /\ Preflight!Called(c, a) /\ Preflight!Noted(c, a) /\ Preflight!Answered(c, a)
          /\ at' = Preflight!After(c, a)
    BY DEF Preflight!Call
  <1>2. /\ at = c /\ (c = 14 => reasons = {}) /\ synthetic' = synthetic
        /\ awsReceipt' = awsReceipt
    BY PreflightConstants DEF Preflight!Call
  <1>3. at' \in (c + 1)..20 /\ (a = "good" => at' = c + 1)
    BY <1>1, PreflightConstants DEF Preflight!After
  <1>4. ledger \in Seq(1..19) /\ Len(ledger) \in Nat /\ \A i \in 1..Len(ledger) : ledger[i] \in 1..19
    BY LedgerIsSeq DEF PreflightInv
  <1>5. \/ ledger' = ledger /\ a = "no_client"
        \/ ledger' = Append(ledger, c)
    BY <1>1 DEF Preflight!Called
  <1>6. /\ ledger' \in Seq(1..19)
        /\ \A i \in 1..Len(ledger') :
             \/ i \in 1..Len(ledger) /\ ledger'[i] = ledger[i]
             \/ i = Len(ledger) + 1 /\ ledger'[i] = c
    <2>1. CASE ledger' = ledger
      BY <1>4, <2>1
    <2>2. CASE ledger' = Append(ledger, c)
      <3>1. /\ ledger' \in Seq(1..19) /\ Len(ledger') = Len(ledger) + 1
            /\ \A i \in 1..Len(ledger) : ledger'[i] = ledger[i]
            /\ ledger'[Len(ledger) + 1] = c
        BY <1>4, <2>2
      <3> QED
        BY <1>4, <3>1
    <2> QED
      BY <1>5, <2>1, <2>2
  <1>7. /\ reasons \subseteq reasons' /\ (reasons' = {} => a = "good" /\ reasons = {})
    BY <1>1 DEF Preflight!Noted
  <1>8. /\ DOMAIN answer \subseteq DOMAIN answer' /\ DOMAIN answer' \subseteq DOMAIN answer \cup {c}
        /\ \A d \in DOMAIN answer : d # c => answer'[d] = answer[d]
        /\ a = "good" => c \in DOMAIN answer' /\ answer'[c] = "good"
    BY <1>1 DEF Preflight!Answered
  <1>9. Rising(ledger)'
    <2>1. \A i \in 1..Len(ledger) : ledger[i] < c
      BY <1>2 DEF PreflightInv, InOrder
    <2>2. Rising(ledger)
      BY DEF PreflightInv, InOrder
    <2> QED
      BY <1>4, <1>6, <2>1, <2>2 DEF Rising
  <1>10. \A i \in 1..Len(ledger') : ledger'[i] < at'
    <2>1. \A i \in 1..Len(ledger) : ledger[i] < c
      BY <1>2 DEF PreflightInv, InOrder
    <2>2. /\ \A y, z : y \in 1..19 /\ z \in (c + 1)..20 /\ y < c => y < z
          /\ \A z : z \in (c + 1)..20 => c < z
      OBVIOUS
    <2> QED
      BY <1>3, <1>4, <1>6, <2>1, <2>2, Zenon
  <1>11. DOMAIN answer' \subseteq 1..(at' - 1)
    <2>1. DOMAIN answer \subseteq 1..(c - 1)
      BY <1>2 DEF PreflightInv, InOrder
    <2> QED
      BY <1>3, <1>8, <2>1
  <1>12. ASSUME reasons' = {}
         PROVE  /\ Len(ledger') = at' - 1 /\ \A i \in 1..Len(ledger') : ledger'[i] = i
                /\ DOMAIN answer' = 1..(at' - 1) /\ \A d \in 1..(at' - 1) : answer'[d] = "good"
    <2>1. a = "good" /\ reasons = {} /\ at' = c + 1 /\ at' - 1 = c
      BY <1>3, <1>7, <1>12
    <2>2. /\ Len(ledger) = c - 1 /\ \A i \in 1..Len(ledger) : ledger[i] = i
          /\ DOMAIN answer = 1..(c - 1) /\ \A d \in 1..(c - 1) : answer[d] = "good"
      BY <1>2, <2>1 DEF PreflightInv, NothingMissing
    <2>3. ledger' = Append(ledger, c)
      BY <1>5, <2>1
    <2>4. Len(ledger') = c /\ \A i \in 1..Len(ledger') : ledger'[i] = i
      <3>1. Len(ledger') = Len(ledger) + 1 /\ Len(ledger) + 1 = c
        BY <1>4, <2>2, <2>3
      <3>2. ASSUME NEW i \in 1..Len(ledger') PROVE ledger'[i] = i
        BY <1>6, <2>2, <3>1, <3>2
      <3> QED
        BY <3>1, <3>2
    <2>5. DOMAIN answer' = 1..c /\ \A d \in 1..c : answer'[d] = "good"
      <3>1. 1..c = 1..(c - 1) \cup {c} /\ c \notin 1..(c - 1)
        OBVIOUS
      <3>2. DOMAIN answer' = 1..(c - 1) \cup {c}
        BY <1>8, <2>1, <2>2
      <3>3. ASSUME NEW d \in 1..(c - 1) PROVE answer'[d] = "good"
        BY <1>8, <2>2, <3>1
      <3> QED
        BY <1>8, <2>1, <3>1, <3>2, <3>3
    <2> QED
      BY <2>1, <2>4, <2>5
  <1>13. ASSUME NEW i \in 1..Len(ledger'), ledger'[i] = 14, NEW d \in 1..13
         PROVE  d \in DOMAIN answer' /\ answer'[d] = "good"
    <2>1. d \in DOMAIN answer /\ answer[d] = "good"
      <3>1. CASE c = 14
        <4>1. at - 1 = 13 /\ NothingMissing
          BY <1>2, <3>1 DEF PreflightInv
        <4> QED
          BY <4>1 DEF NothingMissing
      <3>2. CASE c # 14
        <4>1. i \in 1..Len(ledger) /\ ledger[i] = 14
          BY <1>6, <1>13, <3>2
        <4> QED
          BY <4>1 DEF PreflightInv, ProbePaid
      <3> QED
        BY <3>1, <3>2
    <2>2. CASE d # c
      BY <1>8, <2>1, <2>2
    <2>3. CASE d = c
      <3>1. DOMAIN answer \subseteq 1..(c - 1)
        BY <1>2 DEF PreflightInv, InOrder
      <3> QED
        BY <2>1, <2>3, <3>1
    <2> QED
      BY <2>2, <2>3
  <1>14. awsReceipt' = Preflight!NoReceipt
    BY <1>2 DEF PreflightInv
  <1>15. at' \in 1..20 /\ synthetic' \in BOOLEAN /\ Preflight!NoReceipt' = Preflight!NoReceipt
    BY <1>2, <1>3 DEF PreflightInv, Preflight!NoReceipt
  <1>16. InOrder'
    BY <1>9, <1>10, <1>11 DEF InOrder
  <1>17. reasons' = {} => NothingMissing'
    BY <1>12 DEF NothingMissing
  <1>18. ProbePaid'
    BY <1>13 DEF ProbePaid
  <1> QED
    BY <1>6, <1>14, <1>15, <1>16, <1>17, <1>18 DEF PreflightInv

LEMMA SkipKeeps ==
    ASSUME PreflightInv, Preflight!SkipProbe PROVE PreflightInv'
  <1>1. /\ at = 14 /\ at' = 15 /\ reasons' # {} /\ reasons \subseteq reasons'
        /\ UNCHANGED <<ledger, answer, synthetic, awsReceipt>>
    BY PreflightConstants DEF Preflight!SkipProbe
  <1>2. InOrder'
    <2>1. /\ Rising(ledger) /\ \A i \in 1..Len(ledger) : ledger[i] < 14
          /\ DOMAIN answer \subseteq 1..13
      BY <1>1 DEF PreflightInv, InOrder
    <2>2. Len(ledger) \in Nat /\ \A i \in 1..Len(ledger) : ledger[i] \in 1..19
      BY LedgerIsSeq DEF PreflightInv
    <2>3. \A i \in 1..Len(ledger) : ledger[i] < 15
      BY <2>1, <2>2, SMTT(30)
    <2>4. DOMAIN answer \subseteq 1..(15 - 1)
      BY <2>1
    <2> QED
      BY <1>1, <2>1, <2>3, <2>4 DEF InOrder, Rising
  <1>3. awsReceipt' = Preflight!NoReceipt /\ Preflight!NoReceipt' = Preflight!NoReceipt
    BY <1>1 DEF PreflightInv, Preflight!NoReceipt
  <1>4. ProbePaid'
    BY <1>1 DEF PreflightInv, ProbePaid
  <1> QED
    BY <1>1, <1>2, <1>3, <1>4 DEF PreflightInv

LEMMA FinishKeeps ==
    ASSUME PreflightInv, Preflight!Finish PROVE PreflightInv'
  <1> DEFINE passed == reasons = {} /\ Preflight!AllReady
             r == [status |-> IF passed THEN "PASS" ELSE "BLOCKED",
                   checks |-> Preflight!AllReady, reasons |-> reasons, ledger |-> ledger,
                   observations |-> answer]
  <1>1. at = 20 /\ awsReceipt' = r /\ UNCHANGED <<at, ledger, answer, reasons, synthetic>>
    BY PreflightConstants DEF Preflight!Finish
  <1>2. /\ r.status = (IF passed THEN "PASS" ELSE "BLOCKED") /\ r.checks = Preflight!AllReady
        /\ r.reasons = reasons /\ r.ledger = ledger /\ r.observations = answer
    OBVIOUS
  <1> HIDE DEF r
  <1>3. ledger \in Seq(1..19) /\ Rising(ledger)
    BY DEF PreflightInv, InOrder
  <1> DEFINE Kept == /\ at' \in 1..20 /\ synthetic' \in BOOLEAN /\ ledger' \in Seq(1..19)
                     /\ InOrder' /\ (reasons' = {} => NothingMissing') /\ ProbePaid'
  <1>0. Kept
    BY <1>1 DEF PreflightInv, InOrder, Rising, NothingMissing, ProbePaid
  <1> HIDE DEF Kept
  <1>6. ASSUME r.status \in {"PASS", "BLOCKED"}, Preflight!Validates(r),
               r.status = "PASS" => reasons = {}
        PROVE  PreflightInv'
    <2>1. Preflight!Validates(awsReceipt)'
      BY <1>1, <1>6 DEF Preflight!Validates, Preflight!LedgerIsValid
    <2>2. Made'
      BY <1>1, <1>6, <2>1 DEF Made
    <2> QED
      BY <1>0, <1>1, <2>2 DEF PreflightInv, Kept
  <1>4. CASE passed
    <2>1. /\ r.status = "PASS" /\ reasons = {} /\ Preflight!AllReady
      BY <1>2, <1>4
    <2>2. /\ Len(ledger) = 19 /\ \A i \in 1..19 : ledger[i] = i
          /\ DOMAIN answer = 1..19 /\ \A c \in 1..19 : answer[c] = "good"
      <3>1. at - 1 = 19 /\ NothingMissing
        BY <1>1, <2>1 DEF PreflightInv
      <3> QED
        BY <3>1 DEF NothingMissing
    <2>3. [i \in 1..Len(ledger) |-> Preflight!Operations[ledger[i]]] = Preflight!Operations
      BY <2>2, PreflightConstants
    <2>4. Preflight!LedgerIsValid(r.ledger, TRUE)
      BY <1>2, <2>3 DEF Preflight!LedgerIsValid
    <2>5. Preflight!Validates(r)
      BY <1>2, <2>1, <2>2, <2>4, PreflightConstants DEF Preflight!Validates
    <2> QED
      BY <1>6, <2>1, <2>5
  <1>5. CASE ~passed
    <2>1. r.status = "BLOCKED" /\ (reasons # {} \/ ~ Preflight!AllReady)
      BY <1>2, <1>5
    <2>2. Preflight!LedgerIsValid(r.ledger, FALSE)
      BY <1>2, <1>3, RisingIsValid
    <2>3. Preflight!Validates(r)
      BY <1>2, <2>1, <2>2 DEF Preflight!Validates
    <2> QED
      BY <1>6, <2>1, <2>3
  <1> QED
    BY <1>4, <1>5

LEMMA PreflightNext ==
    ASSUME PreflightInv, Preflight!Next PROVE PreflightInv'
  <1>1. \/ \E c \in 1..19 : Preflight!Call(c)
        \/ Preflight!SkipProbe \/ Preflight!Finish
    BY PreflightConstants
       DEF Preflight!Next, Preflight!get_caller_identity, Preflight!observe_s3,
           Preflight!observe_iam, Preflight!observe_ec2, Preflight!observe_cloudwatch,
           Preflight!observe_nova, Preflight!observe_budgets, Preflight!Observe,
           Preflight!S3, Preflight!Secret, Preflight!ArtifactPath, Preflight!Ec2,
           Preflight!CloudWatch, Preflight!Subscribers
  <1> QED
    BY <1>1, CallKeeps, SkipKeeps, FinishKeeps

LEMMA PreflightUnchanged ==
    ASSUME PreflightInv, UNCHANGED preflight PROVE PreflightInv'
  BY DEF preflight, PreflightInv, Made, Rising, InOrder, NothingMissing, ProbePaid,
         Preflight!NoReceipt

LEMMA PreflightEarned ==
    ASSUME PreflightInv
    PROVE  /\ Preflight!TypeOK
           /\ Preflight!ReceiptValidates /\ Preflight!PassIsComplete /\ Preflight!ProbeIsEarned
  <1>1. ledger \in Seq(1..19) /\ Len(ledger) \in Nat /\ \A i \in 1..Len(ledger) : ledger[i] \in 1..19
    BY LedgerIsSeq DEF PreflightInv
  <1>2. Preflight!TypeOK
    <2>1. Preflight!Range(ledger) \subseteq 1..19
      BY <1>1, SMTT(30) DEF Preflight!Range
    <2>2. DOMAIN answer \subseteq 1..19 /\ at \in 1..20 /\ synthetic \in BOOLEAN
      BY SMTT(30) DEF PreflightInv, InOrder
    <2>3. awsReceipt = Preflight!NoReceipt \/ awsReceipt.status \in {"PASS", "BLOCKED"}
      BY DEF PreflightInv, Made
    <2> QED
      BY <2>1, <2>2, <2>3, PreflightConstants DEF Preflight!TypeOK
  <1>3. Preflight!ReceiptValidates
    BY DEF PreflightInv, Made, Preflight!ReceiptValidates
  <1>4. Preflight!PassIsComplete
    <2>1. SUFFICES ASSUME awsReceipt.status = "PASS"
                   PROVE  /\ ledger = [i \in 1..19 |-> i]
                          /\ \A c \in 1..19 : answer[c] = "good"
      BY PreflightConstants DEF Preflight!PassIsComplete
    <2>2. awsReceipt # Preflight!NoReceipt
      BY <2>1 DEF Preflight!NoReceipt
    <2>3. at = 20 /\ reasons = {}
      BY <2>1, <2>2 DEF PreflightInv, Made
    <2>4. /\ Len(ledger) = 19 /\ \A i \in 1..19 : ledger[i] = i
          /\ \A c \in 1..19 : answer[c] = "good"
      <3>1. at - 1 = 19 /\ NothingMissing
        BY <2>3 DEF PreflightInv
      <3> QED
        BY <3>1 DEF NothingMissing
    <2> QED
      BY <1>1, <2>4
  <1>5. Preflight!ProbeIsEarned
    <2> DEFINE probes == {i \in 1..Len(ledger) : ledger[i] = 14}
    <2>1. SUFFICES ASSUME NEW i \in 1..Len(ledger), ledger[i] = 14
                   PROVE  /\ Cardinality(probes) = 1
                          /\ \A c \in 1..13 : c \in DOMAIN answer /\ answer[c] = "good"
      <3>1. Preflight!Contains(ledger, Preflight!Converse)
              => \E i \in 1..Len(ledger) : ledger[i] = 14
        BY PreflightConstants DEF Preflight!Contains
      <3>2. {i \in 1..Len(ledger) : ledger[i] = Preflight!Converse} = probes
        BY PreflightConstants
      <3> HIDE DEF probes
      <3>4. Preflight!Cardinality(probes) = Cardinality(probes)
        BY DEF Preflight!Cardinality, Cardinality
      <3>3. \A c \in 1..Preflight!NovaProfile : c \in 1..13
        BY PreflightConstants
      <3> QED
        BY <2>1, <3>1, <3>2, <3>3, <3>4 DEF Preflight!ProbeIsEarned
    <2>2. ASSUME NEW j \in probes PROVE j = i
      <3>1. ~ (i < j) /\ ~ (j < i)
        BY <1>1, <2>1 DEF PreflightInv, InOrder, Rising
      <3> QED
        BY <1>1, <3>1
    <2>3. probes = {i}
      BY <2>1, <2>2
    <2>4. Cardinality(probes) = 1
      BY <2>3, FS_Singleton
    <2> QED
      BY <2>1, <2>4 DEF PreflightInv, ProbePaid
  <1> QED
    BY <1>2, <1>3, <1>4, <1>5

\* g10_aws_preflight.py: whatever the nineteen reads answer and however many of them
\* fail, the receipt is one its own validator accepts, a PASS stands for nineteen calls
\* that were made and answered well, and the paid model call is made once at most and
\* after thirteen good answers.
THEOREM PreflightIsEarned == Spec => []PreflightPassIsEarned
  <1> DEFINE Inv == cast.tool = "preflight" => PreflightInv
  <1>1. Init => Inv
    BY PreflightInit DEF Init
  <1>2. Inv /\ [Next]_<<bootstrap, preflight, chain, evidence, aliases, gating, cleanup,
                        attesting, cast>> => Inv'
    BY PreflightNext, PreflightUnchanged DEF Next
  <1>3. Inv => PreflightPassIsEarned
    BY PreflightEarned DEF PreflightPassIsEarned
  <1> QED
    BY <1>1, <1>2, <1>3, PTL DEF Spec

-----------------------------------------------------------------------------
(* The closure's two receipts *)

ClosureProcess ==
    [pc : {"idle", "freeze", "evidence", "contract", "observe", "private", "public"},
     candidate : Chain!Candidate, contract : Chain!Contract \cup {NoFile},
     observed : Chain!Private \cup {NoFile}]
JudgeProcess ==
    [pc : {"idle", "second", "head", "evidence", "decide"}, kind : {"gate", "review"},
     candidate : Chain!Candidate, private : Chain!Private \cup {NoFile},
     public : Chain!Public \cup {NoFile}, export : Chain!Export \cup {NoFile},
     status : {"none", "PASS"}, at : 0..MaxTime]

RepositoryTyped ==
    /\ head \in 1..MaxVersions /\ worktree \in 1..MaxVersions
    /\ build \in 1..MaxVersions /\ gates \in 1..MaxVersions
    /\ clock \in 0..MaxTime /\ closures \in 0..MaxClosures
FilesTyped ==
    /\ contract = NoFile \/ contract \in Chain!Contract
    /\ private = NoFile
       \/ (private \in Chain!Private /\ private.contract.candidate = private.candidate)
    /\ public = NoFile \/ public \in Chain!Public
    /\ export = NoFile \/ export \in Chain!Export
\* A closure observes under a contract for its candidate, and holds an observation only
\* until both receipts are written.
ClosureHolds(x) ==
    /\ x.pc \in {"observe", "private", "public"} =>
         x.contract \in Chain!Contract /\ x.contract.candidate = x.candidate
    /\ IF x.pc \in {"private", "public"}
       THEN /\ x.observed \in Chain!Private /\ x.observed.candidate = x.candidate
            /\ x.observed.contract.candidate = x.candidate
       ELSE x.observed = NoFile
\* A judge about to decide has a candidate whose evidence is its commit's; one that
\* passed has checked the pair against it.
JudgeHolds(x) ==
    /\ x.pc = "decide" => x.candidate.build = x.candidate.commit
    /\ x.pc = "idle" /\ x.status = "PASS" =>
         /\ x.public.private.nonce = x.private.nonce
         /\ x.candidate = x.private.candidate /\ x.candidate.build = x.candidate.commit
         /\ x.private.observed_at - x.private.contract.selected_at <= ReceiptAge
         /\ x.at - x.private.observed_at <= ReceiptAge
         /\ x.kind = "review" => x.at - x.export.captured_at <= CaptureAge

ClosuresHold == cl \in [Operators -> ClosureProcess] /\ \A c \in Operators : ClosureHolds(cl[c])
JudgesHold == jd \in [Judges -> JudgeProcess] /\ \A j \in Judges : JudgeHolds(jd[j])

ChainInv == RepositoryTyped /\ FilesTyped /\ ClosuresHold /\ JudgesHold

LEMMA ChainInit == ASSUME Chain!Init PROVE ChainInv
  <1>1. 1 \in 1..MaxVersions /\ 0 \in 0..MaxTime /\ 0 \in 0..MaxClosures
    BY BoundsAssumption
  <1>2. Chain!Start \in Chain!Candidate
    BY <1>1 DEF Chain!Start, Chain!Candidate, Chain!Numbered
  <1>3. RepositoryTyped /\ FilesTyped
    <2>1. RepositoryTyped
      <3>1. head = 1 /\ worktree = 1 /\ build = 1 /\ gates = 1 /\ clock = 0 /\ closures = 0
        BY DEF Chain!Init
      <3> QED
        BY <1>1, <3>1, Zenon DEF RepositoryTyped
    <2>2. FilesTyped
      <3>1. contract = NoFile /\ private = NoFile /\ public = NoFile /\ export = NoFile
        BY DEF Chain!Init
      <3> QED
        BY <3>1, Zenon DEF FilesTyped
    <2> QED
      BY <2>1, <2>2
  <1>4. ClosuresHold
    <2>1. Chain!IdleClosure \in ClosureProcess
      BY <1>2 DEF Chain!IdleClosure, ClosureProcess
    <2>2. ClosureHolds(Chain!IdleClosure)
      BY DEF Chain!IdleClosure, ClosureHolds
    <2> QED
      BY <2>1, <2>2 DEF Chain!Init, ClosuresHold
  <1>5. JudgesHold
    <2>1. Chain!IdleJudge \in JudgeProcess
      BY <1>1, <1>2 DEF Chain!IdleJudge, JudgeProcess
    <2>2. JudgeHolds(Chain!IdleJudge)
      BY DEF Chain!IdleJudge, JudgeHolds
    <2> QED
      BY <2>1, <2>2 DEF Chain!Init, JudgesHold
  <1> QED
    BY <1>3, <1>4, <1>5 DEF ChainInv

\* A step of one closure that leaves a sound record of it.
LEMMA ClosureMoves ==
    ASSUME ClosuresHold, NEW c \in Operators, NEW x \in ClosureProcess, ClosureHolds(x),
           cl' = [cl EXCEPT ![c] = x]
    PROVE  ClosuresHold'
  BY DEF ClosuresHold

LEMMA JudgeMoves ==
    ASSUME JudgesHold, NEW j \in Judges, NEW x \in JudgeProcess, JudgeHolds(x),
           jd' = [jd EXCEPT ![j] = x]
    PROVE  JudgesHold'
  BY DEF JudgesHold

LEMMA ClosureFails ==
    ASSUME ClosuresHold, NEW c \in Operators, Chain!Fail(c) PROVE ClosuresHold'
  <1>1. Chain!Start \in Chain!Candidate
    BY BoundsAssumption DEF Chain!Start, Chain!Candidate, Chain!Numbered
  <1>2. Chain!IdleClosure \in ClosureProcess /\ ClosureHolds(Chain!IdleClosure)
    BY <1>1 DEF Chain!IdleClosure, ClosureProcess, ClosureHolds
  <1> QED
    BY <1>2, ClosureMoves DEF Chain!Fail

LEMMA JudgeGivesUp ==
    ASSUME JudgesHold, NEW j \in Judges, Chain!JudgeFails(j) PROVE JudgesHold'
  <1>1. Chain!Start \in Chain!Candidate /\ 0 \in 0..MaxTime
    BY BoundsAssumption DEF Chain!Start, Chain!Candidate, Chain!Numbered
  <1>2. Chain!IdleJudge \in JudgeProcess /\ JudgeHolds(Chain!IdleJudge)
    BY <1>1 DEF Chain!IdleJudge, JudgeProcess, JudgeHolds
  <1> QED
    BY <1>2, JudgeMoves DEF Chain!JudgeFails

LEMMA ClosureStays ==
    ASSUME ClosuresHold, UNCHANGED cl PROVE ClosuresHold'
  BY DEF ClosuresHold
LEMMA JudgeStays ==
    ASSUME JudgesHold, UNCHANGED jd PROVE JudgesHold'
  BY DEF JudgesHold
LEMMA RepositoryStays ==
    ASSUME RepositoryTyped, UNCHANGED <<head, worktree, build, gates, clock, closures>>
    PROVE  RepositoryTyped'
  BY DEF RepositoryTyped
LEMMA FilesStay ==
    ASSUME FilesTyped, UNCHANGED <<contract, private, public, export>> PROVE FilesTyped'
  BY DEF FilesTyped

LEMMA RefreshKeeps ==
    ASSUME ChainInv, NEW c \in Operators, Chain!Refresh(c) PROVE ChainInv'
  <1>1. RepositoryTyped'
    BY DEF ChainInv, Chain!Refresh, RepositoryTyped
  <1>2. ClosuresHold'
    <2> DEFINE x == [cl[c] EXCEPT !.pc = "freeze"]
    <2>1. x \in ClosureProcess /\ ClosureHolds(x)
      BY DEF ChainInv, ClosuresHold, Chain!Refresh, ClosureProcess, ClosureHolds
    <2>2. cl' = [cl EXCEPT ![c] = x]
      BY DEF Chain!Refresh, Chain!Closure
    <2> HIDE DEF x
    <2> QED
      BY <2>1, <2>2, ClosureMoves DEF ChainInv
  <1>3. FilesTyped' /\ JudgesHold'
    BY FilesStay, JudgeStays DEF ChainInv, Chain!Refresh, Chain!files
  <1> QED
    BY <1>1, <1>2, <1>3 DEF ChainInv

LEMMA FreezeKeeps ==
    ASSUME ChainInv, NEW c \in Operators, Chain!Freeze(c) PROVE ChainInv'
  <1>1. ClosuresHold'
    <2>1. CASE Chain!Fail(c)
      BY <2>1, ClosureFails DEF ChainInv
    <2>2. CASE ~ Chain!Fail(c)
      <3> DEFINE k == [cl[c].candidate EXCEPT !.commit = head]
                 x == [cl[c] EXCEPT !.pc = "evidence", !.candidate = k]
      <3>1. k \in Chain!Candidate
        BY DEF ChainInv, ClosuresHold, ClosureProcess, RepositoryTyped, Chain!Candidate,
               Chain!Numbered
      <3>2. cl' = [cl EXCEPT ![c] = x]
        BY <2>2 DEF Chain!Freeze
      <3> HIDE DEF k
      <3>3. x \in ClosureProcess /\ ClosureHolds(x)
        BY <3>1 DEF ChainInv, ClosuresHold, Chain!Freeze, ClosureProcess, ClosureHolds
      <3> HIDE DEF x
      <3> QED
        BY <3>2, <3>3, ClosureMoves DEF ChainInv
    <2> QED
      BY <2>1, <2>2
  <1>2. RepositoryTyped' /\ FilesTyped' /\ JudgesHold'
    BY RepositoryStays, FilesStay, JudgeStays
       DEF ChainInv, Chain!Freeze, Chain!files, Chain!repository
  <1> QED
    BY <1>1, <1>2 DEF ChainInv

LEMMA ReadEvidenceKeeps ==
    ASSUME ChainInv, NEW c \in Operators, Chain!ReadEvidence(c) PROVE ChainInv'
  <1>1. ClosuresHold'
    <2>1. CASE Chain!Fail(c)
      BY <2>1, ClosureFails DEF ChainInv
    <2>2. CASE ~ Chain!Fail(c)
      <3> DEFINE k == Chain!derive_candidate(cl[c].candidate.commit)
                 x == [cl[c] EXCEPT !.pc = "contract", !.candidate = k]
      <3>1. k \in Chain!Candidate
        BY DEF ChainInv, ClosuresHold, ClosureProcess, RepositoryTyped, Chain!Candidate,
               Chain!Numbered, Chain!derive_candidate
      <3>2. cl' = [cl EXCEPT ![c] = x]
        BY <2>2 DEF Chain!ReadEvidence
      <3> HIDE DEF k
      <3>3. x \in ClosureProcess /\ ClosureHolds(x)
        BY <3>1 DEF ChainInv, ClosuresHold, Chain!ReadEvidence, ClosureProcess, ClosureHolds
      <3> HIDE DEF x
      <3> QED
        BY <3>2, <3>3, ClosureMoves DEF ChainInv
    <2> QED
      BY <2>1, <2>2
  <1>2. RepositoryTyped' /\ FilesTyped' /\ JudgesHold'
    BY RepositoryStays, FilesStay, JudgeStays
       DEF ChainInv, Chain!ReadEvidence, Chain!files, Chain!repository
  <1> QED
    BY <1>1, <1>2 DEF ChainInv

LEMMA ContractMissingKeeps ==
    ASSUME ChainInv, NEW c \in Operators, Chain!ContractMissing(c) PROVE ChainInv'
  <1>1. [private |-> NoFile, candidate |-> cl[c].candidate, status |-> "BLOCKED"] \in Chain!Public
    BY DEF ChainInv, ClosuresHold, ClosureProcess, Chain!Public
  <1>2. FilesTyped'
    BY <1>1 DEF ChainInv, Chain!ContractMissing, FilesTyped
  <1>3. ClosuresHold'
    BY ClosureFails DEF ChainInv, Chain!ContractMissing
  <1>4. RepositoryTyped' /\ JudgesHold'
    BY RepositoryStays, JudgeStays DEF ChainInv, Chain!ContractMissing, Chain!repository
  <1> QED
    BY <1>2, <1>3, <1>4 DEF ChainInv

LEMMA ClosureEndsKeeps ==
    ASSUME ChainInv, NEW c \in Operators, Chain!ContractForeign(c) \/ Chain!Interrupt(c)
    PROVE  ChainInv'
  <1>1. ClosuresHold'
    BY ClosureFails DEF ChainInv, Chain!ContractForeign, Chain!Interrupt
  <1>2. RepositoryTyped' /\ FilesTyped' /\ JudgesHold'
    BY RepositoryStays, FilesStay, JudgeStays
       DEF ChainInv, Chain!ContractForeign, Chain!Interrupt, Chain!files, Chain!repository
  <1> QED
    BY <1>1, <1>2 DEF ChainInv

LEMMA ContractLoadedKeeps ==
    ASSUME ChainInv, NEW c \in Operators, Chain!ContractLoaded(c) PROVE ChainInv'
  <1>1. ClosuresHold'
    <2> DEFINE x == [cl[c] EXCEPT !.pc = "observe", !.contract = contract]
    <2>1. contract \in Chain!Contract
      BY DEF ChainInv, FilesTyped, Chain!ContractLoaded
    <2>2. x \in ClosureProcess /\ ClosureHolds(x)
      BY <2>1 DEF ChainInv, ClosuresHold, Chain!ContractLoaded, ClosureProcess, ClosureHolds
    <2>3. cl' = [cl EXCEPT ![c] = x]
      BY DEF Chain!ContractLoaded
    <2> HIDE DEF x
    <2> QED
      BY <2>2, <2>3, ClosureMoves DEF ChainInv
  <1>2. RepositoryTyped' /\ FilesTyped' /\ JudgesHold'
    BY RepositoryStays, FilesStay, JudgeStays
       DEF ChainInv, Chain!ContractLoaded, Chain!files, Chain!repository
  <1> QED
    BY <1>1, <1>2 DEF ChainInv

LEMMA ObserveKeeps ==
    ASSUME ChainInv, NEW c \in Operators, Chain!Observe(c) PROVE ChainInv'
  <1>1. cl[c].pc = "observe" /\ UNCHANGED <<head, worktree, build, gates, contract, private,
                                            public, export, clock, jd>>
    BY DEF Chain!Observe, Chain!files, Chain!repository
  <1>2. FilesTyped' /\ JudgesHold'
    BY <1>1, FilesStay, JudgeStays DEF ChainInv
  <1>3. CASE Chain!Fail(c) /\ UNCHANGED closures
    <2>1. ClosuresHold'
      BY <1>3, ClosureFails DEF ChainInv
    <2>2. RepositoryTyped'
      BY <1>1, <1>3, RepositoryStays DEF ChainInv
    <2> QED
      BY <1>2, <2>1, <2>2 DEF ChainInv
  <1>4. CASE ~ (Chain!Fail(c) /\ UNCHANGED closures)
    <2>1. /\ closures < MaxClosures /\ closures' = closures + 1
          /\ \E status \in {"PASS", "BLOCKED"} :
                cl' = [cl EXCEPT ![c].pc = "private",
                                 ![c].observed = [nonce |-> closures + 1,
                                                  candidate |-> cl[c].candidate,
                                                  contract |-> cl[c].contract,
                                                  observed_at |-> clock, status |-> status]]
      BY <1>4 DEF Chain!Observe
    <2>2. PICK status \in {"PASS", "BLOCKED"} :
                cl' = [cl EXCEPT ![c].pc = "private",
                                 ![c].observed = [nonce |-> closures + 1,
                                                  candidate |-> cl[c].candidate,
                                                  contract |-> cl[c].contract,
                                                  observed_at |-> clock, status |-> status]]
      BY <2>1
    <2> DEFINE r == [nonce |-> closures + 1, candidate |-> cl[c].candidate,
                     contract |-> cl[c].contract, observed_at |-> clock, status |-> status]
               x == [cl[c] EXCEPT !.pc = "private", !.observed = r]
    <2>3. closures + 1 \in 1..MaxClosures /\ closures + 1 \in 0..MaxClosures
      BY <2>1, BoundsAssumption DEF ChainInv, RepositoryTyped
    <2>4. /\ cl[c].candidate \in Chain!Candidate /\ cl[c].contract \in Chain!Contract
          /\ cl[c].contract.candidate = cl[c].candidate
      BY <1>1 DEF ChainInv, ClosuresHold, ClosureHolds, ClosureProcess
    <2>5. r \in Chain!Private
      BY <2>3, <2>4 DEF ChainInv, RepositoryTyped, Chain!Private
    <2>6. r.candidate = cl[c].candidate /\ r.contract = cl[c].contract
      OBVIOUS
    <2>7. cl' = [cl EXCEPT ![c] = x]
      BY <2>2
    <2> HIDE DEF r
    <2>8. x \in ClosureProcess /\ ClosureHolds(x)
      BY <2>4, <2>5, <2>6, ZenonT(60) DEF ChainInv, ClosuresHold, ClosureProcess, ClosureHolds
    <2> HIDE DEF x
    <2>9. ClosuresHold'
      BY <2>7, <2>8, ClosureMoves DEF ChainInv
    <2>10. RepositoryTyped'
      BY <1>1, <2>1, <2>3 DEF ChainInv, RepositoryTyped
    <2> QED
      BY <1>2, <2>9, <2>10 DEF ChainInv
  <1> QED
    BY <1>3, <1>4

LEMMA WritePrivateKeeps ==
    ASSUME ChainInv, NEW c \in Operators, Chain!WritePrivate(c) PROVE ChainInv'
  <1>1. FilesTyped'
    BY DEF ChainInv, ClosuresHold, ClosureHolds, Chain!WritePrivate, FilesTyped
  <1>2. ClosuresHold'
    <2> DEFINE x == [cl[c] EXCEPT !.pc = "public"]
    <2>1. x \in ClosureProcess /\ ClosureHolds(x)
      BY DEF ChainInv, ClosuresHold, Chain!WritePrivate, ClosureProcess, ClosureHolds
    <2>2. cl' = [cl EXCEPT ![c] = x]
      BY DEF Chain!WritePrivate, Chain!Closure
    <2> HIDE DEF x
    <2> QED
      BY <2>1, <2>2, ClosureMoves DEF ChainInv
  <1>3. RepositoryTyped' /\ JudgesHold'
    BY RepositoryStays, JudgeStays DEF ChainInv, Chain!WritePrivate, Chain!repository
  <1> QED
    BY <1>1, <1>2, <1>3 DEF ChainInv

LEMMA WritePublicKeeps ==
    ASSUME ChainInv, NEW c \in Operators, Chain!WritePublic(c) PROVE ChainInv'
  <1>1. cl[c].observed \in Chain!Private /\ cl[c].candidate \in Chain!Candidate
    BY DEF ChainInv, ClosuresHold, ClosureHolds, ClosureProcess, Chain!WritePublic
  <1>2. public' \in Chain!Public
    <2>1. cl[c].observed.status \in {"PASS", "BLOCKED"}
      BY <1>1 DEF Chain!Private
    <2> QED
      BY <1>1, <2>1 DEF Chain!WritePublic, Chain!Public
  <1>3. FilesTyped'
    BY <1>2 DEF ChainInv, Chain!WritePublic, FilesTyped
  <1>4. ClosuresHold'
    BY ClosureFails DEF ChainInv, Chain!WritePublic
  <1>5. RepositoryTyped' /\ JudgesHold'
    BY RepositoryStays, JudgeStays DEF ChainInv, Chain!WritePublic, Chain!repository
  <1> QED
    BY <1>3, <1>4, <1>5 DEF ChainInv

LEMMA JudgeKeepsRest ==
    ASSUME ChainInv, Chain!KeepForJudge, JudgesHold' PROVE ChainInv'
  BY RepositoryStays, FilesStay, ClosureStays
     DEF ChainInv, Chain!KeepForJudge, Chain!files, Chain!repository

LEMMA ReadFirstKeeps ==
    ASSUME ChainInv, NEW j \in Judges, Chain!ReadFirst(j) PROVE ChainInv'
  <1>1. Chain!Start \in Chain!Candidate /\ 0 \in 0..MaxTime
    BY BoundsAssumption DEF Chain!Start, Chain!Candidate, Chain!Numbered
  <1>2. Chain!IdleJudge \in JudgeProcess
    BY <1>1 DEF Chain!IdleJudge, JudgeProcess
  <1>3. ASSUME NEW x \in JudgeProcess, x.pc = "second", jd' = [jd EXCEPT ![j] = x]
        PROVE  ChainInv'
    <2>1. JudgeHolds(x)
      BY <1>3 DEF JudgeHolds
    <2>2. JudgesHold'
      BY <1>3, <2>1, JudgeMoves DEF ChainInv
    <2> QED
      BY <2>2, JudgeKeepsRest DEF Chain!ReadFirst
  <1>4. ASSUME public # NoFile,
               jd' = [jd EXCEPT ![j] = [Chain!IdleJudge EXCEPT !.pc = "second", !.kind = "gate",
                                                               !.public = public]]
        PROVE  ChainInv'
    <2> DEFINE x == [Chain!IdleJudge EXCEPT !.pc = "second", !.kind = "gate", !.public = public]
    <2>1. public \in Chain!Public
      BY <1>4 DEF ChainInv, FilesTyped
    <2>2. x \in JudgeProcess /\ x.pc = "second"
      BY <1>2, <2>1 DEF JudgeProcess
    <2> HIDE DEF x
    <2> QED
      BY <1>3, <1>4, <2>2 DEF x
  <1>5. ASSUME private # NoFile, export # NoFile,
               jd' = [jd EXCEPT ![j] = [Chain!IdleJudge EXCEPT !.pc = "second", !.kind = "review",
                                                 !.private = private, !.export = export]]
        PROVE  ChainInv'
    <2> DEFINE x == [Chain!IdleJudge EXCEPT !.pc = "second", !.kind = "review",
                                            !.private = private, !.export = export]
    <2>1. private \in Chain!Private /\ export \in Chain!Export
      BY <1>5 DEF ChainInv, FilesTyped
    <2>2. x \in JudgeProcess /\ x.pc = "second"
      BY <1>2, <2>1 DEF JudgeProcess
    <2> HIDE DEF x
    <2> QED
      BY <1>3, <1>5, <2>2 DEF x
  <1> QED
    BY <1>4, <1>5 DEF Chain!ReadFirst

LEMMA ReadSecondKeeps ==
    ASSUME ChainInv, NEW j \in Judges, Chain!ReadSecond(j) PROVE ChainInv'
  <1>1. jd[j] \in JudgeProcess /\ JudgeHolds(jd[j])
    BY DEF ChainInv, JudgesHold
  <1>2. CASE Chain!JudgeFails(j)
    BY <1>2, JudgeGivesUp, JudgeKeepsRest DEF ChainInv, Chain!ReadSecond
  <1>3. CASE private # NoFile /\ jd' = [jd EXCEPT ![j].pc = "head", ![j].private = private]
    <2> DEFINE x == [jd[j] EXCEPT !.pc = "head", !.private = private]
    <2>1. private \in Chain!Private
      BY <1>3 DEF ChainInv, FilesTyped
    <2>2. x \in JudgeProcess /\ x.pc = "head"
      BY <1>1, <2>1 DEF JudgeProcess
    <2>3. jd' = [jd EXCEPT ![j] = x]
      BY <1>3
    <2> HIDE DEF x
    <2>4. JudgeHolds(x)
      BY <2>2 DEF JudgeHolds
    <2>5. JudgesHold'
      BY <2>2, <2>3, <2>4, JudgeMoves DEF ChainInv
    <2> QED
      BY <2>5, JudgeKeepsRest DEF Chain!ReadSecond
  <1>4. CASE public # NoFile /\ jd' = [jd EXCEPT ![j].pc = "head", ![j].public = public]
    <2> DEFINE x == [jd[j] EXCEPT !.pc = "head", !.public = public]
    <2>1. public \in Chain!Public
      BY <1>4 DEF ChainInv, FilesTyped
    <2>2. x \in JudgeProcess /\ x.pc = "head"
      BY <1>1, <2>1 DEF JudgeProcess
    <2>3. jd' = [jd EXCEPT ![j] = x]
      BY <1>4
    <2> HIDE DEF x
    <2>4. JudgeHolds(x)
      BY <2>2 DEF JudgeHolds
    <2>5. JudgesHold'
      BY <2>2, <2>3, <2>4, JudgeMoves DEF ChainInv
    <2> QED
      BY <2>5, JudgeKeepsRest DEF Chain!ReadSecond
  <1> QED
    BY <1>2, <1>3, <1>4 DEF Chain!ReadSecond

LEMMA JudgeHeadKeeps ==
    ASSUME ChainInv, NEW j \in Judges, Chain!JudgeHead(j) PROVE ChainInv'
  <1>1. jd[j] \in JudgeProcess
    BY DEF ChainInv, JudgesHold
  <1>2. CASE Chain!JudgeFails(j)
    BY <1>2, JudgeGivesUp, JudgeKeepsRest DEF ChainInv, Chain!JudgeHead
  <1>3. CASE ~ Chain!JudgeFails(j)
    <2> DEFINE k == [jd[j].candidate EXCEPT !.commit = head]
               x == [jd[j] EXCEPT !.pc = "evidence", !.candidate = k]
    <2>1. k \in Chain!Candidate
      BY <1>1 DEF ChainInv, JudgeProcess, RepositoryTyped, Chain!Candidate, Chain!Numbered
    <2>2. jd' = [jd EXCEPT ![j] = x]
      BY <1>3 DEF Chain!JudgeHead
    <2> HIDE DEF k
    <2>3. x \in JudgeProcess /\ x.pc = "evidence"
      BY <1>1, <2>1 DEF JudgeProcess
    <2> HIDE DEF x
    <2>4. JudgeHolds(x)
      BY <2>3 DEF JudgeHolds
    <2>5. JudgesHold'
      BY <2>2, <2>3, <2>4, JudgeMoves DEF ChainInv
    <2> QED
      BY <2>5, JudgeKeepsRest DEF Chain!JudgeHead
  <1> QED
    BY <1>2, <1>3

LEMMA JudgeEvidenceKeeps ==
    ASSUME ChainInv, NEW j \in Judges, Chain!JudgeEvidence(j) PROVE ChainInv'
  <1>1. jd[j] \in JudgeProcess
    BY DEF ChainInv, JudgesHold
  <1>2. CASE Chain!JudgeFails(j)
    BY <1>2, JudgeGivesUp, JudgeKeepsRest DEF ChainInv, Chain!JudgeEvidence
  <1>3. CASE ~ Chain!JudgeFails(j)
    <2> DEFINE k == Chain!derive_candidate(jd[j].candidate.commit)
               x == [jd[j] EXCEPT !.pc = "decide", !.candidate = k]
    <2>1. Chain!EvidenceMatches(jd[j].candidate.commit) /\ jd' = [jd EXCEPT ![j] = x]
      BY <1>3 DEF Chain!JudgeEvidence
    <2>2. k \in Chain!Candidate /\ k.build = k.commit
      BY <1>1, <2>1 DEF ChainInv, JudgeProcess, RepositoryTyped, Chain!Candidate, Chain!Numbered,
                        Chain!derive_candidate, Chain!EvidenceMatches
    <2> HIDE DEF k
    <2>3. x \in JudgeProcess /\ x.pc = "decide" /\ x.candidate = k
      BY <1>1, <2>2 DEF JudgeProcess
    <2> HIDE DEF x
    <2>4. JudgeHolds(x)
      BY <2>2, <2>3 DEF JudgeHolds
    <2>5. JudgesHold'
      BY <2>1, <2>3, <2>4, JudgeMoves DEF ChainInv
    <2> QED
      BY <2>5, JudgeKeepsRest DEF Chain!JudgeEvidence
  <1> QED
    BY <1>2, <1>3

LEMMA DecideKeeps ==
    ASSUME ChainInv, NEW j \in Judges, Chain!Decide(j) PROVE ChainInv'
  <1>1. jd[j] \in JudgeProcess /\ jd[j].pc = "decide" /\ jd[j].candidate.build = jd[j].candidate.commit
    BY DEF ChainInv, JudgesHold, JudgeHolds, Chain!Decide
  <1>2. CASE Chain!JudgeFails(j)
    BY <1>2, JudgeGivesUp, JudgeKeepsRest DEF ChainInv, Chain!Decide
  <1>3. CASE ~ Chain!JudgeFails(j)
    <2> DEFINE x == [jd[j] EXCEPT !.pc = "idle", !.at = clock, !.status = "PASS"]
    <2>1. Chain!Accepts(j) /\ jd' = [jd EXCEPT ![j] = x]
      BY <1>3 DEF Chain!Decide
    <2>2. /\ x \in JudgeProcess /\ x.pc = "idle" /\ x.at = clock /\ x.candidate = jd[j].candidate
          /\ x.private = jd[j].private /\ x.public = jd[j].public /\ x.export = jd[j].export
          /\ x.kind = jd[j].kind
      BY <1>1 DEF JudgeProcess, ChainInv, RepositoryTyped
    <2> HIDE DEF x
    <2>3. /\ x.public.private = x.private /\ x.private.candidate = x.candidate
          /\ x.private.observed_at - x.private.contract.selected_at <= ReceiptAge
          /\ x.at - x.private.observed_at <= ReceiptAge
          /\ x.kind = "review" => x.at - x.export.captured_at <= CaptureAge
      BY <2>1, <2>2 DEF Chain!Accepts, Chain!PairIsBound, Chain!PrivateIsBound, Chain!PairIsYoung,
                        Chain!ExportIsReviewed
    <2>4. JudgeHolds(x)
      BY <1>1, <2>2, <2>3 DEF JudgeHolds
    <2>5. JudgesHold'
      BY <2>1, <2>2, <2>4, JudgeMoves DEF ChainInv
    <2> QED
      BY <2>5, JudgeKeepsRest DEF Chain!Decide
  <1> QED
    BY <1>2, <1>3

\* The developer, the operator and time leave the processes alone.
LEMMA OutsideKeeps ==
    ASSUME ChainInv, \/ Chain!Edit \/ Chain!Commit \/ Chain!Build
                     \/ Chain!Select \/ Chain!Capture \/ Chain!Tick
    PROVE  ChainInv'
  <1>1. ClosuresHold' /\ JudgesHold'
    BY ClosureStays, JudgeStays
       DEF ChainInv, Chain!Edit, Chain!Commit, Chain!Build, Chain!Select, Chain!Capture, Chain!Tick
  <1>2. CASE Chain!Edit \/ Chain!Commit \/ Chain!Build \/ Chain!Tick
    <2>1. RepositoryTyped'
      BY <1>2, BoundsAssumption
         DEF ChainInv, RepositoryTyped, Chain!Edit, Chain!Commit, Chain!Build, Chain!Tick,
             Chain!repository
    <2>2. FilesTyped'
      BY <1>2, FilesStay
         DEF ChainInv, Chain!Edit, Chain!Commit, Chain!Build, Chain!Tick, Chain!files
    <2> QED
      BY <1>1, <2>1, <2>2 DEF ChainInv
  <1>3. CASE Chain!Select
    <2>1. contract' = NoFile \/ contract' \in Chain!Contract
      BY <1>3 DEF ChainInv, FilesTyped, RepositoryTyped, Chain!Select, Chain!Contract, Chain!Public
    <2>2. FilesTyped'
      BY <1>3, <2>1 DEF ChainInv, FilesTyped, Chain!Select
    <2>3. RepositoryTyped'
      BY <1>3, RepositoryStays DEF ChainInv, Chain!Select, Chain!repository
    <2> QED
      BY <1>1, <2>2, <2>3 DEF ChainInv
  <1>4. CASE Chain!Capture
    <2>1. export' \in Chain!Export
      BY <1>4 DEF ChainInv, FilesTyped, RepositoryTyped, Chain!Capture, Chain!Export, Chain!Public
    <2>2. FilesTyped'
      BY <1>4, <2>1 DEF ChainInv, FilesTyped, Chain!Capture
    <2>3. RepositoryTyped'
      BY <1>4, RepositoryStays DEF ChainInv, Chain!Capture, Chain!repository
    <2> QED
      BY <1>1, <2>2, <2>3 DEF ChainInv
  <1> QED
    BY <1>2, <1>3, <1>4

LEMMA ChainNextKeeps ==
    ASSUME ChainInv, ChainNext, cast.processes \subseteq Operators PROVE ChainInv'
  <1>1. CASE \E c \in cast.processes : Chain!run_closure(c)
    <2>1. PICK c \in cast.processes : Chain!run_closure(c)
      BY <1>1
    <2> QED
      BY <2>1, RefreshKeeps, FreezeKeeps, ReadEvidenceKeeps, ContractMissingKeeps,
         ClosureEndsKeeps, ContractLoadedKeeps, ObserveKeeps, WritePrivateKeeps, WritePublicKeeps
         DEF Chain!run_closure
  <1>2. CASE \E j \in Judges : Chain!judge(j)
    BY <1>2, ReadFirstKeeps, ReadSecondKeeps, JudgeHeadKeeps, JudgeEvidenceKeeps, DecideKeeps
       DEF Chain!judge
  <1> QED
    BY <1>1, <1>2, OutsideKeeps DEF ChainNext

LEMMA ChainUnchanged ==
    ASSUME ChainInv, UNCHANGED chain PROVE ChainInv'
  BY RepositoryStays, FilesStay, ClosureStays, JudgeStays DEF ChainInv, chain

LEMMA ChainSound ==
    ASSUME ChainInv
    PROVE  /\ Chain!TypeOK
           /\ Chain!PassIsOneClosure /\ Chain!PassIsFresh /\ Chain!ObservedAsSelected
  <1>1. Chain!TypeOK
    BY BoundsAssumption
       DEF ChainInv, RepositoryTyped, FilesTyped, ClosuresHold, JudgesHold, ClosureProcess,
           JudgeProcess, Chain!TypeOK, Chain!Numbered
  <1>2. Chain!PassIsOneClosure
    BY DEF ChainInv, JudgesHold, JudgeHolds, Chain!PassIsOneClosure, Chain!Passed
  <1>3. Chain!PassIsFresh
    BY DEF ChainInv, JudgesHold, JudgeHolds, Chain!PassIsFresh, Chain!Passed
  <1>4. Chain!ObservedAsSelected
    BY DEF ChainInv, FilesTyped, ClosuresHold, ClosureHolds, Chain!ObservedAsSelected
  <1> QED
    BY <1>1, <1>2, <1>3, <1>4

\* run_g10_closure.py, run_day15_gate.py, change_set_review.py: for any number of closures,
\* judges and versions of the candidate, a PASS rests on two receipts of one closure that
\* froze the very candidate the judge built, nothing along the chain is older than it may
\* be, and AWS was observed only for the candidate the contract names.
THEOREM ClosureIsSound == Spec => []ClosurePassIsSound
  <1> DEFINE Inv == /\ cast.tool = "chain" => cast.processes \subseteq Operators
                    /\ ChainInv
  <1>1. Init => Inv
    BY ChainInit, CastsKnown DEF Init
  <1>2. Inv /\ [Next]_<<bootstrap, preflight, chain, evidence, aliases, gating, cleanup,
                        attesting, cast>> => Inv'
    BY ChainNextKeeps, ChainUnchanged DEF Next
  <1>3. Inv => ClosurePassIsSound
    BY ChainSound DEF ClosurePassIsSound
  <1> QED
    BY <1>1, <1>2, <1>3, PTL DEF Spec

-----------------------------------------------------------------------------
(* The alias rollback *)

\* What a run's plan and the aliases have to do with each other, until somebody else
\* moves one: what was read is still so, and what was updated is at its target.
RunHolds(x, l) ==
    /\ x.pc = "idle" => ~x.disturbed
    /\ x.updated # {} => x.pc \in {"update_orchestrator", "verify_executor", "verify_orchestrator"}
    /\ x.pc \in {"orchestrator", "confirm"} =>
         x.plan["executor"].target = x.target["executor"]
    /\ x.pc = "confirm" => x.plan["orchestrator"].target = x.target["orchestrator"]
    /\ x.pc \in {"update_executor", "update_orchestrator"} =>
         /\ x.plan = x.reviewed
         /\ x.plan["executor"].target = x.target["executor"]
         /\ x.plan["orchestrator"].target = x.target["orchestrator"]
    /\ ~x.disturbed =>
         /\ x.pc \in {"orchestrator", "confirm", "update_executor"} =>
              x.plan["executor"].current = l["executor"]
         /\ x.pc \in {"confirm", "update_executor", "update_orchestrator"} =>
              x.plan["orchestrator"].current = l["orchestrator"]
         /\ x.pc \in {"update_orchestrator", "verify_executor", "verify_orchestrator"} =>
              l["executor"] = x.target["executor"]
         /\ x.pc \in {"verify_executor", "verify_orchestrator"} =>
              l["orchestrator"] = x.target["orchestrator"]

LivesTyped ==
    /\ live \in [Aliases!Roles -> Versions]
    /\ outages \in 0..MaxOutages /\ deploys \in 0..MaxDeploys
RunsHold == rb \in [Operators -> Aliases!Run] /\ \A o \in Operators : RunHolds(rb[o], live)
AliasInv == LivesTyped /\ RunsHold

LEMMA OldestIsVersion ==
    ASSUME Versions # {} PROVE Aliases!Oldest \in Versions
  <1>1. Versions \in SUBSET Nat
    BY BoundsAssumption
  <1> QED
    BY <1>1, LeastNumber DEF Aliases!Oldest

LEMMA IdleRunHolds ==
    ASSUME NEW target \in [Aliases!Roles -> Versions],
           NEW reviewed \in Aliases!AliasPlan \cup {<<>>},
           NEW status \in {"none", "PASS", "FAIL", "PARTIAL", "BLOCKED"}, NEW l
    PROVE  /\ Aliases!IdleRun(target, reviewed, status) \in Aliases!Run
           /\ RunHolds(Aliases!IdleRun(target, reviewed, status), l)
  <1>1. Aliases!Oldest \in Versions
    <2>1. target["executor"] \in Versions
      BY DEF Aliases!Roles
    <2> QED
      BY <2>1, OldestIsVersion
  <1>2. Aliases!NoPlan \in Aliases!AliasPlan
    BY <1>1 DEF Aliases!NoPlan, Aliases!AliasPlan
  <1> HIDE DEF Aliases!NoPlan, Aliases!AliasPlan
  <1> QED
    BY <1>2 DEF Aliases!IdleRun, Aliases!Run, RunHolds

LEMMA AliasInit ==
    ASSUME Aliases!Init PROVE AliasInv
  <1>1. LivesTyped
    BY BoundsAssumption DEF Aliases!Init, LivesTyped
  <1>2. PICK t \in [Operators -> [Aliases!Roles -> Versions]] :
          rb = [o \in Operators |-> Aliases!IdleRun(t[o], <<>>, "none")]
    BY DEF Aliases!Init
  <1>3. RunsHold
    BY <1>2, IdleRunHolds DEF RunsHold
  <1> QED
    BY <1>1, <1>3 DEF AliasInv

\* A run of which nothing but its own record changes.
LEMMA RunMoves ==
    ASSUME AliasInv, NEW o \in Operators, NEW x \in Aliases!Run, RunHolds(x, live),
           rb' = [rb EXCEPT ![o] = x], UNCHANGED <<live, deploys>>,
           outages' \in 0..MaxOutages
    PROVE  AliasInv'
  BY DEF AliasInv, LivesTyped, RunsHold

LEMMA OutageTyped ==
    ASSUME AliasInv, Aliases!Outage \/ Aliases!Answered PROVE outages' \in 0..MaxOutages
  BY BoundsAssumption DEF AliasInv, LivesTyped, Aliases!Outage, Aliases!Answered

LEMMA RunEnds ==
    ASSUME AliasInv, NEW o \in Operators, NEW status \in {"PASS", "FAIL", "PARTIAL", "BLOCKED"},
           rb[o].pc # "idle", Aliases!End(o, status), UNCHANGED <<live, deploys>>,
           Aliases!Outage \/ Aliases!Answered
    PROVE  AliasInv'
  <1>1. rb[o].target \in [Aliases!Roles -> Versions] /\ rb[o].plan \in Aliases!AliasPlan
    BY DEF AliasInv, RunsHold, Aliases!Run
  <1> DEFINE kept == IF status = "PASS" /\ ~rb[o].execute THEN rb[o].plan ELSE <<>>
             x == Aliases!IdleRun(rb[o].target, kept, status)
  <1>2. kept \in Aliases!AliasPlan \cup {<<>>}
    BY <1>1
  <1>3. rb' = [rb EXCEPT ![o] = x]
    BY DEF Aliases!End
  <1> HIDE DEF kept
  <1>4. x \in Aliases!Run /\ RunHolds(x, live)
    BY <1>1, <1>2, IdleRunHolds
  <1> HIDE DEF x
  <1> QED
    BY <1>3, <1>4, RunMoves, OutageTyped

\* Another run, when an alias is moved to a version.
LEMMA OthersHold ==
    ASSUME NEW x \in Aliases!Run, NEW l \in [Aliases!Roles -> Versions], RunHolds(x, l),
           NEW role \in Aliases!Roles, NEW version,
           NEW y, y = [x EXCEPT !.disturbed = @ \/ (x.pc # "idle" /\ l[role] # version)]
    PROVE  y \in Aliases!Run /\ RunHolds(y, [l EXCEPT ![role] = version])
  <1>1. CASE l[role] = version
    <2>1. [l EXCEPT ![role] = version] = l
      BY <1>1
    <2>2. y = x
      BY <1>1 DEF Aliases!Run
    <2> QED
      BY <2>1, <2>2
  <1>2. CASE x.pc = "idle"
    BY <1>2 DEF Aliases!Run, RunHolds
  <1>3. CASE l[role] # version /\ x.pc # "idle"
    <2>1. /\ y \in Aliases!Run /\ y.disturbed = TRUE /\ y.pc = x.pc /\ y.plan = x.plan
          /\ y.reviewed = x.reviewed /\ y.target = x.target /\ y.updated = x.updated
      BY <1>3 DEF Aliases!Run
    <2> QED
      BY <1>3, <2>1 DEF RunHolds
  <1> QED
    BY <1>1, <1>2, <1>3

LEMMA StartKeeps ==
    ASSUME AliasInv, NEW o \in Operators, NEW execute \in BOOLEAN, Aliases!Start(o, execute)
    PROVE  AliasInv'
  <1> DEFINE x == [rb[o] EXCEPT !.pc = "executor", !.execute = execute, !.status = "none"]
  <1>1. rb' = [rb EXCEPT ![o] = x] /\ UNCHANGED <<live, deploys>>
    BY DEF Aliases!Start
  <1>2. x \in Aliases!Run /\ RunHolds(x, live)
    <2>1. rb[o] \in Aliases!Run /\ RunHolds(rb[o], live) /\ rb[o].pc = "idle"
      BY DEF AliasInv, RunsHold, Aliases!Start
    <2>2. /\ x \in Aliases!Run /\ x.pc = "executor" /\ x.updated = rb[o].updated
          /\ x.disturbed = rb[o].disturbed
      BY <2>1 DEF Aliases!Run
    <2> HIDE DEF x
    <2> QED
      BY <2>1, <2>2 DEF RunHolds
  <1> HIDE DEF x
  <1> QED
    BY <1>1, <1>2, RunMoves, OutageTyped DEF Aliases!Start

\* What build_plan reads of an alias is so now.
LEMMA TargetTyped ==
    ASSUME AliasInv, NEW o \in Operators, NEW role \in Aliases!Roles
    PROVE  /\ Aliases!Target(role, o) \in [current : Versions, target : Versions]
           /\ Aliases!Target(role, o).current = live[role]
           /\ Aliases!Target(role, o).target = rb[o].target[role]
  BY DEF AliasInv, LivesTyped, RunsHold, Aliases!Run, Aliases!Target

LEMMA ReadAliasKeeps ==
    ASSUME AliasInv, NEW o \in Operators,
           \/ Aliases!ReadAlias(o, "executor", "orchestrator")
           \/ Aliases!ReadAlias(o, "orchestrator", "confirm")
    PROVE  AliasInv'
  <1>1. rb[o] \in Aliases!Run /\ RunHolds(rb[o], live) /\ rb[o].plan \in Aliases!AliasPlan
    BY DEF AliasInv, RunsHold, Aliases!Run
  <1>2. CASE Aliases!End(o, "BLOCKED") /\ Aliases!Outage
    BY <1>2, RunEnds DEF Aliases!ReadAlias
  <1>3. ASSUME NEW role \in Aliases!Roles, NEW next \in {"orchestrator", "confirm"},
               rb[o].pc = role, (role = "executor" /\ next = "orchestrator")
                                \/ (role = "orchestrator" /\ next = "confirm"),
               rb' = [rb EXCEPT ![o].plan = [@ EXCEPT ![role] = Aliases!Target(role, o)],
                                ![o].pc = next],
               Aliases!Answered, UNCHANGED <<live, deploys>>
        PROVE  AliasInv'
    <2> DEFINE t == Aliases!Target(role, o)
               k == [rb[o].plan EXCEPT ![role] = t]
               x == [rb[o] EXCEPT !.plan = k, !.pc = next]
    <2>1. /\ t \in [current : Versions, target : Versions] /\ t.current = live[role]
          /\ t.target = rb[o].target[role]
      BY TargetTyped
    <2> HIDE DEF t
    <2>2. k \in Aliases!AliasPlan /\ k[role] = t /\ \A r \in Aliases!Roles \ {role} : k[r] = rb[o].plan[r]
      BY <1>1, <2>1 DEF Aliases!AliasPlan
    <2>3. rb' = [rb EXCEPT ![o] = x]
      BY <1>3 DEF t
    <2> HIDE DEF k
    <2>4. /\ x \in Aliases!Run /\ x.pc = next /\ x.plan = k /\ x.target = rb[o].target
          /\ x.updated = rb[o].updated /\ x.disturbed = rb[o].disturbed
      BY <1>1, <2>2 DEF Aliases!Run
    <2>5. rb[o].updated = {}
      BY <1>1, <1>3 DEF RunHolds
    <2> HIDE DEF x
    <2>6. RunHolds(x, live)
      BY <1>1, <1>3, <2>1, <2>2, <2>4, <2>5 DEF RunHolds, Aliases!Roles
    <2> QED
      BY <1>3, <2>3, <2>4, <2>6, RunMoves, OutageTyped
  <1> QED
    BY <1>2, <1>3 DEF Aliases!ReadAlias, Aliases!Roles

LEMMA ConfirmKeeps ==
    ASSUME AliasInv, NEW o \in Operators, Aliases!Confirm(o) PROVE AliasInv'
  <1>1. rb[o] \in Aliases!Run /\ RunHolds(rb[o], live)
    BY DEF AliasInv, RunsHold
  <1>2. CASE Aliases!End(o, "PASS") \/ Aliases!End(o, "BLOCKED")
    BY <1>2, RunEnds DEF Aliases!Confirm
  <1>3. CASE rb[o].plan = rb[o].reviewed /\ Aliases!To(o, "update_executor")
    <2> DEFINE x == [rb[o] EXCEPT !.pc = "update_executor"]
    <2>1. rb' = [rb EXCEPT ![o] = x] /\ UNCHANGED <<live, deploys>> /\ rb[o].pc = "confirm"
      BY <1>3 DEF Aliases!Confirm, Aliases!To
    <2>2. x \in Aliases!Run /\ RunHolds(x, live)
      BY <1>1, <1>3, <2>1 DEF Aliases!Run, RunHolds
    <2> HIDE DEF x
    <2> QED
      BY <2>1, <2>2, RunMoves, OutageTyped DEF Aliases!Confirm
  <1> QED
    BY <1>2, <1>3 DEF Aliases!Confirm

\* An update: the run that makes it goes on or ends, every other run is disturbed.
LEMMA MovedKeeps ==
    ASSUME AliasInv, NEW o \in Operators, NEW role \in Aliases!Roles, NEW version \in Versions,
           NEW own \in Aliases!Run, RunHolds(own, [live EXCEPT ![role] = version]),
           Aliases!Moved(o, role, version, own),
           UNCHANGED deploys, Aliases!Outage \/ Aliases!Answered
    PROVE  AliasInv'
  <1>1. /\ live' = [live EXCEPT ![role] = version]
        /\ rb' = [p \in Operators |->
                    IF p = o THEN own
                    ELSE [rb[p] EXCEPT !.disturbed =
                            @ \/ (rb[p].pc # "idle" /\ live[role] # version)]]
    BY DEF Aliases!Moved
  <1>2. live \in [Aliases!Roles -> Versions]
    BY DEF AliasInv, LivesTyped
  <1>3. ASSUME NEW p \in Operators PROVE rb'[p] \in Aliases!Run /\ RunHolds(rb'[p], live')
    <2>1. CASE p = o
      BY <1>1, <2>1
    <2>2. CASE p # o
      <3>1. rb'[p] = [rb[p] EXCEPT !.disturbed = @ \/ (rb[p].pc # "idle" /\ live[role] # version)]
        BY <1>1, <2>2
      <3>2. rb[p] \in Aliases!Run /\ RunHolds(rb[p], live)
        BY DEF AliasInv, RunsHold
      <3> QED
        <4>1. PICK y : y = rb'[p]
          OBVIOUS
        <4>2. y \in Aliases!Run /\ RunHolds(y, [live EXCEPT ![role] = version])
          BY <1>2, <3>1, <3>2, <4>1, OthersHold, ZenonT(60)
        <4> QED
          BY <1>1, <4>1, <4>2
    <2> QED
      BY <2>1, <2>2
  <1>4. RunsHold'
    BY <1>1, <1>3 DEF RunsHold
  <1>5. LivesTyped'
    BY <1>1, <1>2, OutageTyped DEF AliasInv, LivesTyped
  <1> QED
    BY <1>4, <1>5 DEF AliasInv

LEMMA UpdateAliasKeeps ==
    ASSUME AliasInv, NEW o \in Operators,
           \/ Aliases!UpdateAlias(o, "executor", "update_orchestrator")
           \/ Aliases!UpdateAlias(o, "orchestrator", "verify_executor")
    PROVE  AliasInv'
  <1>1. rb[o] \in Aliases!Run /\ RunHolds(rb[o], live)
    BY DEF AliasInv, RunsHold
  <1>2. PICK role \in Aliases!Roles :
          /\ Aliases!UpdateAlias(o, role, IF role = "executor" THEN "update_orchestrator"
                                          ELSE "verify_executor")
          /\ rb[o].pc = (IF role = "executor" THEN "update_executor" ELSE "update_orchestrator")
    BY DEF Aliases!Roles, Aliases!UpdateAlias, Aliases!UpdatePc
  <1> DEFINE next == IF role = "executor" THEN "update_orchestrator" ELSE "verify_executor"
             target == rb[o].target[role]
  <1>3. live \in [Aliases!Roles -> Versions] /\ target \in Versions
        /\ rb[o].target \in [Aliases!Roles -> Versions]
    BY <1>1 DEF AliasInv, LivesTyped, Aliases!Run
  <1>4. rb[o].plan[role].target = target
    BY <1>1, <1>2 DEF RunHolds, Aliases!Roles
  <1>5. UNCHANGED deploys
    BY <1>2 DEF Aliases!UpdateAlias
  <1>6. CASE ~ Aliases!Pending(rb[o].plan, role) /\ Aliases!To(o, next) /\ Aliases!Answered
             /\ UNCHANGED live
    <2> DEFINE x == [rb[o] EXCEPT !.pc = next]
    <2>1. rb' = [rb EXCEPT ![o] = x]
      BY <1>6 DEF Aliases!To
    <2>2. rb[o].plan[role].current = target
      BY <1>4, <1>6 DEF Aliases!Pending
    <2>3. /\ x \in Aliases!Run /\ x.pc = next /\ x.plan = rb[o].plan /\ x.target = rb[o].target
          /\ x.updated = rb[o].updated /\ x.disturbed = rb[o].disturbed
          /\ x.reviewed = rb[o].reviewed
      BY <1>1 DEF Aliases!Run
    <2> HIDE DEF x
    <2>4. RunHolds(x, live)
      BY <1>1, <1>2, <2>2, <2>3 DEF RunHolds, Aliases!Roles
    <2> QED
      BY <1>5, <1>6, <2>1, <2>3, <2>4, RunMoves, OutageTyped
  <1>7. CASE /\ Aliases!Answered
             /\ Aliases!Moved(o, role, rb[o].target[role],
                              [rb[o] EXCEPT !.pc = next, !.updated = @ \cup {role}])
    <2> DEFINE x == [rb[o] EXCEPT !.pc = next, !.updated = @ \cup {role}]
               l == [live EXCEPT ![role] = target]
    <2>1. /\ x \in Aliases!Run /\ x.pc = next /\ x.plan = rb[o].plan /\ x.target = rb[o].target
          /\ x.disturbed = rb[o].disturbed /\ x.reviewed = rb[o].reviewed
      BY <1>1 DEF Aliases!Run
    <2>2. l[role] = target /\ \A r \in Aliases!Roles \ {role} : l[r] = live[r]
      BY <1>3
    <2>3. Aliases!Moved(o, role, target, x)
      BY <1>7
    <2> HIDE DEF x, l
    <2>4. RunHolds(x, l)
      BY <1>1, <1>2, <2>1, <2>2 DEF RunHolds, Aliases!Roles
    <2> HIDE DEF target
    <2> QED
      BY <1>3, <1>5, <1>7, <2>1, <2>3, <2>4, MovedKeeps DEF l
  <1>8. CASE Aliases!End(o, "PARTIAL") /\ Aliases!Outage /\ UNCHANGED live
    BY <1>2, <1>5, <1>8, RunEnds
  <1>9. CASE /\ Aliases!Outage
             /\ Aliases!Moved(o, role, rb[o].target[role],
                              Aliases!IdleRun(rb[o].target, <<>>, "PARTIAL"))
    <2> DEFINE x == Aliases!IdleRun(rb[o].target, <<>>, "PARTIAL")
    <2>1. x \in Aliases!Run /\ \A l : RunHolds(x, l)
      BY <1>3, IdleRunHolds
    <2>2. Aliases!Moved(o, role, target, x)
      BY <1>9
    <2> HIDE DEF x, target
    <2> QED
      BY <1>3, <1>5, <1>9, <2>1, <2>2, MovedKeeps
  <1> QED
    BY <1>2, <1>6, <1>7, <1>8, <1>9 DEF Aliases!UpdateAlias

LEMMA VerifyKeeps ==
    ASSUME AliasInv, NEW o \in Operators,
           \/ Aliases!Verify(o, "verify_executor", "executor", "verify_orchestrator")
           \/ Aliases!Verify(o, "verify_orchestrator", "orchestrator", "done")
    PROVE  AliasInv'
  <1>1. rb[o] \in Aliases!Run /\ RunHolds(rb[o], live) /\ rb[o].plan \in Aliases!AliasPlan
    BY DEF AliasInv, RunsHold, Aliases!Run
  <1>2. /\ rb[o].pc \in {"verify_executor", "verify_orchestrator"}
        /\ UNCHANGED <<live, deploys>> /\ (Aliases!Outage \/ Aliases!Answered)
    BY DEF Aliases!Verify
  <1>3. CASE \E status \in {"PASS", "PARTIAL", "BLOCKED"} : Aliases!End(o, status)
    BY <1>2, <1>3, RunEnds
  <1>4. CASE /\ rb[o].pc = "verify_executor"
             /\ rb' = [rb EXCEPT ![o].plan = [rb[o].plan EXCEPT !["executor"] =
                                                Aliases!Target("executor", o)],
                                 ![o].pc = "verify_orchestrator"]
    <2> DEFINE t == Aliases!Target("executor", o)
               k == [rb[o].plan EXCEPT !["executor"] = t]
               x == [rb[o] EXCEPT !.plan = k, !.pc = "verify_orchestrator"]
    <2>1. t \in [current : Versions, target : Versions]
      BY TargetTyped DEF Aliases!Roles
    <2>2. k \in Aliases!AliasPlan
      BY <1>1, <2>1 DEF Aliases!AliasPlan
    <2>3. rb' = [rb EXCEPT ![o] = x]
      BY <1>4
    <2> HIDE DEF k
    <2>4. /\ x \in Aliases!Run /\ x.pc = "verify_orchestrator" /\ x.target = rb[o].target
          /\ x.updated = rb[o].updated /\ x.disturbed = rb[o].disturbed
      BY <1>1, <2>2 DEF Aliases!Run
    <2> HIDE DEF x
    <2>5. RunHolds(x, live)
      BY <1>1, <1>4, <2>4 DEF RunHolds
    <2> QED
      BY <1>2, <2>3, <2>4, <2>5, RunMoves, OutageTyped
  <1> QED
    BY <1>3, <1>4 DEF Aliases!Verify

LEMMA KillKeeps ==
    ASSUME AliasInv, NEW o \in Operators, Aliases!Kill(o) PROVE AliasInv'
  <1> DEFINE x == Aliases!IdleRun(rb[o].target, <<>>, "none")
  <1>1. rb[o].target \in [Aliases!Roles -> Versions]
    BY DEF AliasInv, RunsHold, Aliases!Run
  <1>2. x \in Aliases!Run /\ RunHolds(x, live)
    BY <1>1, IdleRunHolds
  <1>3. rb' = [rb EXCEPT ![o] = x] /\ UNCHANGED <<live, deploys>> /\ Aliases!Outage
    BY DEF Aliases!Kill
  <1> HIDE DEF x
  <1> QED
    BY <1>2, <1>3, RunMoves, OutageTyped

LEMMA DeployKeeps ==
    ASSUME AliasInv, Aliases!Deploy PROVE AliasInv'
  <1>1. PICK role \in Aliases!Roles, v \in Versions :
          /\ v # live[role]
          /\ live' = [live EXCEPT ![role] = v]
          /\ rb' = [p \in Operators |-> [rb[p] EXCEPT !.disturbed = rb[p].pc # "idle"]]
    BY DEF Aliases!Deploy
  <1>2. LivesTyped'
    <2>1. deploys' \in 0..MaxDeploys /\ outages' = outages
      <3>1. /\ deploys \in 0..MaxDeploys /\ deploys < MaxDeploys /\ deploys' = deploys + 1
            /\ outages' = outages /\ MaxDeploys \in Nat
        BY BoundsAssumption DEF AliasInv, LivesTyped, Aliases!Deploy
      <3> QED
        BY <3>1
    <2>2. live' \in [Aliases!Roles -> Versions]
      BY <1>1 DEF AliasInv, LivesTyped
    <2> QED
      BY <2>1, <2>2 DEF AliasInv, LivesTyped
  <1>3. ASSUME NEW p \in Operators PROVE rb'[p] \in Aliases!Run /\ RunHolds(rb'[p], live')
    <2>1. rb[p] \in Aliases!Run /\ RunHolds(rb[p], live)
      BY DEF AliasInv, RunsHold
    <2>2. /\ rb'[p] \in Aliases!Run /\ rb'[p].pc = rb[p].pc /\ rb'[p].plan = rb[p].plan
          /\ rb'[p].reviewed = rb[p].reviewed /\ rb'[p].target = rb[p].target
          /\ rb'[p].updated = rb[p].updated /\ (rb'[p].disturbed <=> rb[p].pc # "idle")
      BY <1>1, <2>1 DEF Aliases!Run
    <2> QED
      BY <2>1, <2>2 DEF RunHolds
  <1>4. RunsHold'
    BY <1>1, <1>3 DEF RunsHold
  <1> QED
    BY <1>2, <1>4 DEF AliasInv

LEMMA AliasesKeep ==
    ASSUME AliasInv, AliasesNext, cast.processes \subseteq Operators PROVE AliasInv'
  <1>1. CASE \E o \in cast.processes : Aliases!Rollback(o)
    <2>1. PICK o \in cast.processes : Aliases!Rollback(o)
      BY <1>1
    <2> QED
      BY <2>1, StartKeeps, ReadAliasKeeps, ConfirmKeeps, UpdateAliasKeeps, VerifyKeeps, KillKeeps
         DEF Aliases!Rollback
  <1> QED
    BY <1>1, DeployKeeps DEF AliasesNext

\* A run other than the one that takes the step keeps its place.
LEMMA OthersStay ==
    ASSUME AliasInv, NEW o \in Operators, Aliases!Rollback(o), NEW p \in Operators, p # o
    PROVE  rb'[p].pc = rb[p].pc
  <1>1. rb \in [Operators -> Aliases!Run]
    BY DEF AliasInv, RunsHold
  <1>2. CASE \E x : rb' = [rb EXCEPT ![o] = x]
    BY <1>1, <1>2
  <1>3. CASE \E role, version, own : Aliases!Moved(o, role, version, own)
    <2>1. PICK role, version, own : Aliases!Moved(o, role, version, own)
      BY <1>3
    <2>2. rb'[p] = [rb[p] EXCEPT !.disturbed = @ \/ (rb[p].pc # "idle" /\ live[role] # version)]
      BY <2>1 DEF Aliases!Moved
    <2> QED
      BY <1>1, <2>2 DEF Aliases!Run
  <1>4. ASSUME NEW role, NEW next, Aliases!UpdateAlias(o, role, next)
        PROVE  \/ \E x : rb' = [rb EXCEPT ![o] = x]
               \/ \E r, version, own : Aliases!Moved(o, r, version, own)
    BY <1>4 DEF Aliases!UpdateAlias, Aliases!To, Aliases!End
  <1>5. ASSUME ~ Aliases!UpdateAlias(o, "executor", "update_orchestrator"),
               ~ Aliases!UpdateAlias(o, "orchestrator", "verify_executor")
        PROVE  \E x : rb' = [rb EXCEPT ![o] = x]
    <2>1. ASSUME NEW status, Aliases!End(o, status) PROVE \E x : rb' = [rb EXCEPT ![o] = x]
      BY <2>1 DEF Aliases!End
    <2>2. ASSUME NEW execute, Aliases!Start(o, execute) PROVE \E x : rb' = [rb EXCEPT ![o] = x]
      BY <2>2 DEF Aliases!Start
    <2>3. ASSUME NEW role, NEW next, Aliases!ReadAlias(o, role, next)
          PROVE  \E x : rb' = [rb EXCEPT ![o] = x]
      BY <2>1, <2>3 DEF Aliases!ReadAlias
    <2>4. ASSUME Aliases!Confirm(o) PROVE \E x : rb' = [rb EXCEPT ![o] = x]
      BY <2>1, <2>4 DEF Aliases!Confirm, Aliases!To
    <2>5. ASSUME NEW pc, NEW role, NEW next, Aliases!Verify(o, pc, role, next)
          PROVE  \E x : rb' = [rb EXCEPT ![o] = x]
      <3>1. \/ \E status : Aliases!End(o, status)
            \/ \E k : rb' = [rb EXCEPT ![o].plan = k, ![o].pc = next]
        BY <2>5 DEF Aliases!Verify
      <3> QED
        BY <2>1, <3>1
    <2>6. ASSUME Aliases!Kill(o) PROVE \E x : rb' = [rb EXCEPT ![o] = x]
      BY <2>6 DEF Aliases!Kill
    <2> QED
      BY <1>5, <2>2, <2>3, <2>4, <2>5, <2>6 DEF Aliases!Rollback
  <1> QED
    BY <1>2, <1>3, <1>4, <1>5

LEMMA UpdatesReviewed ==
    ASSUME AliasInv, NEW o \in Operators, Aliases!Rollback(o), NEW role \in Aliases!Roles,
           live'[role] # live[role], rb[o].pc = Aliases!UpdatePc[role]
    PROVE  /\ live'[role] = rb[o].reviewed[role].target
           /\ rb[o].disturbed \/ live[role] = rb[o].reviewed[role].current
  <1>1. RunHolds(rb[o], live) /\ rb[o].pc \in {"update_executor", "update_orchestrator"}
        /\ live \in [Aliases!Roles -> Versions]
    BY DEF AliasInv, RunsHold, LivesTyped, Aliases!UpdatePc, Aliases!Roles
  <1>2. live'[role] = rb[o].target[role]
    <2>1. \E next : Aliases!UpdateAlias(o, role, next)
      <3>1. live' # live
        OBVIOUS
      <3>2. \/ Aliases!UpdateAlias(o, "executor", "update_orchestrator")
            \/ Aliases!UpdateAlias(o, "orchestrator", "verify_executor")
        BY <3>1 DEF Aliases!Rollback, Aliases!Start, Aliases!ReadAlias, Aliases!Confirm,
                    Aliases!Verify, Aliases!Kill
      <3>3. ASSUME NEW r \in Aliases!Roles, NEW next, Aliases!UpdateAlias(o, r, next) PROVE r = role
        <4>1. rb[o].pc = Aliases!UpdatePc[r]
          BY <3>3 DEF Aliases!UpdateAlias
        <4> QED
          BY <4>1 DEF Aliases!UpdatePc, Aliases!Roles
      <3> QED
        BY <3>2, <3>3 DEF Aliases!Roles
    <2>2. \E own : Aliases!Moved(o, role, rb[o].target[role], own)
      BY <2>1 DEF Aliases!UpdateAlias
    <2> QED
      BY <1>1, <2>2 DEF Aliases!Moved
  <1> QED
    BY <1>1, <1>2 DEF RunHolds, Aliases!Roles, Aliases!UpdatePc

\* A run that ends with PASS after updates, or is BLOCKED after one, read both aliases.
LEMMA OutcomeTold ==
    ASSUME AliasInv, NEW o \in Operators, Aliases!Rollback(o), ~rb[o].disturbed,
           \/ Aliases!Ends(o, "PASS") /\ rb[o].execute
           \/ (Aliases!Ends(o, "BLOCKED") \/ Aliases!Ends(o, "FAIL")) /\ rb[o].updated # {}
    PROVE  \A role \in Aliases!Roles : Aliases!AtTarget(role, o)
  <1>1. /\ rb \in [Operators -> Aliases!Run] /\ RunHolds(rb[o], live)
        /\ live \in [Aliases!Roles -> Versions] /\ rb[o].target \in [Aliases!Roles -> Versions]
    BY DEF AliasInv, RunsHold, LivesTyped, Aliases!Run
  <1>2. rb[o].pc # "idle" /\ rb'[o].pc = "idle" /\ rb'[o].status \in {"PASS", "BLOCKED", "FAIL"}
    BY DEF Aliases!Ends
  <1>3. rb[o].pc \in {"verify_executor", "verify_orchestrator"} /\ UNCHANGED live
    <2>1. ASSUME NEW role \in Aliases!Roles, NEW next \in {"update_orchestrator", "verify_executor"}
          PROVE  ~ Aliases!UpdateAlias(o, role, next)
      <3>1. SUFFICES ASSUME Aliases!UpdateAlias(o, role, next) PROVE FALSE
        OBVIOUS
      <3>2. rb'[o].pc = next \/ rb'[o].status = "PARTIAL"
        <4>1. CASE Aliases!To(o, next)
          BY <1>1, <4>1 DEF Aliases!To, Aliases!Run
        <4>2. CASE Aliases!Moved(o, role, rb[o].target[role],
                                 [rb[o] EXCEPT !.pc = next, !.updated = @ \cup {role}])
          BY <1>1, <4>2 DEF Aliases!Moved, Aliases!Run
        <4>3. CASE Aliases!End(o, "PARTIAL")
          BY <1>1, <4>3 DEF Aliases!End, Aliases!IdleRun
        <4>4. CASE Aliases!Moved(o, role, rb[o].target[role],
                                 Aliases!IdleRun(rb[o].target, <<>>, "PARTIAL"))
          BY <4>4 DEF Aliases!Moved, Aliases!IdleRun
        <4> QED
          BY <3>1, <4>1, <4>2, <4>3, <4>4 DEF Aliases!UpdateAlias
      <3> QED
        BY <1>2, <3>2
    <2>2. ASSUME NEW execute, Aliases!Start(o, execute) PROVE FALSE
      BY <1>2, <2>2 DEF Aliases!Start
    <2>3. ASSUME NEW role, NEW next, Aliases!ReadAlias(o, role, next), role \in Aliases!Roles,
                 next # "idle"
          PROVE  FALSE
      <3>1. rb'[o].status # "PASS" /\ rb[o].updated = {} /\ rb'[o].status # "FAIL"
        BY <1>1, <1>2, <2>3
           DEF Aliases!ReadAlias, Aliases!End, Aliases!IdleRun, Aliases!Run, RunHolds, Aliases!Roles
      <3> QED
        BY <3>1 DEF Aliases!Ends
    <2>4. ASSUME Aliases!Confirm(o) PROVE FALSE
      <3>1. rb[o].updated = {} /\ (rb[o].execute => rb'[o].status # "PASS")
        BY <1>1, <1>2, <2>4
           DEF Aliases!Confirm, Aliases!End, Aliases!To, Aliases!IdleRun, Aliases!Run, RunHolds
      <3> QED
        BY <3>1 DEF Aliases!Ends
    <2>5. ASSUME Aliases!Kill(o) PROVE FALSE
      BY <1>1, <1>2, <2>5 DEF Aliases!Kill, Aliases!IdleRun
    <2>6. \/ Aliases!Verify(o, "verify_executor", "executor", "verify_orchestrator")
          \/ Aliases!Verify(o, "verify_orchestrator", "orchestrator", "done")
      BY <2>1, <2>2, <2>3, <2>4, <2>5 DEF Aliases!Rollback, Aliases!Roles
    <2> QED
      BY <2>6 DEF Aliases!Verify
  <1> QED
    BY <1>1, <1>3 DEF RunHolds, Aliases!AtTarget, Aliases!Roles

LEMMA RollbackTold ==
    ASSUME AliasInv, AliasesNext, cast.processes \subseteq Operators
    PROVE  Aliases!TypeOK /\ Aliases!UpdatesAreReviewed /\ Aliases!OutcomeIsTold
  <1>1. Aliases!TypeOK
    BY DEF AliasInv, LivesTyped, RunsHold, Aliases!TypeOK, Aliases!Run
  <1>2. CASE \E q \in cast.processes : Aliases!Rollback(q)
    <2>1. PICK q \in Operators : Aliases!Rollback(q)
      BY <1>2
    <2>2. \A p \in Operators : p # q => rb'[p].pc = rb[p].pc
      BY <2>1, OthersStay
    <2>3. Aliases!UpdatesAreReviewed
      BY <2>1, <2>2, UpdatesReviewed DEF Aliases!UpdatesAreReviewed
    <2>4. Aliases!OutcomeIsTold
      <3>1. SUFFICES ASSUME NEW o \in Operators, ~rb[o].disturbed,
                       \/ Aliases!Ends(o, "PASS") /\ rb[o].execute
                       \/ (Aliases!Ends(o, "BLOCKED") \/ Aliases!Ends(o, "FAIL"))
                            /\ rb[o].updated # {}
                     PROVE  \A role \in Aliases!Roles : Aliases!AtTarget(role, o)
        BY DEF Aliases!OutcomeIsTold
      <3>2. o = q
        BY <2>2, <3>1 DEF Aliases!Ends
      <3> QED
        BY <2>1, <3>1, <3>2, OutcomeTold
    <2> QED
      BY <1>1, <2>3, <2>4
  <1>3. CASE Aliases!Deploy
    <2>1. \A p \in Operators : rb'[p].pc = rb[p].pc
      BY <1>3 DEF AliasInv, RunsHold, Aliases!Deploy, Aliases!Run
    <2>2. Aliases!UpdatesAreReviewed
      BY <2>1 DEF Aliases!UpdatesAreReviewed
    <2>3. Aliases!OutcomeIsTold
      BY <2>1 DEF Aliases!OutcomeIsTold, Aliases!Ends
    <2> QED
      BY <1>1, <2>2, <2>3
  <1> QED
    BY <1>2, <1>3 DEF AliasesNext

-----------------------------------------------------------------------------
(* The cleanup *)

Unmade == NoFile

Deleted(p) == {i \in Clean!IDs : p.items[i] \in Clean!Destructive}

\* The action a plan gives a resource, as the record of it is read.
LEMMA DestroyedIsOwned ==
    ASSUME NEW obs, NEW state, NEW i \in Clean!IDs,
           Clean!CleanupAction(obs, state, i) \in Clean!Destructive
    PROVE  obs[i].there /\ obs[i].owned /\ i \in Expected \ Retained
  <1> DEFINE named == Clean!Named(obs, i)
             proven == Clean!ownership_proven(obs, i)
  <1>1. named /\ proven /\ i \notin Retained
        /\ obs[i].attempt # "PREVIOUSLY_CONFIRMED_ABSENT"
    BY DEF Clean!CleanupAction, Clean!Destructive
  <1> QED
    BY <1>1 DEF Clean!Named, Clean!ownership_proven

StackTyped == stack \in [Clean!IDs -> Clean!Resource]
\* A plan deletes nothing foreign or retained; what is authorised is an approved plan
\* that is ready, under a nonce not yet used.
PlanHolds == plan # Unmade => Deleted(plan) \subseteq Expected \ Retained
EnvelopeHolds ==
    envelope # Unmade =>
        /\ Deleted(envelope.plan) \subseteq Expected \ Retained
        /\ envelope.plan.status = "READY_FOR_OPERATOR_REVIEW"
        /\ approval # Unmade /\ approval.plan = envelope.plan
        /\ envelope.nonce \notin consumed
\* Until the stack has changed, the plan in force deletes nothing that is not owned.
FitsStack ==
    ~stale =>
        IF envelope # Unmade THEN \A i \in Deleted(envelope.plan) : stack[i].owned
        ELSE plan # Unmade => \A i \in Deleted(plan) : stack[i].owned

CleanInv == StackTyped /\ PlanHolds /\ EnvelopeHolds /\ FitsStack

LEMMA CleanInit ==
    ASSUME Clean!CleanupInit PROVE CleanInv
  <1>1. StackTyped
    BY DEF Clean!CleanupInit, StackTyped, Clean!Resource, Clean!CleanupAttemptState
  <1>2. plan = Unmade /\ envelope = Unmade
    BY DEF Clean!CleanupInit, Unmade
  <1> QED
    BY <1>1, <1>2 DEF CleanInv, PlanHolds, EnvelopeHolds, FitsStack

LEMMA PlanKeeps ==
    ASSUME CleanInv, NEW state, Clean!plan_cleanup(state)
    PROVE  /\ CleanInv'
           /\ \A i \in Deleted(plan') : observed[i].there /\ observed[i].owned
                                        /\ i \in Expected \ Retained
  <1>1. /\ plan' = [items |-> Clean!Items(observed, state), state |-> state,
                    status |-> Clean!CleanupPlanStatus(Clean!Items(observed, state))]
        /\ stale' = (IF envelope = Unmade THEN observed # stack ELSE stale)
        /\ UNCHANGED <<stack, observed, approval, envelope, consumed, age, drifts>>
    BY DEF Clean!plan_cleanup, Unmade
  <1>2. ASSUME NEW i \in Deleted(plan')
        PROVE  observed[i].there /\ observed[i].owned /\ i \in Expected \ Retained
    <2>1. i \in Clean!IDs /\ Clean!CleanupAction(observed, state, i) \in Clean!Destructive
      BY <1>1 DEF Deleted, Clean!Items
    <2> QED
      BY <2>1, DestroyedIsOwned
  <1>3. StackTyped' /\ EnvelopeHolds'
    BY <1>1 DEF CleanInv, StackTyped, EnvelopeHolds, Deleted, Unmade
  <1>4. PlanHolds'
    BY <1>2 DEF PlanHolds, Deleted
  <1>5. FitsStack'
    <2>1. CASE envelope = Unmade
      <3>1. stale' <=> observed # stack
        BY <1>1, <2>1
      <3>2. \A i \in Deleted(plan') : ~stale' => stack'[i].owned
        BY <1>1, <1>2, <3>1
      <3> QED
        BY <1>1, <2>1, <3>2 DEF FitsStack, Deleted, Unmade
    <2>2. CASE envelope # Unmade
      <3>1. stale' = stale /\ envelope' # Unmade
        BY <1>1, <2>2
      <3> QED
        BY <1>1, <2>2, <3>1 DEF CleanInv, FitsStack, Deleted, Unmade
    <2> QED
      BY <2>1, <2>2
  <1> QED
    BY <1>2, <1>3, <1>4, <1>5 DEF CleanInv

LEMMA ApproveKeeps ==
    ASSUME CleanInv, NEW nonce, Clean!Approve(nonce) PROVE CleanInv'
  <1>1. approval = Unmade /\ UNCHANGED <<stack, observed, plan, envelope, consumed, stale>>
    BY DEF Clean!Approve, Unmade
  <1>2. envelope = Unmade
    BY <1>1 DEF CleanInv, EnvelopeHolds
  <1> QED
    BY <1>1, <1>2 DEF CleanInv, StackTyped, PlanHolds, EnvelopeHolds, FitsStack, Deleted, Unmade

LEMMA AuthorizeKeeps ==
    ASSUME CleanInv, Clean!authorize_cleanup_plan PROVE CleanInv'
  <1>1. /\ plan # Unmade /\ approval # Unmade /\ envelope = Unmade
        /\ plan.status = "READY_FOR_OPERATOR_REVIEW" /\ approval.plan = plan
        /\ approval.nonce \notin consumed
        /\ UNCHANGED <<stack, observed, plan, approval, consumed, stale>>
    BY DEF Clean!authorize_cleanup_plan, Clean!Authorizable, Unmade
  <1>2. envelope'.plan = plan /\ envelope'.nonce = approval.nonce
    BY DEF Clean!authorize_cleanup_plan
  <1>3. StackTyped' /\ PlanHolds'
    BY <1>1 DEF CleanInv, StackTyped, PlanHolds, Deleted, Unmade
  <1>4. EnvelopeHolds'
    BY <1>1, <1>2 DEF CleanInv, PlanHolds, EnvelopeHolds, Deleted, Unmade
  <1>5. FitsStack'
    BY <1>1, <1>2 DEF CleanInv, FitsStack, Deleted, Unmade
  <1> QED
    BY <1>3, <1>4, <1>5 DEF CleanInv

\* The stack keeps its type, and loses only what the plan in force deletes.
LEMMA DeleteKeeps ==
    ASSUME CleanInv, Clean!Delete
    PROVE  /\ CleanInv' /\ envelope # Unmade
           /\ \A i \in Clean!IDs : stack[i].there /\ ~stack'[i].there => i \in Deleted(envelope.plan)
  <1>1. PICK gone \in SUBSET Clean!IDs :
          stack' = [i \in Clean!IDs |-> Clean!Remains(i, gone)]
    BY DEF Clean!Delete
  <1>2. envelope # Unmade /\ envelope' = Unmade /\ stale' = TRUE /\ plan' = plan
    BY DEF Clean!Delete, Unmade
  <1>3. StackTyped'
    <2>1. ASSUME NEW i \in Clean!IDs PROVE stack'[i] \in Clean!Resource
      <3>1. stack[i] \in Clean!Resource
        BY DEF CleanInv, StackTyped
      <3> QED
        <4>1. Clean!Remains(i, gone) \in Clean!Resource
          BY <3>1 DEF Clean!Remains, Clean!Resource, Clean!CleanupAttemptState
        <4> QED
          BY <1>1, <4>1
    <2> QED
      BY <1>1, <2>1 DEF StackTyped
  <1>4. PlanHolds' /\ EnvelopeHolds' /\ FitsStack'
    BY <1>2 DEF CleanInv, PlanHolds, EnvelopeHolds, FitsStack, Deleted, Unmade
  <1>5. ASSUME NEW i \in Clean!IDs, i \notin Deleted(envelope.plan) PROVE stack'[i] = stack[i]
    <2>1. stack'[i] = Clean!Remains(i, gone)
      BY <1>1
    <2>2. envelope.plan.items[i] \notin Clean!Destructive
      BY <1>5 DEF Deleted
    <2> QED
      BY <2>1, <2>2 DEF Clean!Remains
  <1> QED
    BY <1>2, <1>3, <1>4, <1>5 DEF CleanInv

LEMMA DriftKeeps ==
    ASSUME CleanInv, Clean!Drift
    PROVE  CleanInv' /\ \A i \in Clean!IDs : stack[i].there => stack'[i].there
  <1>1. PICK i \in Clean!IDs : stack' = [stack EXCEPT ![i] = [there |-> TRUE, owned |-> FALSE,
                                                             attempt |-> "NEVER_ATTEMPTED"]]
    BY DEF Clean!Drift
  <1>2. StackTyped'
    BY <1>1 DEF CleanInv, StackTyped, Clean!Resource, Clean!CleanupAttemptState
  <1>3. stale' = TRUE /\ UNCHANGED <<plan, approval, envelope, consumed>>
    BY DEF Clean!Drift
  <1>4. PlanHolds' /\ EnvelopeHolds' /\ FitsStack'
    BY <1>3 DEF CleanInv, PlanHolds, EnvelopeHolds, FitsStack, Deleted, Unmade
  <1>5. \A j \in Clean!IDs : stack[j].there => stack'[j].there
    BY <1>1 DEF CleanInv, StackTyped
  <1> QED
    BY <1>2, <1>4, <1>5 DEF CleanInv

LEMMA CleanUnchanged ==
    ASSUME CleanInv, UNCHANGED <<stack, plan, approval, envelope, consumed, stale>>
    PROVE  CleanInv'
  BY DEF CleanInv, StackTyped, PlanHolds, EnvelopeHolds, FitsStack, Deleted, Unmade

LEMMA CleanKeeps ==
    ASSUME CleanInv, Clean!CleanupNext PROVE CleanInv'
  <1>1. CASE Clean!Observe \/ Clean!Tick
    BY <1>1, CleanUnchanged DEF Clean!Observe, Clean!Tick
  <1> QED
    BY <1>1, PlanKeeps, ApproveKeeps, AuthorizeKeeps, DeleteKeeps, DriftKeeps DEF Clean!CleanupNext

LEMMA CleanupTold ==
    ASSUME CleanInv, Clean!CleanupNext
    PROVE  Clean!AuthorizedPlanIsOwned /\ Clean!DeletionIsOwned /\ Clean!CleanupEnds
  <1>1. Clean!AuthorizedPlanIsOwned
    BY DEF CleanInv, EnvelopeHolds, Deleted, Unmade, Clean!AuthorizedPlanIsOwned
  <1>2. Clean!DeletionIsOwned
    <2>1. CASE Clean!Delete
      <3>1. ASSUME NEW i \in Clean!IDs, stack[i].there, ~stack'[i].there
            PROVE  (stale \/ stack[i].owned) /\ i \in Expected \ Retained
        <4>1. i \in Deleted(envelope.plan) /\ envelope # Unmade
          BY <2>1, <3>1, DeleteKeeps
        <4> QED
          BY <4>1 DEF CleanInv, EnvelopeHolds, FitsStack
      <3>2. envelope # Unmade => envelope.nonce \notin consumed
        BY DEF CleanInv, EnvelopeHolds
      <3> QED
        BY <3>1, <3>2 DEF Clean!DeletionIsOwned, Unmade
    <2>2. CASE Clean!Drift
      <3>1. \A i \in Clean!IDs : stack[i].there => stack'[i].there
        BY <2>2, DriftKeeps
      <3>2. envelope' = envelope
        BY <2>2 DEF Clean!Drift
      <3> QED
        BY <3>1, <3>2 DEF Clean!DeletionIsOwned
    <2>3. CASE ~ Clean!Delete /\ ~ Clean!Drift
      <3>1. stack' = stack /\ (envelope' = envelope \/ envelope = Unmade)
        BY <2>3 DEF Clean!CleanupNext, Clean!plan_cleanup, Clean!Approve,
                    Clean!authorize_cleanup_plan, Clean!Observe, Clean!Tick, Unmade
      <3> QED
        BY <3>1 DEF Clean!DeletionIsOwned, Unmade
    <2> QED
      BY <2>1, <2>2, <2>3
  <1>3. Clean!CleanupEnds
    <2>1. SUFFICES ASSUME plan' # plan, \A i \in Expected \ Retained : ~observed[i].there
                   PROVE  Clean!Actions(plan'.items) \cap Clean!Destructive = {}
      BY DEF Clean!CleanupEnds
    <2>2. PICK state : Clean!plan_cleanup(state)
      BY <2>1 DEF Clean!CleanupNext, Clean!Approve, Clean!authorize_cleanup_plan, Clean!Observe,
                  Clean!Delete, Clean!Drift, Clean!Tick
    <2>3. Deleted(plan') = {}
      BY <2>1, <2>2, PlanKeeps
    <2> QED
      BY <2>3 DEF Deleted, Clean!Actions
  <1> QED
    BY <1>1, <1>2, <1>3

LEMMA AliasUnchanged == ASSUME AliasInv, UNCHANGED aliases PROVE AliasInv'
  BY DEF AliasInv, LivesTyped, RunsHold, aliases

\* alias_rollback.py and cleanup.py: for any operators, versions, failing calls and
\* deployments, an alias is moved only as its operator reviewed it and, nobody else moving
\* one, the outcome told is the one there is; for any drift of the stack, what is authorised
\* is an approved plan that deletes nothing foreign or retained, once for one nonce.
THEOREM RollbackIsTrue == Spec => RollbackIsTold
  <1> DEFINE Inv == cast \in Casts /\ AliasInv /\ CleanInv
             Told == /\ cast.tool = "rollback" =>
                          Aliases!TypeOK /\ Aliases!UpdatesAreReviewed /\ Aliases!OutcomeIsTold
                     /\ cast.tool = "cleanup" =>
                          Clean!AuthorizedPlanIsOwned /\ Clean!DeletionIsOwned /\ Clean!CleanupEnds
             all == <<bootstrap, preflight, chain, evidence, aliases, gating, cleanup,
                      attesting, cast>>
  <1>1. Init => Inv
    BY AliasInit, CleanInit DEF Init
  <1>2. Inv /\ [Next]_all => Inv'
    <2>1. SUFFICES ASSUME Inv, [Next]_all PROVE Inv'
      OBVIOUS
    <2>2. cast.tool = "rollback" => cast.processes \subseteq Operators
      BY <2>1, CastsKnown
    <2>3. cast' = cast
      BY <2>1 DEF Next
    <2>4. AliasInv'
      BY <2>1, <2>2, AliasesKeep, AliasUnchanged DEF Next
    <2>5. CleanInv'
      <3>1. UNCHANGED cleanup => CleanInv'
        BY <2>1, CleanUnchanged DEF cleanup
      <3> QED
        BY <2>1, <3>1, CleanKeeps DEF Next
    <2> QED
      BY <2>1, <2>3, <2>4, <2>5
  <1>3. Inv /\ [Next]_all => [Told]_<<aliases, cleanup, attesting>>
    <2>1. SUFFICES ASSUME Inv, Next, ~ UNCHANGED <<aliases, cleanup, attesting>> PROVE Told
      OBVIOUS
    <2>2. cast.tool = "rollback" => cast.processes \subseteq Operators
      BY <2>1, CastsKnown
    <2>3. cast.tool = "rollback" => AliasesNext
      BY <2>1 DEF Next
    <2>4. cast.tool = "cleanup" => Clean!CleanupNext
      BY <2>1 DEF Next
    <2> QED
      BY <2>1, <2>2, <2>3, <2>4, RollbackTold, CleanupTold
  <1> QED
    BY <1>1, <1>2, <1>3, PTL DEF Spec, RollbackIsTold
-----------------------------------------------------------------------------
(* The authority bootstrap. *)

\* A run holds the lock of the file it opened; it may have written to it; and where
\* bytes of it may be in a file at all.
Locked == {"compare", "append", "sync", "rollback", "truncate"}
Writing == Locked \ {"compare"}
Written == Writing \cup {"verify", "pass", "report"}
Proving == {"reread", "open", "lock", "verify"} \cup Locked
RunProcess ==
    [pc : {"idle", "preserve", "begin", "guard", "read", "identify", "assume", "pass", "report"}
           \cup Proving,
     st : Bootstrap!State, source : Bootstrap!Profiles, fd : Nat,
     original : Seq(Bootstrap!Block), written : 0..2]
RunResult == [status : {"PASS", "BLOCKED", "FAIL", "killed"}, alias_created : BOOLEAN,
              valid : BOOLEAN]

\* What a run has established at each point.
Blank(s) ==
    /\ ~s.ambiguous /\ ~s.assumed /\ ~s.temporary_verified /\ ~s.exact_role
    /\ ~s.alias_created /\ ~s.alias_reverified /\ s.status = "BLOCKED" /\ s.reasons
Proved(s) ==
    /\ ~s.ambiguous /\ s.selected /\ s.source_verified /\ s.exact_role
    /\ s.api_operations \in {1, 3} /\ (s.assumed <=> s.api_operations = 3)
    /\ s.temporary_verified <=> s.assumed
\* What the validators ask of any receipt, however the run ends.
Consistent(s) ==
    /\ s.ambiguous => ~s.selected
    /\ s.source_verified => s.selected /\ s.api_operations > 0
    /\ s.assumed <=> s.api_operations > 1
    /\ s.temporary_verified => s.assumed /\ s.api_operations = 3
    /\ s.exact_role => s.source_verified /\ (s.assumed => s.temporary_verified)
    /\ s.alias_reverified => s.exact_role /\ s.api_operations \in {1, 3}
    /\ s.alias_created => s.exact_role
Stage(x) ==
    /\ x.pc \in {"preserve", "begin", "guard"} =>
         Blank(x.st) /\ ~x.st.selected /\ ~x.st.source_verified /\ x.st.api_operations = 0
    /\ x.pc \in {"read", "identify"} =>
         Blank(x.st) /\ x.st.selected /\ ~x.st.source_verified /\ x.st.api_operations = 0
    /\ x.pc = "assume" =>
         Blank(x.st) /\ x.st.selected /\ x.st.source_verified /\ x.st.api_operations = 1
    /\ x.pc \in Proving =>
         /\ Proved(x.st) /\ ~x.st.alias_reverified /\ x.st.status = "BLOCKED" /\ x.st.reasons
         /\ x.st.alias_created <=> x.pc = "verify"
    /\ x.pc = "pass" =>
         Proved(x.st) /\ x.st.alias_reverified /\ x.st.status = "PASS" /\ ~x.st.reasons
    /\ x.pc = "report" =>
         Consistent(x.st) /\ x.st.status # "PASS" /\ x.st.reasons

NoHead(c) == \A k \in 1..Len(c) : c[k].kind # "head"
OneHead(c) == \A j, k \in 1..Len(c) : c[j].kind = "head" /\ c[k].kind = "head" => j = k
NotBy(c, r) == \A k \in 1..Len(c) : c[k].by # r
Begins(c, o) == Len(o) <= Len(c) /\ \A k \in 1..Len(o) : c[k] = o[k]

\* The bytes a run compares with hold no alias, and none of its own; once it writes,
\* the file it writes to begins with them.
Original(x) ==
    /\ x.pc \in {"open", "lock"} \cup Locked => NoHead(x.original)
    /\ x.pc \in {"identify", "assume"} \cup Proving => NotBy(x.original, x.st.run)
    /\ x.pc \in {"lock", "compare"} => x.written = 0
    /\ x.pc \in Writing => Begins(file[x.fd], x.original)
    /\ x.pc = "append" => x.written < 2 /\ (x.written = 0 => NoHead(file[x.fd]))
\* Before it writes no file holds bytes of it.
Unwritten(x) ==
    x.pc \notin Written \cup {"idle"} \/ (x.pc = "append" /\ x.written = 0) =>
        \A i \in 1..Len(file) : NotBy(file[i], x.st.run)
Unfinished(x) ==
    x.pc # "idle" => /\ x.st.run <= Len(results)
                     /\ results[x.st.run].status = "BLOCKED"
                     /\ ~results[x.st.run].alias_created
BootHolds(x, p) ==
    /\ x \in RunProcess /\ x.fd \in 1..Len(file)
    /\ Stage(x) /\ Original(x) /\ Unwritten(x) /\ Unfinished(x)
    /\ x.pc \in Locked => lock[x.fd] = p

FilesShaped ==
    /\ file \in Seq(Seq(Bootstrap!Block)) /\ Len(file) > 0 /\ config \in 1..Len(file)
    /\ lock \in Seq(Operators \cup {Nobody}) /\ Len(lock) = Len(file)
    /\ \A i \in 1..Len(file) : OneHead(file[i])
ResultsShaped ==
    /\ results \in Seq(RunResult) /\ Len(results) <= MaxRuns
    /\ \A r \in 1..Len(results) : results[r].valid
    /\ receipt \in Bootstrap!State \cup {Bootstrap!NoReceipt}
    /\ receipt # Bootstrap!NoReceipt => receipt.run <= Len(results)
    /\ backups \subseteq Bootstrap!State
    /\ edits \in 0..MaxEdits /\ faults \in Nat
BootsHold ==
    /\ DOMAIN op = Operators /\ \A p \in Operators : BootHolds(op[p], p)
    /\ \A p, q \in Operators :
         op[p].pc # "idle" /\ op[q].pc # "idle" /\ op[p].st.run = op[q].st.run => p = q

\* Whoever left bytes in the first file was killed, has said so, or is about to.
Leaving(x) == x.st.alias_created \/ (x.pc \in Writing /\ x.fd = 1 /\ x.written > 0)
Told(r) ==
    \/ results[r].status = "killed" \/ results[r].alias_created
    \/ \E p \in Operators : op[p].pc # "idle" /\ op[p].st.run = r /\ Leaving(op[p])
LeftoversTold ==
    \A r \in 1..MaxRuns :
        /\ r > Len(results) => \A i \in 1..Len(file) : NotBy(file[i], r)
        /\ Told(r) \/ NotBy(file[1], r)

\* A PASS receipt of a run that did not return PASS will be replaced, but for a
\* second fault.
PassReceiptHolds ==
    receipt # Bootstrap!NoReceipt /\ receipt.status = "PASS" =>
        \/ results[receipt.run].status \in {"PASS", "killed"}
        \/ faults > 1
        \/ faults > 0 /\ \E p \in Operators : op[p].pc = "report" /\ op[p].st.run = receipt.run

\* One operator at a time has the last PASS on disk until it has preserved it.
PassesKept ==
    \A r \in 1..Len(results) :
        results[r].status = "PASS" =>
            \/ \E s \in backups : s.run = r
            \/ receipt.run = r /\ \A q \in Operators : op[q].pc \in {"idle", "preserve"}
OneAtATime ==
    Cardinality(cast.processes) = 1 =>
        /\ PassesKept
        /\ \A q \in Operators \ cast.processes : op[q].pc = "idle"

BootInv == FilesShaped /\ ResultsShaped /\ BootsHold /\ LeftoversTold /\ PassReceiptHolds

\* What a step of one run leaves to the others.
OtherLocks(p) ==
    /\ lock' \in Seq(Operators \cup {Nobody}) /\ Len(lock') = Len(lock)
    /\ \A i \in 1..Len(lock), q \in Operators : q # p /\ lock[i] = q => lock'[i] = q
ReceiptStep(x) ==
    \/ receipt' = receipt
    \/ /\ receipt' \in Bootstrap!State /\ receipt'.run = x.st.run
       /\ receipt'.status = "PASS" => faults' > 0 /\ x.pc = "report"
Quiet(p, x) ==
    /\ UNCHANGED <<file, config, results, edits>> /\ OtherLocks(p)
    /\ faults' \in {faults, faults + 1} /\ backups' \subseteq Bootstrap!State
    /\ ReceiptStep(x)
Sound(p, x) ==
    /\ x \in RunProcess /\ x.fd \in 1..Len(file)
    /\ Stage(x) /\ Original(x) /\ Unwritten(x)
    /\ x.pc \in Locked => lock'[x.fd] = p
    /\ Leaving(op[p]) => Leaving(x)

LEMMA SelectionKnown ==
    ASSUME NEW explicit \in SUBSET Bootstrap!Profiles, NEW profiles \in SUBSET Bootstrap!Profiles
    PROVE  LET choice == Bootstrap!select_source_profile(explicit, profiles)
           IN choice.source \subseteq Bootstrap!Profiles /\ choice.ambiguous \in BOOLEAN
  <1> DEFINE choice == Bootstrap!select_source_profile(explicit, profiles)
  <1>1. \E b \in BOOLEAN, s \in {{}, explicit, profiles, profiles \ {"deployment"}} :
             choice = [source |-> s, ambiguous |-> b]
    BY DEF Bootstrap!select_source_profile
  <1> HIDE DEF choice
  <1>2. PICK b \in BOOLEAN, s \in {{}, explicit, profiles, profiles \ {"deployment"}} :
             choice = [source |-> s, ambiguous |-> b]
    BY <1>1
  <1>3. choice.source = s /\ choice.ambiguous = b
    BY <1>2, Zenon
  <1>4. choice.source \subseteq Bootstrap!Profiles
    BY <1>3
  <1>5. choice.ambiguous \in BOOLEAN
    BY <1>3, Zenon
  <1> QED
    BY <1>4, <1>5 DEF choice

LEMMA AppendFacts ==
    ASSUME NEW S, NEW c \in Seq(S), NEW b \in S
    PROVE  /\ Append(c, b) \in Seq(S) /\ Len(Append(c, b)) = Len(c) + 1
           /\ Append(c, b)[Len(c) + 1] = b
           /\ \A k \in 1..Len(c) : Append(c, b)[k] = c[k]
  OBVIOUS

LEMMA CutFacts ==
    ASSUME NEW S, NEW c \in Seq(S), NEW n \in 0..Len(c)
    PROVE  /\ SubSeq(c, 1, n) \in Seq(S) /\ Len(SubSeq(c, 1, n)) = n
           /\ \A k \in 1..n : SubSeq(c, 1, n)[k] = c[k]
  OBVIOUS

LEMMA PutFacts ==
    ASSUME NEW S, NEW c \in Seq(S), NEW i \in 1..Len(c), NEW b \in S
    PROVE  /\ [c EXCEPT ![i] = b] \in Seq(S) /\ Len([c EXCEPT ![i] = b]) = Len(c)
           /\ [c EXCEPT ![i] = b][i] = b
           /\ \A k \in 1..Len(c) : k # i => [c EXCEPT ![i] = b][k] = c[k]
  OBVIOUS

\* A step of one run that keeps its own part keeps the invariant.
LEMMA BootMoves ==
    ASSUME BootInv, NEW p \in Operators, op[p].pc \notin {"idle", "report"},
           NEW x, x.pc # "idle", x.st.run = op[p].st.run, op' = [op EXCEPT ![p] = x],
           Quiet(p, x), Sound(p, x)
    PROVE  BootInv'
  <1> USE DEF Quiet, Sound, OtherLocks
  <1>1. FilesShaped'
    BY DEF BootInv, FilesShaped
  <1>2. ResultsShaped'
    <2>1. receipt' = receipt \/ (receipt' \in Bootstrap!State /\ receipt'.run <= Len(results))
      BY DEF BootInv, BootsHold, BootHolds, Unfinished, ReceiptStep
    <2> QED
      BY <2>1 DEF BootInv, ResultsShaped
  <1>3. ASSUME NEW q \in Operators, q # p PROVE BootHolds(op[q], q)'
    <2>1. op'[q] = op[q] /\ BootHolds(op[q], q) /\ op[q].fd \in 1..Len(lock)
      BY <1>3 DEF BootInv, BootsHold, BootHolds, FilesShaped
    <2>2. Original(op[q])' /\ Unwritten(op[q])' /\ Unfinished(op[q])'
      BY <2>1 DEF BootHolds, Original, Unwritten, Unfinished
    <2> QED
      BY <1>3, <2>1, <2>2 DEF BootHolds
  <1>4. BootHolds(op[p], p)'
    BY DEF BootInv, BootsHold, BootHolds, Original, Unwritten, Unfinished
  <1>5. BootsHold'
    BY <1>3, <1>4 DEF BootInv, BootsHold
  <1>6. LeftoversTold'
    <2>1. \A r : Told(r) => Told(r)'
      BY DEF Told, BootInv, BootsHold
    <2> QED
      BY <2>1 DEF BootInv, LeftoversTold
  <1>7. PassReceiptHolds'
    <2>1. CASE receipt' = receipt
      BY <2>1 DEF BootInv, PassReceiptHolds, ResultsShaped, BootsHold
    <2>2. CASE /\ receipt' \in Bootstrap!State /\ receipt'.run = x.st.run
               /\ receipt'.status = "PASS" => faults' > 0 /\ x.pc = "report"
      BY <2>2 DEF BootInv, PassReceiptHolds, BootsHold
    <2> QED
      BY <2>1, <2>2 DEF ReceiptStep
  <1> QED
    BY <1>1, <1>2, <1>5, <1>6, <1>7 DEF BootInv

LEMMA BootKnown ==
    ASSUME BootInv, NEW p \in Operators
    PROVE  /\ op[p] \in RunProcess /\ op[p].st \in Bootstrap!State
           /\ BootHolds(op[p], p) /\ DOMAIN op = Operators
  BY DEF BootInv, BootsHold, BootHolds, RunProcess

LEMMA NothingElse ==
    ASSUME BootInv, NEW p, NEW x,
           UNCHANGED <<file, config, lock, receipt, backups, results, edits, faults>>
    PROVE  Quiet(p, x)
  BY DEF Quiet, OtherLocks, ReceiptStep, BootInv, FilesShaped, ResultsShaped

LEMMA UnlockIsQuiet ==
    ASSUME BootInv, NEW p \in Operators, Bootstrap!Unlock(p) PROVE OtherLocks(p)
  <1>1. op[p].fd \in 1..Len(lock)
    BY BootKnown DEF BootInv, FilesShaped, BootHolds
  <1>2. lock' = [lock EXCEPT ![op[p].fd] = IF lock[op[p].fd] = p THEN Nobody ELSE lock[op[p].fd]]
    BY DEF Bootstrap!Unlock
  <1> QED
    BY <1>1, <1>2 DEF OtherLocks, BootInv, FilesShaped

LEMMA StagesConsistent ==
    ASSUME BootInv, NEW p \in Operators, op[p].pc # "idle" PROVE Consistent(op[p].st)
  BY BootKnown DEF BootHolds, Stage, Consistent, Blank, Proved, Proving, Locked, RunProcess,
                   Bootstrap!State

\* A run that fails goes on to report what it has established so far.
LEMMA BootFails ==
    ASSUME BootInv, NEW p \in Operators, op[p].pc \notin {"idle", "report"},
           NEW s \in Bootstrap!State, s.run = op[p].st.run, Consistent(s),
           NEW status, status = "FAIL" \/ s.status # "PASS",
           Bootstrap!Set(p, "report", Bootstrap!Failed(s, status)),
           Leaving(op[p]) => s.alias_created,
           Quiet(p, [op[p] EXCEPT !.pc = "report", !.st = Bootstrap!Failed(s, status)])
    PROVE  BootInv'
  <1> DEFINE f == Bootstrap!Failed(s, status)
             x == [op[p] EXCEPT !.pc = "report", !.st = f]
  <1>1. /\ f \in Bootstrap!State /\ f.run = s.run /\ f.reasons /\ f.status # "PASS"
        /\ f.alias_created = s.alias_created /\ Consistent(f)
    BY DEF Bootstrap!Failed, Bootstrap!State, Consistent
  <1> HIDE DEF f
  <1>2. op[p] \in RunProcess /\ op[p].fd \in 1..Len(file)
    BY BootKnown DEF BootHolds
  <1>3. /\ x \in RunProcess /\ x.pc = "report" /\ x.st = f /\ x.fd = op[p].fd
        /\ op' = [op EXCEPT ![p] = x]
    BY <1>1, <1>2, BootKnown DEF RunProcess, Bootstrap!Set, f
  <1>4. Quiet(p, x)
    BY DEF f
  <1> HIDE DEF x
  <1>5. Sound(p, x)
    BY <1>1, <1>2, <1>3 DEF Sound, Stage, Original, Unwritten, Locked, Writing, Written, Proving, Leaving
  <1> QED
    BY <1>1, <1>3, <1>4, <1>5, BootMoves

LEMMA BootRaises ==
    ASSUME BootInv, NEW p \in Operators, op[p].pc \notin {"idle", "report"} \cup Writing,
           NEW status, status = "FAIL" \/ op[p].st.status # "PASS", Bootstrap!Raise(p, status),
           UNCHANGED <<file, config, lock, receipt, backups, results, edits, faults>>
    PROVE  BootInv'
  <1>1. op[p].st \in Bootstrap!State /\ Consistent(op[p].st)
    BY BootKnown, StagesConsistent
  <1>2. Leaving(op[p]) => op[p].st.alias_created
    BY DEF Leaving
  <1> QED
    BY <1>1, <1>2, BootFails, NothingElse DEF Bootstrap!Raise

LEMMA GuardKeeps ==
    ASSUME BootInv, NEW p \in Operators, Bootstrap!Guard(p) PROVE BootInv'
  <1>1. op[p].pc = "guard" /\ UNCHANGED <<file, config, lock, receipt, backups, results, edits, faults>>
    BY DEF Bootstrap!Guard, Bootstrap!At, Bootstrap!KeepFiles, Bootstrap!KeepReceipts, Bootstrap!KeepBudgets
  <1>2. /\ op[p] \in RunProcess /\ op[p].st \in Bootstrap!State /\ op[p].fd \in 1..Len(file)
        /\ Stage(op[p]) /\ Original(op[p]) /\ Unwritten(op[p])
        /\ DOMAIN op = Operators /\ Consistent(op[p].st)
    BY <1>1, BootKnown, StagesConsistent DEF BootHolds
  <1>3. CASE Bootstrap!Raise(p, "FAIL")
    BY <1>1, <1>3, BootRaises DEF Writing, Locked
  <1>4. ASSUME NEW a \in BOOLEAN,
               Bootstrap!Set(p, "report",
                             Bootstrap!Failed([op[p].st EXCEPT !.ambiguous = a], "BLOCKED"))
        PROVE  BootInv'
    <2> DEFINE s == [op[p].st EXCEPT !.ambiguous = a]
    <2>1. /\ s \in Bootstrap!State /\ s.run = op[p].st.run /\ Consistent(s) /\ s.status # "PASS"
          /\ s.alias_created = op[p].st.alias_created
      BY <1>1, <1>2 DEF Stage, Blank, Consistent, Bootstrap!State
    <2>2. Leaving(op[p]) => s.alias_created
      BY <1>1, <2>1 DEF Leaving, Writing, Locked
    <2> QED
      BY <1>1, <1>4, <2>1, <2>2, BootFails, NothingElse
  <1>5. ASSUME NEW source \in Bootstrap!Profiles,
               op' = [op EXCEPT ![p].pc = "read", ![p].source = source,
                                ![p].st = [@ EXCEPT !.selected = TRUE]]
        PROVE  BootInv'
    <2> DEFINE s == [op[p].st EXCEPT !.selected = TRUE]
               x == [op[p] EXCEPT !.pc = "read", !.source = source, !.st = s]
    <2>1. /\ s \in Bootstrap!State /\ s.run = op[p].st.run /\ Blank(s) /\ s.selected
          /\ ~s.source_verified /\ s.api_operations = 0
      BY <1>1, <1>2 DEF Stage, Blank, Bootstrap!State
    <2>2. op' = [op EXCEPT ![p] = x]
      BY <1>2, <1>5
    <2> HIDE DEF s
    <2>3. x \in RunProcess /\ x.pc = "read" /\ x.st = s /\ x.fd = op[p].fd
      BY <1>2, <2>1 DEF RunProcess, Proving, Locked
    <2>4. Quiet(p, x)
      BY <1>1, NothingElse
    <2> HIDE DEF x
    <2>5. Sound(p, x)
      BY <1>1, <1>2, <2>1, <2>3
         DEF Sound, Stage, Original, Unwritten, Locked, Writing, Written, Proving, Leaving, Blank
    <2> QED
      BY <1>1, <2>1, <2>2, <2>3, <2>4, <2>5, BootMoves
  <1>6. PICK explicit \in SUBSET Bootstrap!Profiles, profiles \in SUBSET Bootstrap!Profiles :
          LET choice == Bootstrap!select_source_profile(explicit, profiles)
          IN \/ Bootstrap!Raise(p, "FAIL")
             \/ Bootstrap!Set(p, "report",
                    Bootstrap!Failed([op[p].st EXCEPT !.ambiguous = choice.ambiguous], "BLOCKED"))
             \/ \E source \in choice.source :
                  op' = [op EXCEPT ![p].pc = "read", ![p].source = source,
                                   ![p].st = [@ EXCEPT !.selected = TRUE]]
    BY DEF Bootstrap!Guard
  <1> QED
    BY <1>3, <1>4, <1>5, <1>6, SelectionKnown

LEMMA FilesKnown ==
    ASSUME BootInv, NEW i \in 1..Len(file)
    PROVE  file[i] \in Seq(Bootstrap!Block) /\ Len(file[i]) \in Nat /\ OneHead(file[i])
  BY DEF BootInv, FilesShaped

LEMMA ReadConfigKeeps ==
    ASSUME BootInv, NEW p \in Operators, Bootstrap!ReadConfig(p) PROVE BootInv'
  <1>1. op[p].pc = "read" /\ UNCHANGED <<file, config, lock, receipt, backups, results, edits, faults>>
    BY DEF Bootstrap!ReadConfig, Bootstrap!At, Bootstrap!KeepFiles, Bootstrap!KeepReceipts, Bootstrap!KeepBudgets
  <1>2. /\ op[p] \in RunProcess /\ op[p].st \in Bootstrap!State /\ op[p].fd \in 1..Len(file)
        /\ Stage(op[p]) /\ Original(op[p]) /\ Unwritten(op[p]) /\ DOMAIN op = Operators
    BY <1>1, BootKnown DEF BootHolds
  <1>3. CASE Bootstrap!Raise(p, "FAIL")
    BY <1>1, <1>3, BootRaises DEF Writing, Locked
  <1>4. CASE op' = [op EXCEPT ![p].pc = "identify", ![p].original = file[config]]
    <2> DEFINE x == [op[p] EXCEPT !.pc = "identify", !.original = file[config]]
    <2>1. op' = [op EXCEPT ![p] = x]
      BY <1>2, <1>4
    <2>2. file[config] \in Seq(Bootstrap!Block) /\ config \in 1..Len(file)
      BY FilesKnown DEF BootInv, FilesShaped
    <2>3. NotBy(file[config], op[p].st.run)
      BY <1>1, <1>2, <2>2 DEF Unwritten, Written, Writing, Locked
    <2>4. /\ x \in RunProcess /\ x.pc = "identify" /\ x.st = op[p].st /\ x.fd = op[p].fd
          /\ x.original = file[config]
      BY <1>2, <2>2 DEF RunProcess, Proving, Locked
    <2>5. Quiet(p, x)
      BY <1>1, NothingElse
    <2> HIDE DEF x
    <2>6. Sound(p, x)
      BY <1>1, <1>2, <2>3, <2>4
         DEF Sound, Stage, Original, Unwritten, Locked, Writing, Written, Proving, Leaving, Blank
    <2> QED
      BY <1>1, <2>1, <2>4, <2>5, <2>6, BootMoves
  <1> QED
    BY <1>3, <1>4 DEF Bootstrap!ReadConfig

\* The steps that only change what a run has established, before it opens the file.
LEMMA BootProves ==
    ASSUME BootInv, NEW p \in Operators, op[p].pc \in {"identify", "assume", "reread", "verify"},
           NEW s \in Bootstrap!State, s.run = op[p].st.run,
           NEW pc \in {"assume", "reread", "pass"},
           op[p].pc \in {"reread", "verify"} => pc = "pass", op[p].pc = "assume" => pc = "reread",
           Bootstrap!Set(p, pc, s),
           Stage([op[p] EXCEPT !.pc = pc, !.st = s]),
           s.alias_created <=> op[p].st.alias_created,
           UNCHANGED <<file, config, lock, receipt, backups, results, edits, faults>>
    PROVE  BootInv'
  <1> DEFINE x == [op[p] EXCEPT !.pc = pc, !.st = s]
  <1>1. /\ op[p] \in RunProcess /\ op[p].st \in Bootstrap!State /\ op[p].fd \in 1..Len(file)
        /\ Stage(op[p]) /\ Original(op[p]) /\ Unwritten(op[p]) /\ DOMAIN op = Operators
    BY BootKnown DEF BootHolds
  <1>2. op' = [op EXCEPT ![p] = x]
    BY <1>1 DEF Bootstrap!Set
  <1>3. Quiet(p, x)
    BY NothingElse
  <1>4. /\ x \in RunProcess /\ x.pc = pc /\ x.st = s /\ x.fd = op[p].fd
        /\ x.original = op[p].original /\ Stage(x)
    BY <1>1 DEF RunProcess, Proving, Locked
  <1> HIDE DEF x
  <1>5. Sound(p, x)
    BY <1>1, <1>4 DEF Sound, Original, Unwritten, Locked, Writing, Written, Proving, Leaving
  <1> QED
    BY <1>2, <1>3, <1>4, <1>5, BootMoves

LEMMA IdentifyKeeps ==
    ASSUME BootInv, NEW p \in Operators, Bootstrap!Identify(p) PROVE BootInv'
  <1> DEFINE called == [op[p].st EXCEPT !.api_operations = 1]
             verified == [called EXCEPT !.source_verified = TRUE]
             exact == [verified EXCEPT !.exact_role = TRUE]
  <1>1. op[p].pc = "identify" /\ UNCHANGED <<file, config, lock, receipt, backups, results, edits, faults>>
    BY DEF Bootstrap!Identify, Bootstrap!At, Bootstrap!KeepFiles, Bootstrap!KeepReceipts, Bootstrap!KeepBudgets
  <1>2. op[p] \in RunProcess /\ op[p].st \in Bootstrap!State /\ Stage(op[p]) /\ Consistent(op[p].st)
    BY <1>1, BootKnown, StagesConsistent DEF BootHolds
  <1>3. Blank(op[p].st) /\ op[p].st.selected /\ ~op[p].st.source_verified
    BY <1>1, <1>2 DEF Stage
  <1>4. \/ Bootstrap!Raise(p, "BLOCKED")
        \/ Bootstrap!Set(p, "report", Bootstrap!Failed(called, "BLOCKED"))
        \/ Bootstrap!Set(p, "reread", exact) \/ Bootstrap!Set(p, "assume", verified)
    BY DEF Bootstrap!Identify
  <1>5. /\ called \in Bootstrap!State /\ called.run = op[p].st.run /\ Blank(called)
        /\ called.selected /\ ~called.source_verified /\ called.api_operations = 1
    BY <1>2, <1>3 DEF Blank, Bootstrap!State
  <1> HIDE DEF called
  <1>6. Consistent(called) /\ called.status # "PASS" /\ ~called.alias_created
    BY <1>5 DEF Consistent, Blank, Bootstrap!State
  <1>7. /\ verified \in Bootstrap!State /\ verified.run = op[p].st.run /\ Blank(verified)
        /\ verified.selected /\ verified.source_verified /\ verified.api_operations = 1
    BY <1>5 DEF Blank, Bootstrap!State
  <1> HIDE DEF verified
  <1>8. /\ exact \in Bootstrap!State /\ exact.run = op[p].st.run
        /\ Proved(exact) /\ ~exact.alias_reverified /\ exact.status = "BLOCKED" /\ exact.reasons
        /\ ~exact.alias_created
    <2>1. exact \in Bootstrap!State /\ exact.exact_role /\ exact.api_operations = 1
      BY <1>7 DEF Bootstrap!State
    <2>2. /\ exact.selected /\ exact.source_verified /\ ~exact.ambiguous /\ ~exact.assumed
          /\ ~exact.temporary_verified /\ ~exact.alias_reverified /\ ~exact.alias_created
          /\ exact.reasons /\ exact.status = "BLOCKED" /\ exact.run = op[p].st.run
      BY <1>7 DEF Blank, Bootstrap!State
    <2> QED
      BY <2>1, <2>2 DEF Proved
  <1> HIDE DEF exact
  <1>9. ~Leaving(op[p])
    BY <1>1, <1>3 DEF Leaving, Blank, Writing, Locked
  <1>10. CASE Bootstrap!Raise(p, "BLOCKED")
    BY <1>1, <1>3, <1>10, BootRaises DEF Writing, Locked, Blank
  <1>11. CASE Bootstrap!Set(p, "report", Bootstrap!Failed(called, "BLOCKED"))
    BY <1>1, <1>5, <1>6, <1>9, <1>11, BootFails, NothingElse, Zenon
  <1>12. CASE Bootstrap!Set(p, "assume", verified)
    <2>1. Stage([op[p] EXCEPT !.pc = "assume", !.st = verified])
      BY <1>2, <1>7 DEF Stage, RunProcess, Proving, Locked
    <2> QED
      BY <1>1, <1>3, <1>5, <1>7, <1>12, <2>1, BootProves, Zenon DEF Blank
  <1>13. CASE Bootstrap!Set(p, "reread", exact)
    <2>1. Stage([op[p] EXCEPT !.pc = "reread", !.st = exact])
      BY <1>2, <1>8 DEF Stage, RunProcess, Proving, Locked
    <2> QED
      BY <1>1, <1>3, <1>5, <1>8, <1>13, <2>1, BootProves, Zenon DEF Blank
  <1> QED
    BY <1>4, <1>10, <1>11, <1>12, <1>13

LEMMA AssumeRoleKeeps ==
    ASSUME BootInv, NEW p \in Operators, Bootstrap!AssumeRole(p) PROVE BootInv'
  <1> DEFINE asked == [op[p].st EXCEPT !.assumed = TRUE, !.api_operations = 2]
             called == [asked EXCEPT !.api_operations = 3]
             exact == [called EXCEPT !.temporary_verified = TRUE, !.exact_role = TRUE]
  <1>1. op[p].pc = "assume" /\ UNCHANGED <<file, config, lock, receipt, backups, results, edits, faults>>
    BY DEF Bootstrap!AssumeRole, Bootstrap!At, Bootstrap!KeepFiles, Bootstrap!KeepReceipts, Bootstrap!KeepBudgets
  <1>2. op[p] \in RunProcess /\ op[p].st \in Bootstrap!State /\ Stage(op[p]) /\ Consistent(op[p].st)
    BY <1>1, BootKnown, StagesConsistent DEF BootHolds
  <1>3. Blank(op[p].st) /\ op[p].st.selected /\ op[p].st.source_verified
    BY <1>1, <1>2 DEF Stage
  <1>4. \/ \E s \in {asked, called} : Bootstrap!Set(p, "report", Bootstrap!Failed(s, "BLOCKED"))
        \/ Bootstrap!Set(p, "reread", exact)
    BY DEF Bootstrap!AssumeRole
  <1>5. /\ asked \in Bootstrap!State /\ asked.run = op[p].st.run
        /\ asked.selected /\ asked.source_verified /\ asked.api_operations = 2 /\ asked.assumed
        /\ ~asked.ambiguous /\ ~asked.temporary_verified /\ ~asked.exact_role
        /\ ~asked.alias_created /\ ~asked.alias_reverified /\ asked.status = "BLOCKED" /\ asked.reasons
    <2> DEFINE first == [op[p].st EXCEPT !.assumed = TRUE]
    <2>1. op[p].st \in Bootstrap!State
      BY <1>2
    <2>2. first \in Bootstrap!State /\ first.assumed
      BY <2>1 DEF Bootstrap!State
    <2>3. asked = [first EXCEPT !.api_operations = 2]
      BY <2>1 DEF Bootstrap!State
    <2>4. \A x \in {"run", "selected", "source_verified", "ambiguous", "temporary_verified",
                     "exact_role", "alias_created", "alias_reverified", "status", "reasons"} :
            asked[x] = op[p].st[x]
      BY <2>1 DEF Bootstrap!State
    <2> HIDE DEF first, asked
    <2>5. asked \in Bootstrap!State /\ asked.assumed /\ asked.api_operations = 2
      BY <2>2, <2>3 DEF Bootstrap!State
    <2> QED
      BY <1>3, <2>4, <2>5 DEF Blank
  <1> HIDE DEF asked
  <1>6. /\ called \in Bootstrap!State /\ called.run = op[p].st.run
        /\ called.selected /\ called.source_verified /\ called.api_operations = 3 /\ called.assumed
        /\ ~called.ambiguous /\ ~called.temporary_verified /\ ~called.exact_role
        /\ ~called.alias_created /\ ~called.alias_reverified /\ called.status = "BLOCKED" /\ called.reasons
    BY <1>5 DEF Bootstrap!State
  <1> HIDE DEF called
  <1>7. /\ exact \in Bootstrap!State /\ exact.run = op[p].st.run
        /\ Proved(exact) /\ ~exact.alias_reverified /\ exact.status = "BLOCKED" /\ exact.reasons
        /\ ~exact.alias_created
    BY <1>6 DEF Proved, Bootstrap!State
  <1> HIDE DEF exact
  <1>8. ~Leaving(op[p])
    BY <1>1, <1>3 DEF Leaving, Blank, Writing, Locked
  <1>9. ASSUME NEW s \in {asked, called}, Bootstrap!Set(p, "report", Bootstrap!Failed(s, "BLOCKED"))
        PROVE  BootInv'
    <2>1. s \in Bootstrap!State /\ s.run = op[p].st.run /\ s.status # "PASS"
      BY <1>5, <1>6, <1>9
    <2>2. Consistent(s)
      BY <1>5, <1>6, <1>9 DEF Consistent
    <2> QED
      BY <1>1, <1>8, <1>9, <2>1, <2>2, BootFails, NothingElse
  <1>10. CASE Bootstrap!Set(p, "reread", exact)
    <2>1. Stage([op[p] EXCEPT !.pc = "reread", !.st = exact])
      BY <1>2, <1>7 DEF Stage, RunProcess, Proving, Locked
    <2> QED
      BY <1>1, <1>3, <1>5, <1>7, <1>10, <2>1, BootProves, Zenon DEF Blank
  <1> QED
    BY <1>4, <1>9, <1>10

\* Whoever finds no section finds no header.
LEMMA NoSection ==
    ASSUME NEW c \in Seq(Bootstrap!Block), Bootstrap!Section(c) = "none"
    PROVE  NoHead(c)
  <1>1. SUFFICES ASSUME Bootstrap!Heads(c) # {} PROVE FALSE
    <2>1. \A k \in 1..Len(c) : c[k].kind = "head" => k \in Bootstrap!Heads(c)
      BY DEF Bootstrap!Heads
    <2> QED
      BY <1>1, <2>1 DEF NoHead
  <1> DEFINE h == CHOOSE i \in Bootstrap!Heads(c) : TRUE
  <1>2. h \in Bootstrap!Heads(c)
    BY <1>1
  <1>3. \/ Bootstrap!Section(c) = "other"
        \/ c[h].kind = "head" /\ Bootstrap!Section(c) = c[h].source
    BY <1>1 DEF Bootstrap!Section
  <1>4. c[h] \in Bootstrap!Block
    BY <1>2 DEF Bootstrap!Heads
  <1> HIDE DEF h
  <1>5. c[h].kind = "head" => c[h].source \in Bootstrap!Profiles
    BY <1>4 DEF Bootstrap!Block
  <1> QED
    BY <1>3, <1>5 DEF Bootstrap!Profiles

LEMMA RereadKeeps ==
    ASSUME BootInv, NEW p \in Operators, Bootstrap!Reread(p) PROVE BootInv'
  <1> DEFINE passed == [op[p].st EXCEPT !.alias_reverified = TRUE, !.status = "PASS", !.reasons = FALSE]
  <1>1. op[p].pc = "reread" /\ UNCHANGED <<file, config, lock, receipt, backups, results, edits, faults>>
    BY DEF Bootstrap!Reread, Bootstrap!At, Bootstrap!KeepFiles, Bootstrap!KeepReceipts, Bootstrap!KeepBudgets
  <1>2. /\ op[p] \in RunProcess /\ op[p].st \in Bootstrap!State /\ op[p].fd \in 1..Len(file)
        /\ Stage(op[p]) /\ Original(op[p]) /\ Unwritten(op[p]) /\ DOMAIN op = Operators
    BY <1>1, BootKnown DEF BootHolds
  <1>3. Proved(op[p].st) /\ op[p].st.status = "BLOCKED" /\ ~op[p].st.alias_created
    BY <1>1, <1>2 DEF Stage, Proving
  <1>4. \/ \E status \in {"BLOCKED", "FAIL"} : Bootstrap!Raise(p, status)
        \/ /\ file[config] = op[p].original /\ Bootstrap!Section(file[config]) = "none"
           /\ Bootstrap!Go(p, "open")
        \/ Bootstrap!Set(p, "pass", passed)
    BY DEF Bootstrap!Reread
  <1>5. ASSUME NEW status \in {"BLOCKED", "FAIL"}, Bootstrap!Raise(p, status) PROVE BootInv'
    BY <1>1, <1>3, <1>5, BootRaises DEF Writing, Locked
  <1>6. CASE Bootstrap!Set(p, "pass", passed)
    <2>1. passed \in Bootstrap!State /\ passed.alias_reverified /\ passed.status = "PASS" /\ ~passed.reasons
      BY <1>2 DEF Bootstrap!State
    <2>2. \A x \in {"run", "selected", "source_verified", "ambiguous", "temporary_verified",
                    "exact_role", "alias_created", "assumed", "api_operations"} :
            passed[x] = op[p].st[x]
      BY <1>2 DEF Bootstrap!State
    <2> HIDE DEF passed
    <2>3. Proved(passed)
      BY <1>3, <2>2 DEF Proved
    <2>4. Stage([op[p] EXCEPT !.pc = "pass", !.st = passed])
      BY <1>2, <2>1, <2>3 DEF Stage, RunProcess, Proving, Locked
    <2> QED
      BY <1>1, <1>6, <2>1, <2>2, <2>4, BootProves, Zenon
  <1>7. CASE /\ file[config] = op[p].original /\ Bootstrap!Section(file[config]) = "none"
             /\ Bootstrap!Go(p, "open")
    <2> DEFINE x == [op[p] EXCEPT !.pc = "open"]
    <2>1. op' = [op EXCEPT ![p] = x]
      BY <1>2, <1>7 DEF Bootstrap!Go
    <2>2. NoHead(op[p].original)
      BY <1>7, NoSection, FilesKnown DEF BootInv, FilesShaped
    <2>3. /\ x \in RunProcess /\ x.pc = "open" /\ x.st = op[p].st /\ x.fd = op[p].fd
          /\ x.original = op[p].original
      BY <1>2 DEF RunProcess, Proving, Locked
    <2>4. Quiet(p, x)
      BY <1>1, NothingElse
    <2> HIDE DEF x
    <2>5. Sound(p, x)
      BY <1>1, <1>2, <2>2, <2>3
         DEF Sound, Stage, Original, Unwritten, Locked, Writing, Written, Proving, Leaving
    <2> QED
      BY <1>1, <2>1, <2>3, <2>4, <2>5, BootMoves
  <1> QED
    BY <1>4, <1>5, <1>6, <1>7

LEMMA OpenKeeps ==
    ASSUME BootInv, NEW p \in Operators, Bootstrap!Open(p) PROVE BootInv'
  <1> DEFINE x == [op[p] EXCEPT !.pc = "lock", !.fd = config, !.written = 0]
  <1>1. op[p].pc = "open" /\ UNCHANGED <<file, config, lock, receipt, backups, results, edits, faults>>
    BY DEF Bootstrap!Open, Bootstrap!At, Bootstrap!KeepFiles, Bootstrap!KeepReceipts, Bootstrap!KeepBudgets
  <1>2. /\ op[p] \in RunProcess /\ op[p].st \in Bootstrap!State
        /\ Stage(op[p]) /\ Original(op[p]) /\ Unwritten(op[p]) /\ DOMAIN op = Operators
    BY <1>1, BootKnown DEF BootHolds
  <1>3. op' = [op EXCEPT ![p] = x]
    BY <1>2 DEF Bootstrap!Open
  <1>4. config \in 1..Len(file) /\ Len(file) \in Nat
    BY DEF BootInv, FilesShaped
  <1>5. /\ x \in RunProcess /\ x.pc = "lock" /\ x.st = op[p].st /\ x.fd = config
        /\ x.original = op[p].original /\ x.written = 0
    <2>1. /\ x.pc = "lock" /\ x.st = op[p].st /\ x.fd = config
          /\ x.original = op[p].original /\ x.written = 0
      BY <1>2 DEF RunProcess
    <2>2. config \in Nat /\ 0 \in 0..2 /\ op[p] \in RunProcess
      BY <1>2, <1>4
    <2>3. "lock" \in Proving
      BY DEF Proving
    <2>4. x \in RunProcess
      BY <2>2, <2>3 DEF RunProcess
    <2> QED
      BY <2>1, <2>4
  <1>6. Quiet(p, x)
    BY <1>1, NothingElse
  <1> HIDE DEF x
  <1>7. Sound(p, x)
    BY <1>1, <1>2, <1>4, <1>5
       DEF Sound, Stage, Original, Unwritten, Locked, Writing, Written, Proving, Leaving
  <1> QED
    BY <1>1, <1>3, <1>5, <1>6, <1>7, BootMoves

LEMMA LockKeeps ==
    ASSUME BootInv, NEW p \in Operators, Bootstrap!Lock(p) PROVE BootInv'
  <1> DEFINE x == [op[p] EXCEPT !.pc = "compare"]
  <1>1. op[p].pc = "lock" /\ UNCHANGED <<file, config, receipt, backups, results, edits, faults>>
    BY DEF Bootstrap!Lock, Bootstrap!At, Bootstrap!KeepReceipts, Bootstrap!KeepBudgets
  <1>2. /\ op[p] \in RunProcess /\ op[p].st \in Bootstrap!State /\ op[p].fd \in 1..Len(file)
        /\ Stage(op[p]) /\ Original(op[p]) /\ Unwritten(op[p]) /\ DOMAIN op = Operators
    BY <1>1, BootKnown DEF BootHolds
  <1>3. op' = [op EXCEPT ![p] = x]
    BY <1>2 DEF Bootstrap!Lock, Bootstrap!Go
  <1>4. lock[op[p].fd] = Nobody /\ lock' = [lock EXCEPT ![op[p].fd] = p]
    BY DEF Bootstrap!Lock
  <1>5. OtherLocks(p) /\ lock'[op[p].fd] = p
    <2>1. lock \in Seq(Operators \cup {Nobody}) /\ op[p].fd \in 1..Len(lock)
      BY <1>2 DEF BootInv, FilesShaped
    <2>2. /\ lock' \in Seq(Operators \cup {Nobody}) /\ Len(lock') = Len(lock)
          /\ lock'[op[p].fd] = p
          /\ \A i \in 1..Len(lock) : i # op[p].fd => lock'[i] = lock[i]
      BY <1>4, <2>1, PutFacts
    <2> QED
      BY <1>4, <2>2, BoundsAssumption DEF OtherLocks
  <1>6. /\ x \in RunProcess /\ x.pc = "compare" /\ x.st = op[p].st /\ x.fd = op[p].fd
        /\ x.original = op[p].original /\ x.written = op[p].written
    BY <1>2 DEF RunProcess, Proving, Locked
  <1>7. Quiet(p, x)
    BY <1>1, <1>5 DEF Quiet, ReceiptStep, BootInv, ResultsShaped
  <1> HIDE DEF x
  <1>8. Sound(p, x)
    BY <1>1, <1>2, <1>5, <1>6
       DEF Sound, Stage, Original, Unwritten, Locked, Writing, Written, Proving, Leaving
  <1> QED
    BY <1>1, <1>3, <1>6, <1>7, <1>8, BootMoves

\* A run that holds the lock and fails, having told whether its bytes stay.
LEMMA BootRaisesChanged ==
    ASSUME BootInv, NEW p \in Operators, op[p].pc \in Locked, NEW changed \in BOOLEAN,
           Bootstrap!RaiseChanged(p, changed), Leaving(op[p]) => changed,
           UNCHANGED <<file, config, receipt, backups, results, edits>>,
           faults' \in {faults, faults + 1}
    PROVE  BootInv'
  <1> DEFINE s == [op[p].st EXCEPT !.alias_created = changed]
  <1>1. op[p].st \in Bootstrap!State /\ Stage(op[p])
    BY BootKnown DEF BootHolds
  <1>2. Proved(op[p].st) /\ ~op[p].st.alias_reverified /\ op[p].st.status = "BLOCKED"
    BY <1>1 DEF Stage, Proving
  <1>3. s \in Bootstrap!State /\ (s.alias_created <=> changed)
    BY <1>1 DEF Bootstrap!State
  <1>4. \A x \in {"run", "selected", "source_verified", "ambiguous", "temporary_verified",
                  "exact_role", "alias_reverified", "assumed", "api_operations", "status"} :
          s[x] = op[p].st[x]
    BY <1>1 DEF Bootstrap!State
  <1>5. Bootstrap!Set(p, "report", Bootstrap!Failed(s, "FAIL")) /\ Bootstrap!Unlock(p)
    BY DEF Bootstrap!RaiseChanged
  <1> HIDE DEF s
  <1>6. Consistent(s)
    BY <1>2, <1>3, <1>4 DEF Consistent, Proved
  <1>7. OtherLocks(p)
    BY <1>5, UnlockIsQuiet
  <1>8. \A x : Quiet(p, x)
    BY <1>7 DEF Quiet, ReceiptStep, BootInv, ResultsShaped
  <1>9. op[p].pc \notin {"idle", "report"} /\ s.run = op[p].st.run /\ (Leaving(op[p]) => s.alias_created)
    BY <1>3, <1>4 DEF Locked
  <1> QED
    BY <1>3, <1>5, <1>6, <1>8, <1>9, BootFails

\* A step of a run that only goes on to another point under the lock.
LEMMA BootGoes ==
    ASSUME BootInv, NEW p \in Operators, op[p].pc \in Locked, NEW pc \in Writing,
           Bootstrap!Go(p, pc),
           op[p].pc \in {"append", "sync", "rollback"} => pc # "append",
           op[p].pc = "compare" => pc = "append" /\ file[op[p].fd] = op[p].original,
           op[p].pc = "truncate" => FALSE,
           UNCHANGED <<file, config, lock, receipt, backups, results, edits>>,
           faults' \in {faults, faults + 1}
    PROVE  BootInv'
  <1> DEFINE x == [op[p] EXCEPT !.pc = pc]
  <1>1. /\ op[p] \in RunProcess /\ op[p].st \in Bootstrap!State /\ op[p].fd \in 1..Len(file)
        /\ Stage(op[p]) /\ Original(op[p]) /\ Unwritten(op[p]) /\ DOMAIN op = Operators
        /\ lock[op[p].fd] = p
    BY BootKnown DEF BootHolds
  <1>2. op' = [op EXCEPT ![p] = x]
    BY <1>1 DEF Bootstrap!Go
  <1>3. /\ x \in RunProcess /\ x.pc = pc /\ x.st = op[p].st /\ x.fd = op[p].fd
        /\ x.original = op[p].original /\ x.written = op[p].written
    BY <1>1 DEF RunProcess, Proving, Locked, Writing
  <1>4. Quiet(p, x)
    BY DEF Quiet, OtherLocks, ReceiptStep, BootInv, FilesShaped, ResultsShaped
  <1> HIDE DEF x
  <1>5. Stage(x) /\ (Leaving(op[p]) => Leaving(x)) /\ (x.pc \in Locked => lock'[x.fd] = p)
    BY <1>1, <1>3 DEF Stage, Proving, Locked, Writing, Leaving
  <1>6. Unwritten(x)
    BY <1>1, <1>3 DEF Unwritten, Written, Locked, Writing
  <1>7. Original(x)
    <2>1. file[op[p].fd] \in Seq(Bootstrap!Block)
      BY <1>1, FilesKnown
    <2>2. Begins(file[op[p].fd], op[p].original)
      BY <1>1, <2>1 DEF Original, Begins, Writing, Locked
    <2> QED
      BY <1>1, <1>3, <2>2 DEF Original, Proving, Locked, Writing
  <1>8. Sound(p, x)
    BY <1>1, <1>3, <1>5, <1>6, <1>7 DEF Sound
  <1> QED
    BY <1>2, <1>3, <1>4, <1>8, BootMoves DEF Locked, Writing

LEMMA CompareKeeps ==
    ASSUME BootInv, NEW p \in Operators, Bootstrap!Compare(p) PROVE BootInv'
  <1>1. op[p].pc = "compare" /\ UNCHANGED <<file, config, receipt, backups, results, edits, faults>>
    BY DEF Bootstrap!Compare, Bootstrap!At, Bootstrap!KeepReceipts, Bootstrap!KeepBudgets
  <1>2. CASE file[op[p].fd] = op[p].original /\ Bootstrap!Go(p, "append") /\ UNCHANGED lock
    BY <1>1, <1>2, BootGoes DEF Locked, Writing
  <1>3. CASE Bootstrap!RaiseChanged(p, FALSE)
    <2>1. Stage(op[p])
      BY BootKnown DEF BootHolds
    <2>2. ~Leaving(op[p])
      BY <1>1, <2>1 DEF Leaving, Stage, Proving, Locked, Writing
    <2> QED
      BY <1>1, <1>3, <2>2, BootRaisesChanged DEF Locked
  <1> QED
    BY <1>2, <1>3 DEF Bootstrap!Compare

LEMMA AppendFailsKeeps ==
    ASSUME BootInv, NEW p \in Operators, Bootstrap!AppendFails(p) PROVE BootInv'
  <1>1. /\ op[p].pc \in {"append", "sync"} /\ Bootstrap!Go(p, "rollback") /\ faults' = faults + 1
        /\ UNCHANGED <<file, config, lock, receipt, backups, results, edits>>
    BY DEF Bootstrap!AppendFails, Bootstrap!KeepFiles, Bootstrap!KeepReceipts, Bootstrap!OSError
  <1> QED
    BY <1>1, BootGoes DEF Locked, Writing

LEMMA RollbackKeeps ==
    ASSUME BootInv, NEW p \in Operators, Bootstrap!Rollback(p) PROVE BootInv'
  <1>1. /\ op[p].pc = "rollback" /\ faults' \in {faults, faults + 1}
        /\ UNCHANGED <<file, config, receipt, backups, results, edits>>
    BY DEF Bootstrap!Rollback, Bootstrap!At, Bootstrap!KeepReceipts, Bootstrap!OSError
  <1>2. CASE Bootstrap!Go(p, "truncate") /\ UNCHANGED lock
    BY <1>1, <1>2, BootGoes DEF Locked, Writing
  <1>3. CASE Bootstrap!RaiseChanged(p, op[p].written > 0)
    <2>1. Stage(op[p])
      BY BootKnown DEF BootHolds
    <2>2. Leaving(op[p]) => op[p].written > 0
      BY <1>1, <2>1 DEF Leaving, Stage, Proving, Locked
    <2>3. (op[p].written > 0) \in BOOLEAN
      OBVIOUS
    <2> QED
      BY <1>1, <1>3, <2>2, <2>3, BootRaisesChanged DEF Locked
  <1> QED
    BY <1>2, <1>3 DEF Bootstrap!Rollback

LEMMA CheckAfterKeeps ==
    ASSUME BootInv, NEW p \in Operators, Bootstrap!CheckAfter(p) PROVE BootInv'
  <1> DEFINE s == [op[p].st EXCEPT !.alias_created = TRUE]
             x == [op[p] EXCEPT !.pc = "verify", !.st = s]
  <1>1. op[p].pc = "sync" /\ UNCHANGED <<file, config, receipt, backups, results, edits, faults>>
    BY DEF Bootstrap!CheckAfter, Bootstrap!At, Bootstrap!KeepReceipts, Bootstrap!KeepBudgets
  <1>2. CASE Bootstrap!RaiseChanged(p, TRUE)
    BY <1>1, <1>2, BootRaisesChanged DEF Locked
  <1>3. CASE Bootstrap!Set(p, "verify", s) /\ Bootstrap!Unlock(p)
    <2>1. /\ op[p] \in RunProcess /\ op[p].st \in Bootstrap!State /\ op[p].fd \in 1..Len(file)
          /\ Stage(op[p]) /\ Original(op[p]) /\ DOMAIN op = Operators
      BY BootKnown DEF BootHolds
    <2>2. op' = [op EXCEPT ![p] = x]
      BY <1>3, <2>1 DEF Bootstrap!Set
    <2>3. s \in Bootstrap!State /\ s.alias_created
      BY <2>1 DEF Bootstrap!State
    <2>4. \A y \in {"run", "selected", "source_verified", "ambiguous", "temporary_verified",
                    "exact_role", "alias_reverified", "assumed", "api_operations", "status",
                    "reasons"} : s[y] = op[p].st[y]
      BY <2>1 DEF Bootstrap!State
    <2> HIDE DEF s
    <2>5. /\ x \in RunProcess /\ x.pc = "verify" /\ x.st = s /\ x.fd = op[p].fd
          /\ x.original = op[p].original
      BY <2>1, <2>3 DEF RunProcess, Proving
    <2>6. Quiet(p, x)
      <3>1. OtherLocks(p)
        BY <1>3, UnlockIsQuiet
      <3> QED
        BY <1>1, <3>1 DEF Quiet, ReceiptStep, BootInv, ResultsShaped
    <2> HIDE DEF x
    <2>7. Stage(x)
      <3>1. Proved(op[p].st) /\ ~op[p].st.alias_reverified /\ op[p].st.status = "BLOCKED" /\ op[p].st.reasons
        BY <1>1, <2>1 DEF Stage, Proving, Locked
      <3>2. Proved(s)
        BY <2>4, <3>1 DEF Proved
      <3> QED
        BY <2>3, <2>4, <2>5, <3>1, <3>2 DEF Stage, Proving
    <2>8. Sound(p, x)
      BY <1>1, <2>1, <2>3, <2>4, <2>5, <2>7
         DEF Sound, Original, Unwritten, Locked, Writing, Written, Proving, Leaving
    <2> QED
      BY <1>1, <2>2, <2>4, <2>5, <2>6, <2>8, BootMoves
  <1> QED
    BY <1>2, <1>3 DEF Bootstrap!CheckAfter

LEMMA VerifyAliasKeeps ==
    ASSUME BootInv, NEW p \in Operators, Bootstrap!Verify(p) PROVE BootInv'
  <1> DEFINE passed == [op[p].st EXCEPT !.alias_reverified = TRUE, !.status = "PASS", !.reasons = FALSE]
  <1>1. op[p].pc = "verify" /\ UNCHANGED <<file, config, lock, receipt, backups, results, edits, faults>>
    BY DEF Bootstrap!Verify, Bootstrap!At, Bootstrap!KeepFiles, Bootstrap!KeepReceipts, Bootstrap!KeepBudgets
  <1>2. op[p] \in RunProcess /\ op[p].st \in Bootstrap!State /\ Stage(op[p])
    BY <1>1, BootKnown DEF BootHolds
  <1>3. Proved(op[p].st)
    BY <1>1, <1>2 DEF Stage, Proving
  <1>4. CASE Bootstrap!Raise(p, "FAIL")
    BY <1>1, <1>4, BootRaises DEF Writing, Locked
  <1>5. CASE Bootstrap!Set(p, "pass", passed)
    <2>1. passed \in Bootstrap!State /\ passed.alias_reverified /\ passed.status = "PASS" /\ ~passed.reasons
      BY <1>2 DEF Bootstrap!State
    <2>2. \A x \in {"run", "selected", "source_verified", "ambiguous", "temporary_verified",
                    "exact_role", "alias_created", "assumed", "api_operations"} :
            passed[x] = op[p].st[x]
      BY <1>2 DEF Bootstrap!State
    <2> HIDE DEF passed
    <2>3. Proved(passed)
      BY <1>3, <2>2 DEF Proved
    <2>4. Stage([op[p] EXCEPT !.pc = "pass", !.st = passed])
      BY <1>2, <2>1, <2>3 DEF Stage, RunProcess, Proving, Locked
    <2> QED
      BY <1>1, <1>5, <2>1, <2>2, <2>4, BootProves, Zenon
  <1> QED
    BY <1>4, <1>5 DEF Bootstrap!Verify

\* A run that changes the file it has locked.
LEMMA BootWrites ==
    ASSUME BootInv, NEW p \in Operators, op[p].pc \in Writing,
           NEW x, x.pc # "idle", x.st.run = op[p].st.run, op' = [op EXCEPT ![p] = x],
           UNCHANGED <<config, receipt, backups, results, edits>>, OtherLocks(p),
           faults' \in {faults, faults + 1},
           file' \in Seq(Seq(Bootstrap!Block)), Len(file') = Len(file),
           \A i \in 1..Len(file) : i # op[p].fd => file'[i] = file[i],
           OneHead(file'[op[p].fd]),
           \A k \in 1..Len(file'[op[p].fd]) :
              \/ file'[op[p].fd][k].by = op[p].st.run
              \/ \E j \in 1..Len(file[op[p].fd]) : file[op[p].fd][j] = file'[op[p].fd][k],
           BootHolds(x, p)',
           \A k \in 1..Len(file'[1]) : file'[1][k].by = op[p].st.run => Leaving(x)
    PROVE  BootInv'
  <1>1. /\ op[p].pc \in Locked /\ op[p].pc # "idle" /\ op[p].fd \in 1..Len(file) /\ lock[op[p].fd] = p
        /\ op[p].st.run <= Len(results) /\ DOMAIN op = Operators
    BY BootKnown DEF BootHolds, Writing, Locked, Unfinished
  <1>2. FilesShaped'
    BY <1>1 DEF BootInv, FilesShaped, OtherLocks
  <1>3. ResultsShaped'
    BY DEF BootInv, ResultsShaped
  <1>8. ASSUME NEW i \in 1..Len(file), NEW k \in 1..Len(file'[i]), file'[i][k].by # op[p].st.run
        PROVE  \E j \in 1..Len(file[i]) : file[i][j] = file'[i][k]
    <2>1. CASE i = op[p].fd
      BY <1>8, <2>1
    <2>2. CASE i # op[p].fd
      BY <1>8, <2>2
    <2> QED
      BY <2>1, <2>2
  <1>4. ASSUME NEW q \in Operators, q # p PROVE BootHolds(op[q], q)'
    <2>1. op'[q] = op[q] /\ BootHolds(op[q], q) /\ op[q].fd \in 1..Len(lock)
      BY <1>4 DEF BootInv, BootsHold, BootHolds, FilesShaped
    <2>2. op[q].pc \in Locked => op[q].fd # op[p].fd
      BY <1>1, <1>4, <2>1 DEF BootHolds
    <2>3. Original(op[q])'
      BY <2>1, <2>2 DEF BootHolds, Original, Writing, Locked, BootInv, FilesShaped
    <2>4. Unwritten(op[q])'
      <3>1. op[q].pc # "idle" => op[q].st.run # op[p].st.run
        BY <1>1, <1>4 DEF BootInv, BootsHold
      <3>2. ASSUME op[q].pc # "idle", NEW i \in 1..Len(file), NotBy(file[i], op[q].st.run)
            PROVE  NotBy(file'[i], op[q].st.run)
        <4>1. ASSUME NEW k \in 1..Len(file'[i]) PROVE file'[i][k].by # op[q].st.run
          BY <1>8, <3>1, <3>2, <4>1, ZenonT(60) DEF NotBy
        <4> QED
          BY <4>1 DEF NotBy
      <3> QED
        BY <2>1, <3>2 DEF BootHolds, Unwritten
    <2>5. Unfinished(op[q])'
      BY <2>1 DEF BootHolds, Unfinished
    <2> QED
      BY <1>4, <2>1, <2>3, <2>4, <2>5, ZenonT(60) DEF BootHolds, OtherLocks
  <1>5. BootsHold'
    BY <1>1, <1>4 DEF BootInv, BootsHold
  <1>6. LeftoversTold'
    <2>1. ASSUME NEW r \in 1..MaxRuns, NEW i \in 1..Len(file), r # op[p].st.run, NotBy(file[i], r)
          PROVE  NotBy(file'[i], r)
      <3>1. ASSUME NEW k \in 1..Len(file'[i]) PROVE file'[i][k].by # r
        BY <1>8, <2>1, <3>1, ZenonT(60) DEF NotBy
      <3> QED
        BY <3>1 DEF NotBy
    <2>2. 1 \in 1..Len(file)
      BY DEF BootInv, FilesShaped
    <2>3. ASSUME NEW r \in 1..MaxRuns
          PROVE  /\ r > Len(results) => \A i \in 1..Len(file) : NotBy(file'[i], r)
                 /\ Told(r)' \/ NotBy(file'[1], r)
      <3>1. CASE r = op[p].st.run
        <4>1. Leaving(x) => Told(r)'
          BY <1>1, <3>1 DEF Told
        <4>2. Leaving(x) \/ NotBy(file'[1], r)
          BY <3>1 DEF NotBy
        <4> QED
          BY <1>1, <3>1, <4>1, <4>2 DEF BootInv, ResultsShaped
      <3>2. CASE r # op[p].st.run
        <4>1. Told(r) => Told(r)'
          BY <1>1, <3>2 DEF Told
        <4> QED
          BY <2>1, <2>2, <3>2, <4>1 DEF BootInv, LeftoversTold
      <3> QED
        BY <3>1, <3>2
    <2> QED
      BY <2>3 DEF LeftoversTold
  <1>7. PassReceiptHolds'
    <2>1. \A q \in Operators : op[q].pc = "report" => op'[q] = op[q]
      BY <1>1 DEF Writing, Locked
    <2>2. faults \in Nat
      BY DEF BootInv, ResultsShaped
    <2> QED
      BY <2>1, <2>2 DEF BootInv, PassReceiptHolds
  <1> QED
    BY <1>2, <1>3, <1>5, <1>6, <1>7 DEF BootInv

LEMMA OneBlockMore ==
    ASSUME NEW c \in Seq(Bootstrap!Block), NEW d \in Seq(Bootstrap!Block), Len(d) = Len(c) + 1,
           \A k \in 1..Len(c) : d[k] = c[k], NoHead(c) \/ d[Len(c) + 1].kind # "head"
    PROVE  /\ OneHead(c) => OneHead(d)
           /\ NoHead(c) /\ d[Len(c) + 1].kind # "head" => NoHead(d)
           /\ \A r : NotBy(c, r) /\ d[Len(c) + 1].by # r => NotBy(d, r)
           /\ \A o \in Seq(Bootstrap!Block) : Begins(c, o) => Begins(d, o)
  <1>1. Len(c) \in Nat /\ \A k \in 1..Len(d) : k \in 1..Len(c) \/ k = Len(c) + 1
    OBVIOUS
  <1>2. OneHead(c) => OneHead(d)
    <2>1. CASE d[Len(c) + 1].kind # "head"
      BY <1>1, <2>1 DEF OneHead
    <2>2. CASE NoHead(c)
      <3>1. \A k \in 1..Len(d) : d[k].kind = "head" => k = Len(c) + 1
        BY <1>1, <2>2 DEF NoHead
      <3> QED
        BY <3>1 DEF OneHead
    <2> QED
      BY <2>1, <2>2
  <1>3. NoHead(c) /\ d[Len(c) + 1].kind # "head" => NoHead(d)
    BY <1>1 DEF NoHead
  <1>4. ASSUME NEW r, NotBy(c, r), d[Len(c) + 1].by # r PROVE NotBy(d, r)
    BY <1>1, <1>4 DEF NotBy
  <1>5. ASSUME NEW o \in Seq(Bootstrap!Block), Begins(c, o) PROVE Begins(d, o)
    <2>1. Len(o) \in Nat /\ Len(o) <= Len(c) /\ Len(o) <= Len(d)
      BY <1>1, <1>5 DEF Begins
    <2>2. ASSUME NEW k \in 1..Len(o) PROVE d[k] = o[k]
      BY <1>1, <1>5, <2>1 DEF Begins
    <2> QED
      BY <2>1, <2>2 DEF Begins
  <1> QED
    BY <1>2, <1>3, <1>4, <1>5

LEMMA AppendPartKeeps ==
    ASSUME BootInv, NEW p \in Operators, Bootstrap!AppendPart(p) PROVE BootInv'
  <1> DEFINE k == op[p].written + 1
             b == Bootstrap!Suffix(op[p])[k]
             pc == IF k = 2 THEN "sync" ELSE "append"
             fd == op[p].fd
  <1>1. op[p].pc = "append" /\ UNCHANGED <<config, lock, receipt, backups, results, edits, faults>>
    BY DEF Bootstrap!AppendPart, Bootstrap!At, Bootstrap!KeepReceipts, Bootstrap!KeepBudgets
  <1>2. /\ op[p] \in RunProcess /\ op[p].st \in Bootstrap!State /\ fd \in 1..Len(file)
        /\ Stage(op[p]) /\ Original(op[p]) /\ Unwritten(op[p]) /\ DOMAIN op = Operators
        /\ lock[fd] = p /\ Unfinished(op[p])
    BY <1>1, BootKnown DEF BootHolds, Locked
  <1>3. k \in {1, 2} /\ k \in 0..2 /\ pc \in {"append", "sync"} /\ (pc = "append" => k = 1)
    BY <1>1, <1>2 DEF Original, RunProcess
  <1>4. PICK x : x = [op[p] EXCEPT !.written = k, !.pc = pc]
    OBVIOUS
  <1>5. op' = [op EXCEPT ![p] = x] /\ file' = [file EXCEPT ![fd] = Append(file[fd], b)]
    BY <1>4, <1>2 DEF Bootstrap!AppendPart
  <1>6. b \in Bootstrap!Block /\ b.by = op[p].st.run /\ (k # 1 => b.kind # "head")
    <2>1. op[p].st.run \in Bootstrap!Runs /\ op[p].source \in Bootstrap!Profiles
      BY <1>2 DEF RunProcess, Bootstrap!State
    <2> QED
      BY <1>3, <2>1 DEF Bootstrap!Suffix, Bootstrap!Block
  <1>7. x.written = k /\ x.pc = pc /\ x.st = op[p].st /\ x.fd = fd /\ x.original = op[p].original
    BY <1>4, <1>2 DEF RunProcess
  <1>8. x \in RunProcess
    BY <1>4, <1>2, <1>3 DEF RunProcess, Proving, Locked
  <1> HIDE DEF b, pc, k, fd
  <1>9. file[fd] \in Seq(Bootstrap!Block) /\ OneHead(file[fd])
    BY <1>2, FilesKnown
  <1>10. /\ Append(file[fd], b) \in Seq(Bootstrap!Block)
        /\ Len(Append(file[fd], b)) = Len(file[fd]) + 1 /\ Append(file[fd], b)[Len(file[fd]) + 1] = b
        /\ \A j \in 1..Len(file[fd]) : Append(file[fd], b)[j] = file[fd][j]
    BY <1>6, <1>9, AppendFacts
  <1>11. /\ file' \in Seq(Seq(Bootstrap!Block)) /\ Len(file') = Len(file)
         /\ file'[fd] = Append(file[fd], b)
         /\ \A i \in 1..Len(file) : i # fd => file'[i] = file[i]
    BY <1>2, <1>5, <1>10, PutFacts DEF BootInv, FilesShaped
  <1>12. k = 1 => NoHead(file[fd])
    BY <1>1, <1>2, <1>3 DEF Original, k, RunProcess, fd
  <1> DEFINE c == file[fd]
             d == Append(file[fd], b)
  <1>13. /\ c \in Seq(Bootstrap!Block) /\ d \in Seq(Bootstrap!Block) /\ Len(d) = Len(c) + 1
         /\ \A i \in 1..Len(c) : d[i] = c[i]
    BY <1>9, <1>10
  <1>14. NoHead(c) \/ d[Len(c) + 1].kind # "head"
    BY <1>6, <1>10, <1>12
  <1>15. /\ file'[fd] = d /\ OneHead(c) /\ op[p].original \in Seq(Bootstrap!Block)
         /\ Begins(c, op[p].original)
    BY <1>1, <1>2, <1>9, <1>11 DEF Original, Writing, Locked, RunProcess, fd
  <1>16. ASSUME NEW e, e = d PROVE OneHead(e) /\ Begins(e, op[p].original)
    <2> HIDE DEF c, d
    <2> QED
      BY <1>13, <1>14, <1>15, <1>16, OneBlockMore
  <1> HIDE DEF c, d
  <1>17. OneHead(file'[fd]) /\ Begins(file'[fd], op[p].original)
    BY <1>15, <1>16
  <1>18. Stage(x)
    BY <1>1, <1>2, <1>3, <1>7 DEF Stage, Proving, Locked
  <1>19. Original(x)'
    BY <1>1, <1>2, <1>3, <1>7, <1>17 DEF Original, Proving, Locked, Writing
  <1>20. Unwritten(x)' /\ Unfinished(x)'
    BY <1>1, <1>2, <1>3, <1>7 DEF Unwritten, Unfinished, Written, Writing, Locked
  <1>21. BootHolds(x, p)'
    BY <1>1, <1>2, <1>7, <1>8, <1>11, <1>18, <1>19, <1>20 DEF BootHolds
  <1>22. \A j \in 1..Len(file'[1]) : file'[1][j].by = op[p].st.run => Leaving(x)
    <2>1. CASE fd = 1
      BY <1>3, <1>7, <2>1 DEF Leaving, Writing, Locked
    <2>2. CASE fd # 1
      <3>1. file'[1] = file[1] /\ 1 \in 1..Len(file)
        BY <1>11, <2>2 DEF BootInv, FilesShaped
      <3>2. ASSUME NEW j \in 1..Len(file[1]), file[1][j].by = op[p].st.run PROVE FALSE
        <4>1. op[p].st.run \in 1..MaxRuns /\ ~NotBy(file[1], op[p].st.run)
          BY <1>2, <3>2 DEF Bootstrap!State, Bootstrap!Runs, NotBy
        <4>2. Told(op[p].st.run)
          BY <4>1 DEF BootInv, LeftoversTold
        <4>3. Leaving(op[p])
          BY <1>1, <1>2, <4>2 DEF Told, Unfinished, BootInv, BootsHold
        <4> QED
          BY <1>1, <1>2, <2>2, <4>3 DEF Leaving, Stage, Proving, Locked, fd
      <3> QED
        BY <3>1, <3>2
    <2> QED
      BY <2>1, <2>2
  <1>23. \A j \in 1..Len(file'[fd]) :
            \/ file'[fd][j].by = op[p].st.run
            \/ \E i \in 1..Len(file[fd]) : file[fd][i] = file'[fd][j]
    BY <1>6, <1>9, <1>10, <1>11
  <1>24. OtherLocks(p)
    BY <1>1 DEF OtherLocks, BootInv, FilesShaped
  <1>25. x.pc # "idle" /\ x.st.run = op[p].st.run /\ op[p].pc \in Writing
    BY <1>1, <1>3, <1>7 DEF Writing, Locked
  <1> QED
    BY <1>1, <1>5, <1>11, <1>17, <1>21, <1>22, <1>23, <1>24, <1>25, BootWrites, Zenon DEF fd

LEMMA TruncateKeeps ==
    ASSUME BootInv, NEW p \in Operators, Bootstrap!Truncate(p) PROVE BootInv'
  <1> DEFINE fd == op[p].fd
             n == Len(op[p].original)
             cut == [file EXCEPT ![fd] = SubSeq(file[fd], 1, n)]
  <1>1. /\ op[p].pc = "truncate" /\ faults' \in {faults, faults + 1}
        /\ UNCHANGED <<config, receipt, backups, results, edits>>
    BY DEF Bootstrap!Truncate, Bootstrap!At, Bootstrap!KeepReceipts, Bootstrap!OSError
  <1>2. /\ op[p] \in RunProcess /\ op[p].st \in Bootstrap!State /\ fd \in 1..Len(file)
        /\ Stage(op[p]) /\ Original(op[p]) /\ DOMAIN op = Operators
        /\ lock[fd] = p /\ Unfinished(op[p])
    BY <1>1, BootKnown DEF BootHolds, Locked
  <1>3. /\ Proved(op[p].st) /\ ~op[p].st.alias_created /\ ~op[p].st.alias_reverified
        /\ op[p].st.status = "BLOCKED" /\ Begins(file[fd], op[p].original)
        /\ NotBy(op[p].original, op[p].st.run)
    BY <1>1, <1>2 DEF Stage, Original, Proving, Locked, Writing
  <1>4. PICK changed \in BOOLEAN :
          /\ Bootstrap!RaiseChanged(p, changed)
          /\ file' = cut \/ (file' = file /\ (changed <=> op[p].written > 0))
    <2>1. \/ file' = cut /\ Bootstrap!RaiseChanged(p, FALSE)
          \/ file' \in {file, cut} /\ Bootstrap!RaiseChanged(p, op[p].written > 0)
      BY DEF Bootstrap!Truncate
    <2>2. FALSE \in BOOLEAN /\ (op[p].written > 0) \in BOOLEAN
      OBVIOUS
    <2> QED
      BY <2>1, <2>2, Zenon
  <1>5. CASE file' = file /\ (changed <=> op[p].written > 0)
    <2>1. Leaving(op[p]) => changed
      BY <1>3, <1>5 DEF Leaving
    <2> QED
      BY <1>1, <1>4, <1>5, <2>1, BootRaisesChanged DEF Locked
  <1>6. CASE file' = cut
    <2> DEFINE s == [op[p].st EXCEPT !.alias_created = changed]
               f == Bootstrap!Failed(s, "FAIL")
    <2>1. s \in Bootstrap!State /\ (s.alias_created <=> changed)
      BY <1>2 DEF Bootstrap!State
    <2>2. \A y \in {"run", "selected", "source_verified", "ambiguous", "temporary_verified",
                    "exact_role", "alias_reverified", "assumed", "api_operations", "status"} :
            s[y] = op[p].st[y]
      BY <1>2 DEF Bootstrap!State
    <2>3. Bootstrap!Set(p, "report", f) /\ Bootstrap!Unlock(p)
      BY <1>4 DEF Bootstrap!RaiseChanged
    <2> HIDE DEF s
    <2>4. Consistent(s) /\ s.run = op[p].st.run
      BY <1>3, <2>1, <2>2 DEF Consistent, Proved
    <2>5. f \in Bootstrap!State /\ f.run = s.run /\ f.reasons /\ f.status # "PASS" /\ Consistent(f)
      BY <2>1, <2>4 DEF Bootstrap!Failed, Bootstrap!State, Consistent
    <2> HIDE DEF f
    <2>6. PICK x : x = [op[p] EXCEPT !.pc = "report", !.st = f]
      OBVIOUS
    <2>7. op' = [op EXCEPT ![p] = x]
      BY <1>2, <2>3, <2>6 DEF Bootstrap!Set
    <2>8. /\ x \in RunProcess /\ x.pc = "report" /\ x.st = f /\ x.fd = fd
      BY <1>2, <2>5, <2>6 DEF RunProcess
    <2>9. file[fd] \in Seq(Bootstrap!Block) /\ OneHead(file[fd]) /\ n \in 0..Len(file[fd])
      BY <1>2, <1>3, FilesKnown DEF Begins, RunProcess
    <2>10. /\ SubSeq(file[fd], 1, n) \in Seq(Bootstrap!Block) /\ Len(SubSeq(file[fd], 1, n)) = n
           /\ \A k \in 1..n : SubSeq(file[fd], 1, n)[k] = file[fd][k]
      BY <2>9, CutFacts
    <2> HIDE DEF n, fd
    <2>11. /\ file' \in Seq(Seq(Bootstrap!Block)) /\ Len(file') = Len(file)
           /\ file'[fd] = SubSeq(file[fd], 1, n)
           /\ \A i \in 1..Len(file) : i # fd => file'[i] = file[i]
      BY <1>2, <1>6, <2>10, PutFacts DEF BootInv, FilesShaped
    <2>12. OneHead(file'[fd])
      BY <2>9, <2>10, <2>11, SMTT(30) DEF OneHead
    <2>13. NotBy(file'[fd], op[p].st.run)
      BY <1>3, <2>9, <2>10, <2>11 DEF NotBy, Begins, n
    <2>14. Stage(x)
      BY <2>5, <2>8 DEF Stage, Proving, Locked
    <2>15. Original(x)' /\ Unwritten(x)' /\ Unfinished(x)'
      BY <1>1, <1>2, <2>4, <2>5, <2>8
         DEF Original, Unwritten, Unfinished, Written, Writing, Locked, Proving
    <2>16. BootHolds(x, p)'
      BY <1>2, <2>8, <2>11, <2>14, <2>15 DEF BootHolds, Locked
    <2>17. NotBy(file'[1], op[p].st.run)
      <3>1. CASE fd = 1
        BY <2>13, <3>1
      <3>2. CASE fd # 1
        <4>1. file'[1] = file[1]
          BY <2>11, <3>2 DEF BootInv, FilesShaped
        <4>2. ~Leaving(op[p])
          BY <1>3, <3>2 DEF Leaving, fd
        <4>3. ~Told(op[p].st.run)
          BY <1>1, <1>2, <4>2 DEF Told, Unfinished, BootInv, BootsHold
        <4>4. op[p].st.run \in 1..MaxRuns
          BY <1>2 DEF Bootstrap!State, Bootstrap!Runs
        <4> QED
          BY <4>1, <4>3, <4>4 DEF BootInv, LeftoversTold
      <3> QED
        BY <3>1, <3>2
    <2>18. \A k \in 1..Len(file'[1]) : file'[1][k].by = op[p].st.run => Leaving(x)
      BY <2>17 DEF NotBy
    <2>19. \A k \in 1..Len(file'[fd]) :
             \/ file'[fd][k].by = op[p].st.run
             \/ \E j \in 1..Len(file[fd]) : file[fd][j] = file'[fd][k]
      BY <2>9, <2>10, <2>11
    <2>20. OtherLocks(p)
      BY <2>3, UnlockIsQuiet
    <2>21. x.pc # "idle" /\ x.st.run = op[p].st.run /\ op[p].pc \in Writing
      BY <1>1, <2>4, <2>5, <2>8 DEF Writing, Locked
    <2> QED
      BY <1>1, <2>7, <2>11, <2>12, <2>16, <2>18, <2>19, <2>20, <2>21, BootWrites DEF fd
  <1> QED
    BY <1>4, <1>5, <1>6

\* What one block more does to the contents of a file.
LEMMA EditKeeps ==
    ASSUME BootInv, NEW kind \in {"user", "alien"}, Bootstrap!Edit(kind) PROVE BootInv'
  <1> DEFINE b == [kind |-> kind, by |-> MaxRuns + edits + 1]
  <1>1. /\ edits \in 0..MaxEdits /\ edits' = edits + 1 /\ edits' \in 0..MaxEdits
        /\ UNCHANGED <<op, results, receipt, backups, faults>>
    BY BoundsAssumption, SMTT(30) DEF Bootstrap!Edit, Bootstrap!KeepReceipts, BootInv, ResultsShaped
  <1>2. b \in Bootstrap!Block /\ b.kind # "head" /\ \A r \in 1..MaxRuns : b.by # r
    <2>1. MaxRuns \in Nat /\ MaxEdits \in Nat
      BY BoundsAssumption
    <2>2. MaxRuns + edits + 1 \in (MaxRuns + 1)..(MaxRuns + MaxEdits)
      BY <1>1, <2>1
    <2> QED
      BY <2>1, <2>2 DEF Bootstrap!Block
  <1> DEFINE edited == Append(file[config], b)
  <1>3. /\ config \in 1..Len(file) /\ Len(file) \in Nat \ {0} /\ file \in Seq(Seq(Bootstrap!Block))
        /\ file[config] \in Seq(Bootstrap!Block) /\ Len(file[config]) \in Nat
        /\ lock \in Seq(Operators \cup {Nobody}) /\ Len(lock) = Len(file)
    BY FilesKnown DEF BootInv, FilesShaped
  <1>4. \/ /\ file' = [file EXCEPT ![config] = edited] /\ UNCHANGED <<config, lock>>
        \/ /\ file' = Append(file, edited) /\ config' = Len(file) + 1
           /\ lock' = Append(lock, Nobody)
    BY DEF Bootstrap!Edit, Bootstrap!Edited
  <1> HIDE DEF b
  <1>5. /\ edited \in Seq(Bootstrap!Block) /\ Len(edited) = Len(file[config]) + 1
        /\ edited[Len(file[config]) + 1] = b
        /\ \A k \in 1..Len(file[config]) : edited[k] = file[config][k]
    BY <1>2, <1>3, AppendFacts
  <1> HIDE DEF edited
  <1>6. /\ file' \in Seq(Seq(Bootstrap!Block)) /\ Len(file) <= Len(file') /\ Len(file') \in Nat
        /\ config' \in 1..Len(file') /\ lock' \in Seq(Operators \cup {Nobody})
        /\ Len(lock') = Len(file') /\ \A i \in 1..Len(file) : lock'[i] = lock[i]
        /\ \A i \in 1..Len(file) : file'[i] = file[i] \/ (i = config /\ file'[i] = edited)
        /\ \A i \in 1..Len(file') : i > Len(file) => file'[i] = edited
    <2>1. CASE file' = [file EXCEPT ![config] = edited] /\ UNCHANGED <<config, lock>>
      BY <1>3, <1>5, <2>1, PutFacts
    <2>2. CASE /\ file' = Append(file, edited) /\ config' = Len(file) + 1
               /\ lock' = Append(lock, Nobody)
      <3>1. /\ file' \in Seq(Seq(Bootstrap!Block)) /\ Len(file') = Len(file) + 1
            /\ file'[Len(file) + 1] = edited /\ \A i \in 1..Len(file) : file'[i] = file[i]
        BY <1>3, <1>5, <2>2, AppendFacts
      <3>2. /\ lock' \in Seq(Operators \cup {Nobody}) /\ Len(lock') = Len(file) + 1
            /\ \A i \in 1..Len(file) : lock'[i] = lock[i]
        <4>1. Nobody \in Operators \cup {Nobody}
          OBVIOUS
        <4> QED
          BY <1>3, <2>2, <4>1, AppendFacts
      <3> QED
        BY <1>3, <2>2, <3>1, <3>2
    <2> QED
      BY <1>4, <2>1, <2>2
  <1>7. /\ OneHead(edited) /\ (NoHead(file[config]) => NoHead(edited))
        /\ \A r : NotBy(file[config], r) /\ b.by # r => NotBy(edited, r)
        /\ \A o \in Seq(Bootstrap!Block) : Begins(file[config], o) => Begins(edited, o)
    <2>1. OneHead(file[config])
      BY <1>3, FilesKnown
    <2> QED
      BY <1>2, <1>3, <1>5, <2>1, OneBlockMore
  <1>8. \A r \in 1..MaxRuns : NotBy(file[config], r) => NotBy(edited, r)
    BY <1>2, <1>7
  <1>9. \A i \in 1..Len(file') : i \in 1..Len(file) \/ i > Len(file)
    BY <1>3, <1>6
  <1>10. FilesShaped'
    <2>1. \A i \in 1..Len(file) : OneHead(file[i])
      BY FilesKnown
    <2>2. \A i \in 1..Len(file') : OneHead(file'[i])
      BY <1>6, <1>7, <1>9, <2>1
    <2>3. Len(file') > 0
      BY <1>3, <1>6
    <2> QED
      BY <1>6, <2>2, <2>3 DEF FilesShaped
  <1>11. ResultsShaped'
    BY <1>1 DEF BootInv, ResultsShaped
  <1>12. ASSUME NEW r \in 1..MaxRuns, \A i \in 1..Len(file) : NotBy(file[i], r)
         PROVE  \A i \in 1..Len(file') : NotBy(file'[i], r)
    <2>1. NotBy(edited, r)
      BY <1>3, <1>8, <1>12
    <2> QED
      BY <1>6, <1>9, <1>12, <2>1
  <1>13. ASSUME NEW q \in Operators PROVE BootHolds(op[q], q)'
    <2>1. op'[q] = op[q] /\ BootHolds(op[q], q) /\ op[q].fd \in 1..Len(file) /\ op[q] \in RunProcess
      BY <1>1 DEF BootInv, BootsHold, BootHolds
    <2>2. op[q].st.run \in 1..MaxRuns
      BY <2>1 DEF RunProcess, Bootstrap!State, Bootstrap!Runs
    <2>3. /\ NoHead(file[op[q].fd]) => NoHead(file'[op[q].fd])
          /\ Begins(file[op[q].fd], op[q].original) => Begins(file'[op[q].fd], op[q].original)
      BY <1>6, <1>7, <2>1 DEF RunProcess
    <2>4. Original(op[q])'
      BY <2>1, <2>3 DEF BootHolds, Original
    <2>5. Unwritten(op[q])'
      BY <1>12, <2>1, <2>2 DEF BootHolds, Unwritten
    <2>6. Unfinished(op[q])'
      BY <1>1, <2>1 DEF BootHolds, Unfinished
    <2> QED
      BY <1>6, <2>1, <2>4, <2>5, <2>6 DEF BootHolds
  <1>14. BootsHold'
    BY <1>1, <1>13 DEF BootInv, BootsHold
  <1>15. LeftoversTold'
    <2>1. \A r : Told(r) => Told(r)'
      BY <1>1 DEF Told
    <2>2. \A r \in 1..MaxRuns : NotBy(file[1], r) => NotBy(file'[1], r)
      <3>1. 1 \in 1..Len(file)
        BY <1>3
      <3> QED
        BY <1>6, <1>8, <3>1
    <2> QED
      BY <1>1, <1>12, <2>1, <2>2 DEF BootInv, LeftoversTold
  <1>16. PassReceiptHolds'
    BY <1>1 DEF BootInv, PassReceiptHolds
  <1> QED
    BY <1>10, <1>11, <1>14, <1>15, <1>16 DEF BootInv

LEMMA IdleFits ==
    /\ Bootstrap!Idle \in RunProcess /\ Bootstrap!Idle.pc = "idle" /\ Bootstrap!Idle.fd = 1
    /\ Bootstrap!Idle.st = Bootstrap!Fresh(1)
  <1>1. 1 \in Bootstrap!Runs
    BY BoundsAssumption DEF Bootstrap!Runs
  <1>2. Bootstrap!Fresh(1) \in Bootstrap!State
    BY <1>1 DEF Bootstrap!Fresh, Bootstrap!State
  <1>3. <<>> \in Seq(Bootstrap!Block) /\ "operator" \in Bootstrap!Profiles
    BY DEF Bootstrap!Profiles
  <1> QED
    BY <1>2, <1>3 DEF Bootstrap!Idle, RunProcess

LEMMA IdleHolds ==
    ASSUME Len(file) \in Nat \ {0}, NEW p PROVE BootHolds(Bootstrap!Idle, p)
  BY IdleFits DEF BootHolds, Stage, Original, Unwritten, Unfinished, Proving, Locked, Writing, Written

\* A run that ends, one way or another.
LEMMA BootEnds ==
    ASSUME BootInv, NEW p \in Operators, op[p].pc # "idle",
           op' = [op EXCEPT ![p] = Bootstrap!Idle],
           UNCHANGED <<file, config, edits>>, OtherLocks(p),
           faults' \in {faults, faults + 1}, backups' \subseteq Bootstrap!State,
           NEW y \in RunResult, y.valid, results' = [results EXCEPT ![op[p].st.run] = y],
           Leaving(op[p]) => y.alias_created \/ y.status = "killed",
           receipt' = receipt \/ (receipt' \in Bootstrap!State /\ receipt'.run = op[p].st.run),
           receipt' # Bootstrap!NoReceipt /\ receipt'.status = "PASS" /\ receipt'.run = op[p].st.run
             => y.status \in {"PASS", "killed"} \/ faults' > 1
    PROVE  BootInv'
  <1> DEFINE run == op[p].st.run
  <1>1. /\ op[p] \in RunProcess /\ run \in 1..Len(results) /\ DOMAIN op = Operators
        /\ faults \in Nat
    <2>1. op[p].st \in Bootstrap!State /\ BootHolds(op[p], p)
      BY BootKnown
    <2> QED
      BY <2>1, BootKnown
         DEF BootHolds, Unfinished, Bootstrap!State, Bootstrap!Runs, BootInv, ResultsShaped
  <1>2. /\ results' \in Seq(RunResult) /\ Len(results') = Len(results) /\ results'[run] = y
        /\ \A r \in 1..Len(results) : r # run => results'[r] = results[r]
    BY <1>1, PutFacts DEF BootInv, ResultsShaped
  <1>3. FilesShaped'
    BY DEF BootInv, FilesShaped, OtherLocks
  <1>4. ResultsShaped'
    BY <1>1, <1>2 DEF BootInv, ResultsShaped
  <1>5. ASSUME NEW q \in Operators, q # p PROVE BootHolds(op[q], q)'
    <2>1. op'[q] = op[q] /\ BootHolds(op[q], q) /\ op[q].fd \in 1..Len(lock)
      BY <1>5 DEF BootInv, BootsHold, BootHolds, FilesShaped
    <2>2. Original(op[q])' /\ Unwritten(op[q])'
      BY <2>1 DEF BootHolds, Original, Unwritten
    <2>3. op[q].pc # "idle" => op[q].st.run # run /\ op[q].st.run \in 1..Len(results)
      <3>1. op[q].st.run \in Nat \ {0}
        BY BootKnown DEF Bootstrap!State, Bootstrap!Runs
      <3> QED
        BY <1>5, <2>1, <3>1 DEF BootInv, BootsHold, BootHolds, Unfinished, ResultsShaped
    <2>4. Unfinished(op[q])'
      BY <1>2, <2>1, <2>3 DEF BootHolds, Unfinished
    <2> QED
      BY <1>5, <2>1, <2>2, <2>4 DEF BootHolds, OtherLocks
  <1>6. BootHolds(op[p], p)'
    <2>1. op'[p] = Bootstrap!Idle /\ Bootstrap!Idle.pc = "idle" /\ Bootstrap!Idle.fd = 1
      BY <1>1, IdleFits
    <2>2. Bootstrap!Idle \in RunProcess /\ 1 \in 1..Len(file')
      BY IdleFits DEF BootInv, FilesShaped
    <2>3. /\ Stage(op[p])' /\ Original(op[p])' /\ Unwritten(op[p])' /\ Unfinished(op[p])'
      BY <2>1 DEF Stage, Original, Unwritten, Unfinished, Proving, Locked, Writing, Written
    <2> QED
      BY <2>1, <2>2, <2>3 DEF BootHolds, Locked
  <1>7. BootsHold'
    <2>1. DOMAIN op' = Operators /\ op'[p].pc = "idle" /\ \A q \in Operators : q # p => op'[q] = op[q]
      BY <1>1, IdleFits
    <2>2. \A q, r \in Operators :
            op'[q].pc # "idle" /\ op'[r].pc # "idle" /\ op'[q].st.run = op'[r].st.run => q = r
      BY <2>1 DEF BootInv, BootsHold
    <2> QED
      BY <1>5, <1>6, <2>1, <2>2 DEF BootsHold
  <1>8. LeftoversTold'
    <2>1. ASSUME NEW r \in 1..MaxRuns, Told(r), r <= Len(results) PROVE Told(r)'
      <3>1. CASE r = run
        <4>1. y.alias_created \/ y.status = "killed"
          <5>1. results[run].status = "BLOCKED" /\ ~results[run].alias_created
            BY BootKnown DEF BootHolds, Unfinished
          <5> QED
            BY <2>1, <3>1, <5>1 DEF Told, BootInv, BootsHold
        <4> QED
          BY <1>2, <3>1, <4>1 DEF Told
      <3>2. CASE r # run
        <4>1. results'[r] = results[r]
          BY <1>2, <2>1, <3>2
        <4>2. \A q \in Operators : op[q].st.run = r => op'[q] = op[q]
          BY <3>2
        <4> QED
          BY <2>1, <4>1, <4>2 DEF Told
      <3> QED
        BY <3>1, <3>2
    <2>2. 1 \in 1..Len(file)
      BY DEF BootInv, FilesShaped
    <2> QED
      BY <1>2, <2>1, <2>2 DEF BootInv, LeftoversTold, ResultsShaped
  <1>9. PassReceiptHolds'
    <2>1. SUFFICES ASSUME receipt' # Bootstrap!NoReceipt, receipt'.status = "PASS"
                   PROVE  \/ results'[receipt'.run].status \in {"PASS", "killed"}
                          \/ faults' > 1
                          \/ /\ faults' > 0
                             /\ \E q \in Operators : op'[q].pc = "report" /\ op'[q].st.run = receipt'.run
      BY DEF PassReceiptHolds
    <2>2. CASE receipt'.run = run
      BY <1>2, <2>1, <2>2
    <2>3. CASE receipt'.run # run
      <3>1. receipt' = receipt /\ receipt.run \in 1..Len(results)
        BY <1>1, <2>1, <2>3 DEF BootInv, ResultsShaped, Bootstrap!State, Bootstrap!Runs
      <3>2. \A q \in Operators : op[q].st.run = receipt.run => op'[q] = op[q]
        BY <2>3, <3>1
      <3>3. results'[receipt.run] = results[receipt.run]
        BY <1>2, <2>3, <3>1
      <3> QED
        BY <1>1, <2>1, <3>1, <3>2, <3>3 DEF BootInv, PassReceiptHolds
    <2> QED
      BY <2>2, <2>3
  <1> QED
    BY <1>3, <1>4, <1>7, <1>8, <1>9 DEF BootInv

\* A PASS receipt of a run that has not ended was left by a write that failed.
LEMMA EarlyPassReceipt ==
    ASSUME BootInv, NEW p \in Operators, op[p].pc # "idle", receipt # Bootstrap!NoReceipt,
           receipt.status = "PASS", receipt.run = op[p].st.run
    PROVE  faults > 1 \/ (faults > 0 /\ op[p].pc = "report")
  <1>1. results[op[p].st.run].status = "BLOCKED"
    BY BootKnown DEF BootHolds, Unfinished
  <1> QED
    BY <1>1 DEF BootInv, PassReceiptHolds, BootsHold

LEMMA BootReturns ==
    ASSUME BootInv, NEW p \in Operators, op[p].pc # "idle",
           NEW s \in Bootstrap!State, s.run = op[p].st.run, Consistent(s),
           s.reasons <=> s.status # "PASS", NEW private_created \in BOOLEAN,
           s.status = "PASS" => s.alias_reverified /\ private_created,
           Leaving(op[p]) => s.alias_created,
           Bootstrap!Return(p, s, private_created),
           UNCHANGED <<file, config, lock, edits>>,
           faults' \in {faults, faults + 1}, backups' \subseteq Bootstrap!State,
           \/ receipt' = receipt /\ (op[p].pc = "report" => faults' = faults + 1)
           \/ /\ receipt' \in Bootstrap!State /\ receipt'.run = s.run
              /\ receipt'.status = "PASS" => s.status = "PASS"
    PROVE  BootInv'
  <1> DEFINE y == [status |-> s.status, alias_created |-> s.alias_created,
                   valid |-> Bootstrap!ValidSanitized(s, private_created)]
  <1>1. op' = [op EXCEPT ![p] = Bootstrap!Idle] /\ results' = [results EXCEPT ![op[p].st.run] = y]
    BY DEF Bootstrap!Return
  <1>2. Bootstrap!ValidSanitized(s, private_created)
    BY DEF Bootstrap!ValidSanitized, Consistent, Bootstrap!State
  <1>3. y \in RunResult /\ y.valid /\ y.status = s.status /\ (y.alias_created <=> s.alias_created)
    <2>1. Bootstrap!ValidSanitized(s, private_created) \in BOOLEAN
      BY DEF Bootstrap!ValidSanitized
    <2> QED
      BY <1>2, <2>1 DEF RunResult, Bootstrap!State
  <1> HIDE DEF y
  <1>4. OtherLocks(p)
    BY DEF OtherLocks, BootInv, FilesShaped
  <1>5. receipt' # Bootstrap!NoReceipt /\ receipt'.status = "PASS" /\ receipt'.run = op[p].st.run
          => y.status \in {"PASS", "killed"} \/ faults' > 1
    <2>1. faults \in Nat
      BY DEF BootInv, ResultsShaped
    <2> QED
      BY <1>3, <2>1, EarlyPassReceipt
  <1> QED
    BY <1>1, <1>3, <1>4, <1>5, BootEnds

LEMMA FailedKnown ==
    ASSUME NEW s \in Bootstrap!State, Consistent(s)
    PROVE  LET f == Bootstrap!Failed(s, "FAIL")
           IN /\ f \in Bootstrap!State /\ f.run = s.run /\ f.reasons /\ f.status = "FAIL"
              /\ f.alias_created = s.alias_created /\ Consistent(f)
  BY DEF Bootstrap!Failed, Bootstrap!State, Consistent

LEMMA PreserveKeeps ==
    ASSUME BootInv, NEW p \in Operators, Bootstrap!Preserve(p) PROVE BootInv'
  <1>1. op[p].pc = "preserve" /\ UNCHANGED <<file, config, lock, receipt, edits>>
    BY DEF Bootstrap!Preserve, Bootstrap!At, Bootstrap!KeepFiles
  <1>2. /\ op[p] \in RunProcess /\ op[p].st \in Bootstrap!State /\ op[p].fd \in 1..Len(file)
        /\ Stage(op[p]) /\ Original(op[p]) /\ Unwritten(op[p]) /\ DOMAIN op = Operators
        /\ Consistent(op[p].st)
    BY <1>1, BootKnown, StagesConsistent DEF BootHolds
  <1>3. ~Leaving(op[p])
    BY <1>1, <1>2 DEF Leaving, Stage, Blank, Writing, Locked
  <1>4. \A b : b \in {backups, backups \cup ({receipt} \ {Bootstrap!NoReceipt})} => b \subseteq Bootstrap!State
    BY DEF BootInv, ResultsShaped
  <1>5. CASE /\ backups' = backups \cup ({receipt} \ {Bootstrap!NoReceipt})
             /\ Bootstrap!Go(p, "begin") /\ UNCHANGED <<results, faults>>
    <2> DEFINE x == [op[p] EXCEPT !.pc = "begin"]
    <2>1. op' = [op EXCEPT ![p] = x]
      BY <1>2, <1>5 DEF Bootstrap!Go
    <2>2. /\ x \in RunProcess /\ x.pc = "begin" /\ x.st = op[p].st /\ x.fd = op[p].fd
          /\ x.original = op[p].original
      BY <1>2 DEF RunProcess
    <2>3. OtherLocks(p)
      BY <1>1 DEF OtherLocks, BootInv, FilesShaped
    <2>4. Quiet(p, x)
      BY <1>1, <1>4, <1>5, <2>3 DEF Quiet, ReceiptStep
    <2> HIDE DEF x
    <2>5. Sound(p, x)
      BY <1>1, <1>2, <2>2
         DEF Sound, Stage, Original, Unwritten, Locked, Writing, Written, Proving, Leaving
    <2> QED
      BY <1>1, <2>1, <2>2, <2>4, <2>5, BootMoves
  <1>6. CASE /\ receipt # Bootstrap!NoReceipt /\ backups' \in {backups, backups \cup {receipt}}
             /\ Bootstrap!OSError /\ Bootstrap!Return(p, Bootstrap!Failed(op[p].st, "FAIL"), FALSE)
    <2>1. backups' \subseteq Bootstrap!State
      BY <1>4, <1>6
    <2>2. faults' = faults + 1
      BY <1>6 DEF Bootstrap!OSError
    <2> QED
      BY <1>1, <1>2, <1>3, <1>6, <2>1, <2>2, FailedKnown, BootReturns
  <1> QED
    BY <1>5, <1>6 DEF Bootstrap!Preserve

LEMMA BeginKeeps ==
    ASSUME BootInv, NEW p \in Operators, Bootstrap!Begin(p) PROVE BootInv'
  <1>1. op[p].pc = "begin" /\ UNCHANGED <<file, config, lock, backups, edits>>
    BY DEF Bootstrap!Begin, Bootstrap!At, Bootstrap!KeepFiles
  <1>2. /\ op[p] \in RunProcess /\ op[p].st \in Bootstrap!State /\ op[p].fd \in 1..Len(file)
        /\ Stage(op[p]) /\ Original(op[p]) /\ Unwritten(op[p]) /\ DOMAIN op = Operators
        /\ Consistent(op[p].st) /\ backups \subseteq Bootstrap!State
    BY <1>1, BootKnown, StagesConsistent DEF BootHolds, BootInv, ResultsShaped
  <1>3. ~Leaving(op[p]) /\ op[p].st.status = "BLOCKED"
    BY <1>1, <1>2 DEF Leaving, Stage, Blank, Writing, Locked
  <1>4. CASE Bootstrap!AtomicWrite(op[p].st, TRUE) /\ Bootstrap!Go(p, "guard") /\ UNCHANGED results
    <2> DEFINE x == [op[p] EXCEPT !.pc = "guard"]
    <2>1. op' = [op EXCEPT ![p] = x]
      BY <1>2, <1>4 DEF Bootstrap!Go
    <2>2. /\ x \in RunProcess /\ x.pc = "guard" /\ x.st = op[p].st /\ x.fd = op[p].fd
          /\ x.original = op[p].original
      BY <1>2 DEF RunProcess
    <2>3. OtherLocks(p)
      BY <1>1 DEF OtherLocks, BootInv, FilesShaped
    <2>4. receipt' = op[p].st /\ faults' = faults
      BY <1>4 DEF Bootstrap!AtomicWrite
    <2>5. Quiet(p, x)
      BY <1>1, <1>2, <1>3, <1>4, <2>2, <2>3, <2>4 DEF Quiet, ReceiptStep
    <2> HIDE DEF x
    <2>6. Sound(p, x)
      BY <1>1, <1>2, <2>2
         DEF Sound, Stage, Original, Unwritten, Locked, Writing, Written, Proving, Leaving
    <2> QED
      BY <1>1, <2>1, <2>2, <2>5, <2>6, BootMoves
  <1>5. CASE /\ Bootstrap!AtomicWrite(op[p].st, FALSE)
             /\ Bootstrap!Return(p, Bootstrap!Failed(op[p].st, "FAIL"), FALSE)
    <2>1. faults' = faults + 1 /\ receipt' \in {op[p].st, receipt}
      BY <1>5 DEF Bootstrap!AtomicWrite, Bootstrap!OSError
    <2> QED
      BY <1>1, <1>2, <1>3, <1>5, <2>1, FailedKnown, BootReturns
  <1> QED
    BY <1>4, <1>5 DEF Bootstrap!Begin

LEMMA WritePassKeeps ==
    ASSUME BootInv, NEW p \in Operators, Bootstrap!WritePass(p) PROVE BootInv'
  <1> DEFINE s == op[p].st
  <1>1. op[p].pc = "pass" /\ UNCHANGED <<file, config, lock, backups, edits>>
    BY DEF Bootstrap!WritePass, Bootstrap!At, Bootstrap!KeepFiles
  <1>2. /\ op[p] \in RunProcess /\ s \in Bootstrap!State /\ Stage(op[p]) /\ Consistent(s)
        /\ backups \subseteq Bootstrap!State
    BY <1>1, BootKnown, StagesConsistent DEF BootHolds, BootInv, ResultsShaped
  <1>3. Proved(s) /\ s.alias_reverified /\ s.status = "PASS" /\ ~s.reasons
    BY <1>1, <1>2 DEF Stage
  <1>4. Bootstrap!ValidPrivate(s)
    BY <1>2, <1>3 DEF Bootstrap!ValidPrivate, Consistent, Proved
  <1>5. Leaving(op[p]) => s.alias_created
    BY <1>1 DEF Leaving, Writing, Locked
  <1>6. CASE Bootstrap!AtomicWrite(s, TRUE) /\ Bootstrap!Return(p, s, TRUE)
    <2>1. receipt' = s /\ faults' = faults
      BY <1>6 DEF Bootstrap!AtomicWrite
    <2> QED
      BY <1>1, <1>2, <1>3, <1>5, <1>6, <2>1, BootReturns
  <1>7. CASE Bootstrap!AtomicWrite(s, FALSE) /\ Bootstrap!Raise(p, "FAIL") /\ UNCHANGED results
    <2>1. faults' = faults + 1 /\ receipt' \in {s, receipt} /\ faults \in Nat
      BY <1>7 DEF Bootstrap!AtomicWrite, Bootstrap!OSError, BootInv, ResultsShaped
    <2>2. OtherLocks(p)
      BY <1>1 DEF OtherLocks, BootInv, FilesShaped
    <2> DEFINE f == Bootstrap!Failed(s, "FAIL")
               x == [op[p] EXCEPT !.pc = "report", !.st = f]
    <2>3. f \in Bootstrap!State /\ f.run = s.run
      BY <1>2, FailedKnown
    <2> HIDE DEF f
    <2>4. x.pc = "report" /\ x.st = f
      BY <1>2 DEF RunProcess
    <2> HIDE DEF x
    <2>5. Quiet(p, x)
      BY <1>1, <1>2, <1>7, <2>1, <2>2, <2>3, <2>4 DEF Quiet, ReceiptStep
    <2> QED
      BY <1>1, <1>2, <1>5, <1>7, <2>5, BootFails DEF Bootstrap!Raise, x, f
  <1> QED
    BY <1>4, <1>6, <1>7 DEF Bootstrap!WritePass

LEMMA ReportKeeps ==
    ASSUME BootInv, NEW p \in Operators, Bootstrap!Report(p) PROVE BootInv'
  <1> DEFINE s == op[p].st
  <1>1. op[p].pc = "report" /\ UNCHANGED <<file, config, lock, backups, edits>>
    BY DEF Bootstrap!Report, Bootstrap!At, Bootstrap!KeepFiles
  <1>2. /\ op[p] \in RunProcess /\ s \in Bootstrap!State /\ Stage(op[p]) /\ Consistent(s)
        /\ backups \subseteq Bootstrap!State
    BY <1>1, BootKnown, StagesConsistent DEF BootHolds, BootInv, ResultsShaped
  <1>3. s.status # "PASS" /\ s.reasons
    BY <1>1, <1>2 DEF Stage
  <1>4. Bootstrap!ValidPrivate(s)
    BY <1>2, <1>3 DEF Bootstrap!ValidPrivate, Consistent
  <1>5. Leaving(op[p]) => s.alias_created
    BY <1>1 DEF Leaving, Writing, Locked
  <1>6. CASE Bootstrap!AtomicWrite(s, TRUE) /\ Bootstrap!Return(p, s, TRUE)
    <2>1. receipt' = s /\ faults' = faults
      BY <1>6 DEF Bootstrap!AtomicWrite
    <2> QED
      BY <1>1, <1>2, <1>3, <1>5, <1>6, <2>1, BootReturns
  <1>7. CASE Bootstrap!AtomicWrite(s, FALSE) /\ Bootstrap!Return(p, Bootstrap!Failed(s, "FAIL"), FALSE)
    <2>1. faults' = faults + 1 /\ receipt' \in {s, receipt}
      BY <1>7 DEF Bootstrap!AtomicWrite, Bootstrap!OSError
    <2> QED
      BY <1>1, <1>2, <1>3, <1>5, <1>7, <2>1, FailedKnown, BootReturns
  <1> QED
    BY <1>4, <1>6, <1>7 DEF Bootstrap!Report

LEMMA CrashKeeps ==
    ASSUME BootInv, NEW p \in Operators, Bootstrap!Crash(p) PROVE BootInv'
  <1> DEFINE run == op[p].st.run
             y == [results[run] EXCEPT !.status = "killed"]
  <1>1. /\ op[p].pc # "idle" /\ op' = [op EXCEPT ![p] = Bootstrap!Idle] /\ Bootstrap!Unlock(p)
        /\ UNCHANGED <<file, config, edits, receipt, backups, faults>>
    BY DEF Bootstrap!Crash, Bootstrap!At, Bootstrap!KeepReceipts
  <1>2. run \in 1..Len(results) /\ results \in Seq(RunResult) /\ backups \subseteq Bootstrap!State
    <2>1. op[p].st \in Bootstrap!State /\ run <= Len(results)
      BY <1>1, BootKnown DEF BootHolds, Unfinished
    <2> QED
      BY <2>1 DEF Bootstrap!State, Bootstrap!Runs, BootInv, ResultsShaped
  <1>3. results' = [results EXCEPT ![run] = y]
    BY <1>2 DEF Bootstrap!Crash
  <1>4. results[run] \in RunResult /\ results[run].valid
    BY <1>2 DEF BootInv, ResultsShaped
  <1>5. y \in RunResult /\ y.valid /\ y.status = "killed"
    BY <1>4 DEF RunResult
  <1> HIDE DEF y
  <1>6. OtherLocks(p)
    BY <1>1, UnlockIsQuiet
  <1> QED
    BY <1>1, <1>2, <1>3, <1>5, <1>6, BootEnds

LEMMA StartBootKeeps ==
    ASSUME BootInv, NEW p \in Operators, Bootstrap!Start(p) PROVE BootInv'
  <1> DEFINE n == Len(results) + 1
             s == Bootstrap!Fresh(n)
  <1>1. /\ op[p].pc = "idle" /\ Len(results) < MaxRuns
        /\ UNCHANGED <<file, config, lock, receipt, backups, edits, faults>>
    BY DEF Bootstrap!Start, Bootstrap!At, Bootstrap!KeepFiles, Bootstrap!KeepReceipts, Bootstrap!KeepBudgets
  <1>2. /\ op[p] \in RunProcess /\ op[p].fd \in 1..Len(file) /\ DOMAIN op = Operators
        /\ results \in Seq(RunResult) /\ Len(results) \in Nat
    BY BootKnown DEF BootHolds, BootInv, ResultsShaped
  <1>3. n \in 1..MaxRuns /\ s \in Bootstrap!State /\ s.run = n
    <2>1. n \in 1..MaxRuns
      BY <1>1, <1>2, BoundsAssumption, SMTT(30)
    <2> QED
      BY <2>1 DEF Bootstrap!Fresh, Bootstrap!State, Bootstrap!Runs
  <1>4. Blank(s) /\ ~s.selected /\ ~s.source_verified /\ s.api_operations = 0
    BY DEF Bootstrap!Fresh, Blank
  <1>5. PICK y \in RunResult :
          /\ results' = Append(results, y) /\ y.valid /\ ~y.alias_created
          /\ \/ y.status = "BLOCKED" /\ Bootstrap!Set(p, "preserve", s)
             \/ op' = op
    <2> DEFINE b == [status |-> "BLOCKED", alias_created |-> FALSE, valid |-> TRUE]
               f == [status |-> "FAIL", alias_created |-> FALSE, valid |-> TRUE]
    <2>1. b \in RunResult /\ b.valid /\ ~b.alias_created /\ b.status = "BLOCKED"
      BY DEF RunResult
    <2>2. f \in RunResult /\ f.valid /\ ~f.alias_created
      BY DEF RunResult
    <2>3. \/ Bootstrap!Set(p, "preserve", s) /\ results' = Append(results, b)
          \/ results' = Append(results, f) /\ op' = op
      BY DEF Bootstrap!Start
    <2> HIDE DEF b, f
    <2> QED
      BY <2>1, <2>2, <2>3
  <1>6. /\ results' \in Seq(RunResult) /\ Len(results') = n /\ results'[n] = y
        /\ \A r \in 1..Len(results) : results'[r] = results[r]
    BY <1>2, <1>5, AppendFacts
  <1>7. FilesShaped'
    BY <1>1 DEF BootInv, FilesShaped
  <1>8. ResultsShaped'
    <2>1. n <= MaxRuns /\ \A r \in 1..n : r \in 1..Len(results) \/ r = n
      <3>1. n \in 1..MaxRuns /\ MaxRuns \in Nat
        BY <1>3, BoundsAssumption
      <3> QED
        BY <1>2, <3>1
    <2>2. \A r \in 1..n : results'[r].valid
      BY <1>5, <1>6, <2>1 DEF BootInv, ResultsShaped
    <2>3. receipt # Bootstrap!NoReceipt => receipt.run <= n
      <3>1. receipt # Bootstrap!NoReceipt => receipt.run \in Nat /\ receipt.run <= Len(results)
        BY DEF BootInv, ResultsShaped, Bootstrap!State, Bootstrap!Runs
      <3> QED
        BY <1>2, <3>1
    <2> QED
      BY <1>1, <1>6, <2>1, <2>2, <2>3 DEF BootInv, ResultsShaped
  <1>9. ASSUME NEW q \in Operators, NEW x, x = op[q], BootHolds(x, q) PROVE BootHolds(x, q)'
    <2>1. Original(x)' /\ Unwritten(x)'
      BY <1>1, <1>9 DEF BootHolds, Original, Unwritten
    <2>2. Unfinished(x)'
      <3>1. x.pc # "idle" => x.st.run \in 1..Len(results)
        BY <1>2, <1>9, BootKnown DEF BootHolds, Unfinished, Bootstrap!State, Bootstrap!Runs
      <3> QED
        BY <1>2, <1>6, <1>9, <3>1 DEF BootHolds, Unfinished
    <2> QED
      BY <1>1, <1>9, <2>1, <2>2 DEF BootHolds
  <1>10. \A q \in Operators : op[q].pc # "idle" => op[q].st.run <= Len(results)
    BY DEF BootInv, BootsHold, BootHolds, Unfinished
  <1>11. BootsHold' /\ \A r \in 1..Len(results) : Told(r) => Told(r)'
    <2>1. CASE op' = op
      <3>1. \A q \in Operators : BootHolds(op[q], q)'
        BY <1>9, <2>1 DEF BootInv, BootsHold, BootHolds, Original, Unwritten, Unfinished
      <3> QED
        BY <1>6, <2>1, <3>1 DEF BootInv, BootsHold, Told
    <2>2. CASE y.status = "BLOCKED" /\ Bootstrap!Set(p, "preserve", s)
      <3>1. PICK x : x = [op[p] EXCEPT !.pc = "preserve", !.st = s]
        OBVIOUS
      <3> HIDE DEF s, n
      <3>2. op' = [op EXCEPT ![p] = x]
        BY <1>2, <2>2, <3>1 DEF Bootstrap!Set
      <3>3. x \in RunProcess /\ x.pc = "preserve" /\ x.st = s /\ x.fd = op[p].fd
        BY <1>2, <1>3, <3>1 DEF RunProcess
      <3>4. Stage(x)
        BY <1>4, <3>3 DEF Stage, Proving, Locked
      <3>5. Original(x)' /\ Unfinished(x)'
        BY <1>3, <1>5, <1>6, <2>2, <3>3
           DEF Original, Unfinished, Proving, Locked, Writing
      <3>6. Unwritten(x)'
        <4>1. \A i \in 1..Len(file) : NotBy(file[i], n)
          BY <1>2, <1>3 DEF BootInv, LeftoversTold, n
        <4> QED
          BY <1>1, <1>3, <3>3, <4>1 DEF Unwritten, Written, Writing, Locked
      <3>7. BootHolds(x, p)'
        BY <1>1, <1>2, <3>3, <3>4, <3>5, <3>6 DEF BootHolds, Locked
      <3>8. op'[p] = x /\ DOMAIN op' = Operators /\ \A q \in Operators : q # p => op'[q] = op[q]
        BY <1>2, <3>2
      <3>9. \A q \in Operators : BootHolds(op[q], q)'
        <4>1. ASSUME NEW q \in Operators, q # p PROVE BootHolds(op[q], q)'
          <5>1. PICK z : z = op[q]
            OBVIOUS
          <5>2. BootHolds(z, q)'
            BY <1>9, <5>1 DEF BootInv, BootsHold
          <5>3. op'[q] = z
            BY <3>8, <4>1, <5>1
          <5> QED
            BY <5>2, <5>3 DEF BootHolds, Original, Unwritten, Unfinished
        <4>2. BootHolds(op[p], p)'
          BY <3>7, <3>8 DEF BootHolds, Original, Unwritten, Unfinished
        <4> QED
          BY <4>1, <4>2
      <3>10. \A q \in Operators : q # p /\ op[q].pc # "idle" => op[q].st.run # n
        BY <1>2, <1>10 DEF n
      <3>11. \A q, r \in Operators :
               op'[q].pc # "idle" /\ op'[r].pc # "idle" /\ op'[q].st.run = op'[r].st.run => q = r
        BY <1>3, <3>3, <3>8, <3>10 DEF BootInv, BootsHold
      <3>12. \A r \in 1..Len(results) : Told(r) => Told(r)'
        BY <1>1, <1>6, <3>8 DEF Told
      <3> QED
        BY <3>8, <3>9, <3>11, <3>12 DEF BootsHold
    <2> QED
      BY <1>5, <2>1, <2>2
  <1>12. LeftoversTold'
    <2>1. 1 \in 1..Len(file)
      BY DEF BootInv, FilesShaped
    <2> QED
      BY <1>1, <1>2, <1>6, <1>11, <2>1 DEF BootInv, LeftoversTold
  <1>13. PassReceiptHolds'
    <2>1. receipt # Bootstrap!NoReceipt => receipt.run \in 1..Len(results)
      BY DEF BootInv, ResultsShaped, Bootstrap!State, Bootstrap!Runs
    <2>2. op' = op \/ op' = [op EXCEPT ![p].pc = "preserve", ![p].st = s]
      BY <1>5 DEF Bootstrap!Set
    <2> HIDE DEF s
    <2>3. \A q \in Operators : op[q].pc = "report" => op'[q] = op[q]
      BY <1>1, <1>2, <2>2
    <2> QED
      BY <1>1, <1>6, <2>1, <2>3 DEF BootInv, PassReceiptHolds
  <1> QED
    BY <1>7, <1>8, <1>11, <1>12, <1>13 DEF BootInv

LEMMA BootInit == ASSUME Bootstrap!Init PROVE BootInv
  <1>1. /\ file = <<(<<>>)>> /\ config = 1 /\ lock = <<Nobody>> /\ receipt = Bootstrap!NoReceipt
        /\ backups = {} /\ op = [p \in Operators |-> Bootstrap!Idle] /\ results = <<>>
        /\ edits = 0 /\ faults = 0
    BY DEF Bootstrap!Init
  <1>2. /\ file \in Seq(Seq(Bootstrap!Block)) /\ Len(file) = 1 /\ file[1] = <<>>
        /\ lock \in Seq(Operators \cup {Nobody}) /\ Len(lock) = 1
        /\ results \in Seq(RunResult) /\ Len(results) = 0
    BY <1>1
  <1>3. FilesShaped
    BY <1>1, <1>2 DEF FilesShaped, OneHead
  <1>4. ResultsShaped
    BY <1>1, <1>2, BoundsAssumption DEF ResultsShaped
  <1>5. BootsHold
    BY <1>1, <1>2, IdleHolds, IdleFits DEF BootsHold
  <1>6. LeftoversTold
    BY <1>1, <1>2 DEF LeftoversTold, NotBy
  <1>7. PassReceiptHolds
    BY <1>1 DEF PassReceiptHolds
  <1> QED
    BY <1>3, <1>4, <1>5, <1>6, <1>7 DEF BootInv

LEMMA BootNextKeeps ==
    ASSUME BootInv, cast.processes \subseteq Operators, BootstrapNext PROVE BootInv'
  <1>1. ASSUME NEW p \in Operators, Bootstrap!Run_authority_bootstrap(p) PROVE BootInv'
    BY <1>1, StartBootKeeps, PreserveKeeps, BeginKeeps, GuardKeeps, ReadConfigKeeps, IdentifyKeeps,
       AssumeRoleKeeps, RereadKeeps, OpenKeeps, LockKeeps, CompareKeeps, AppendPartKeeps,
       AppendFailsKeeps, RollbackKeeps, TruncateKeeps, CheckAfterKeeps, VerifyAliasKeeps,
       WritePassKeeps, ReportKeeps
       DEF Bootstrap!Run_authority_bootstrap, Bootstrap!Append_config_alias
  <1>2. ASSUME NEW p \in Operators, Bootstrap!Crash(p) PROVE BootInv'
    BY <1>2, CrashKeeps
  <1>3. \A kind \in {"user", "alien"} : Bootstrap!Edit(kind) => BootInv'
    BY EditKeeps
  <1> QED
    BY <1>1, <1>2, <1>3 DEF BootstrapNext

LEMMA BootUnchanged == ASSUME BootInv, UNCHANGED bootstrap PROVE BootInv'
  BY DEF BootInv, FilesShaped, ResultsShaped, BootsHold, BootHolds, Original, Unwritten, Unfinished,
         LeftoversTold, Told, PassReceiptHolds, bootstrap
-----------------------------------------------------------------------------
\* What setting a control point does.
LEMMA SetFacts ==
    ASSUME BootInv, NEW p \in Operators, NEW pc, NEW s, Bootstrap!Set(p, pc, s)
    PROVE  op'[p].pc = pc /\ \A q \in Operators \ {p} : op'[q] = op[q]
  <1> DEFINE x == [op[p] EXCEPT !.pc = pc, !.st = s]
  <1>1. op[p] \in RunProcess /\ DOMAIN op = Operators
    BY BootKnown
  <1>2. op' = [op EXCEPT ![p] = x]
    BY <1>1 DEF Bootstrap!Set
  <1>3. x.pc = pc
    BY <1>1 DEF RunProcess
  <1> HIDE DEF x
  <1> QED
    BY <1>1, <1>2, <1>3

\* One operator at a time: what a step of it may do to the receipts it left.
LEMMA OneRunKeeps ==
    ASSUME BootInv, NEW c \in Operators, \A q \in Operators \ {c} : op[q].pc = "idle", PassesKept,
           \A q \in Operators \ {c} : op'[q] = op[q],
           backups \subseteq backups',
           \A r \in 1..Len(results') : results'[r].status = "PASS" =>
              \/ r \in 1..Len(results) /\ results[r].status = "PASS"
              \/ receipt'.run = r /\ op'[c].pc = "idle",
           op[c].pc \in {"idle", "preserve"} =>
              \/ receipt' = receipt /\ op'[c].pc \in {"idle", "preserve"}
              \/ {receipt} \ {Bootstrap!NoReceipt} \subseteq backups'
    PROVE  PassesKept' /\ \A q \in Operators \ {c} : op'[q].pc = "idle"
  <1>1. SUFFICES ASSUME NEW r \in 1..Len(results'), results'[r].status = "PASS"
                 PROVE  \/ \E s \in backups' : s.run = r
                        \/ receipt'.run = r /\ \A q \in Operators : op'[q].pc \in {"idle", "preserve"}
    BY DEF PassesKept
  <1>2. CASE receipt'.run = r /\ op'[c].pc = "idle"
    BY <1>2
  <1>3. CASE r \in 1..Len(results) /\ results[r].status = "PASS"
    <2>1. CASE \E s \in backups : s.run = r
      BY <2>1
    <2>2. CASE receipt.run = r /\ \A q \in Operators : op[q].pc \in {"idle", "preserve"}
      <3>1. receipt # Bootstrap!NoReceipt
        BY <1>3, <2>2 DEF Bootstrap!NoReceipt
      <3> QED
        BY <2>2, <3>1
    <2> QED
      BY <1>3, <2>1, <2>2 DEF PassesKept
  <1> QED
    BY <1>1, <1>2, <1>3

LEMMA OneStepKeeps ==
    ASSUME BootInv, NEW c \in Operators, \A q \in Operators \ {c} : op[q].pc = "idle", PassesKept,
           Bootstrap!Run_authority_bootstrap(c) \/ Bootstrap!Crash(c)
    PROVE  PassesKept' /\ \A q \in Operators \ {c} : op'[q].pc = "idle"
  <1>1. /\ op[c] \in RunProcess /\ op[c].st \in Bootstrap!State /\ DOMAIN op = Operators
        /\ Stage(op[c]) /\ results \in Seq(RunResult) /\ Len(results) \in Nat
        /\ op[c].pc # "idle" => op[c].st.run \in 1..Len(results)
    BY BootKnown DEF BootHolds, Unfinished, BootInv, ResultsShaped, Bootstrap!State, Bootstrap!Runs
  <1>2. CASE Bootstrap!Start(c)
    <2> DEFINE s == Bootstrap!Fresh(Len(results) + 1)
               b == [status |-> "BLOCKED", alias_created |-> FALSE, valid |-> TRUE]
               f == [status |-> "FAIL", alias_created |-> FALSE, valid |-> TRUE]
    <2>4. /\ op[c].pc = "idle" /\ UNCHANGED <<receipt, backups>>
          /\ \/ Bootstrap!Set(c, "preserve", s) /\ results' = Append(results, b)
             \/ op' = op /\ results' = Append(results, f)
      BY <1>2 DEF Bootstrap!Start, Bootstrap!At, Bootstrap!KeepReceipts
    <2>5. b \in RunResult /\ f \in RunResult /\ b.status # "PASS" /\ f.status # "PASS"
      BY DEF RunResult
    <2> HIDE DEF s, b, f
    <2>1. /\ op[c].pc = "idle" /\ UNCHANGED <<receipt, backups>>
          /\ \A q \in Operators \ {c} : op'[q] = op[q]
          /\ op'[c].pc \in {"idle", "preserve"}
      <3>1. CASE op' = op
        BY <2>4, <3>1
      <3>2. CASE Bootstrap!Set(c, "preserve", s)
        BY <2>4, <3>2, SetFacts
      <3> QED
        BY <2>4, <3>1, <3>2
    <2>2. PICK y \in RunResult : results' = Append(results, y) /\ y.status # "PASS"
      BY <2>4, <2>5
    <2>3. \A r \in 1..Len(results') : results'[r].status = "PASS" =>
            r \in 1..Len(results) /\ results[r].status = "PASS"
      <3>1. /\ Len(results') = Len(results) + 1 /\ results'[Len(results) + 1] = y
            /\ \A r \in 1..Len(results) : results'[r] = results[r]
        BY <1>1, <2>2, AppendFacts
      <3> QED
        BY <1>1, <2>2, <3>1
    <2> QED
      BY <2>1, <2>3, OneRunKeeps
  <1>3. ASSUME NEW s, NEW b, Bootstrap!Return(c, s, b), s.run = op[c].st.run, op[c].pc # "idle"
        PROVE  /\ \A q \in Operators \ {c} : op'[q] = op[q]
               /\ op'[c].pc = "idle"
               /\ \A r \in 1..Len(results') : results'[r].status = "PASS" =>
                    \/ r \in 1..Len(results) /\ results[r].status = "PASS"
                    \/ r = s.run /\ s.status = "PASS"
    <2>1. /\ \A q \in Operators \ {c} : op'[q] = op[q]
          /\ op'[c].pc = "idle"
      BY <1>1, <1>3, IdleFits DEF Bootstrap!Return
    <2> DEFINE y == [status |-> s.status, alias_created |-> s.alias_created,
                     valid |-> Bootstrap!ValidSanitized(s, b)]
    <2>2. results' = [results EXCEPT ![s.run] = y] /\ y.status = s.status
      BY <1>3 DEF Bootstrap!Return
    <2> HIDE DEF y
    <2>3. /\ Len(results') = Len(results)
          /\ \A r \in 1..Len(results) : results'[r] = IF r = s.run THEN y ELSE results[r]
      BY <1>1, <2>2
    <2>4. \A r \in 1..Len(results') : results'[r].status = "PASS" =>
                    \/ r \in 1..Len(results) /\ results[r].status = "PASS"
                    \/ r = s.run /\ s.status = "PASS"
      BY <2>2, <2>3
    <2> QED
      BY <2>1, <2>4
  <1>4. CASE Bootstrap!Preserve(c)
    <2>1. op[c].pc = "preserve" /\ receipt' = receipt /\ backups \subseteq backups'
      BY <1>4 DEF Bootstrap!Preserve, Bootstrap!At
    <2>2. CASE /\ backups' = backups \cup ({receipt} \ {Bootstrap!NoReceipt})
               /\ Bootstrap!Go(c, "begin") /\ UNCHANGED <<results, faults>>
      <3>1. \A q \in Operators \ {c} : op'[q] = op[q]
        BY <1>1, <2>2 DEF Bootstrap!Go
      <3> QED
        BY <2>1, <2>2, <3>1, OneRunKeeps
    <2>3. CASE Bootstrap!Return(c, Bootstrap!Failed(op[c].st, "FAIL"), FALSE)
      <3>1. Bootstrap!Failed(op[c].st, "FAIL").run = op[c].st.run /\ Bootstrap!Failed(op[c].st, "FAIL").status # "PASS"
        BY <1>1 DEF Bootstrap!Failed, Bootstrap!State
      <3> QED
        BY <1>3, <2>1, <2>3, <3>1, OneRunKeeps
    <2> QED
      BY <1>4, <2>2, <2>3 DEF Bootstrap!Preserve
  <1>5. ASSUME \/ Bootstrap!Begin(c) \/ Bootstrap!WritePass(c) \/ Bootstrap!Report(c)
        PROVE  PassesKept' /\ \A q \in Operators \ {c} : op'[q].pc = "idle"
    <2>1. op[c].pc \in {"begin", "pass", "report"} /\ backups' = backups
      BY <1>5 DEF Bootstrap!Begin, Bootstrap!WritePass, Bootstrap!Report, Bootstrap!At
    <2>2. CASE results' = results /\ \A q \in Operators \ {c} : op'[q] = op[q]
      BY <2>1, <2>2, OneRunKeeps
    <2>3. ASSUME NEW s, NEW b, Bootstrap!Return(c, s, b), s.run = op[c].st.run,
                 s.status = "PASS" => receipt' = s
          PROVE  PassesKept' /\ \A q \in Operators \ {c} : op'[q].pc = "idle"
      BY <1>3, <2>1, <2>3, OneRunKeeps
    <2>4. LET f == Bootstrap!Failed(op[c].st, "FAIL")
          IN f.run = op[c].st.run /\ f.status # "PASS"
      BY <1>1 DEF Bootstrap!Failed, Bootstrap!State
    <2>5. CASE Bootstrap!Begin(c)
      <3>1. CASE Bootstrap!Go(c, "guard") /\ UNCHANGED results
        BY <1>1, <2>2, <3>1 DEF Bootstrap!Go
      <3>2. CASE Bootstrap!Return(c, Bootstrap!Failed(op[c].st, "FAIL"), FALSE)
        BY <2>3, <2>4, <3>2
      <3> QED
        BY <2>5, <3>1, <3>2 DEF Bootstrap!Begin
    <2>6. CASE Bootstrap!WritePass(c)
      <3>1. CASE Bootstrap!Raise(c, "FAIL") /\ UNCHANGED results
        BY <1>1, <2>2, <3>1 DEF Bootstrap!Raise, Bootstrap!Set
      <3>2. CASE Bootstrap!AtomicWrite(op[c].st, TRUE) /\ Bootstrap!Return(c, op[c].st, TRUE)
        BY <2>3, <3>2 DEF Bootstrap!AtomicWrite
      <3> QED
        BY <2>6, <3>1, <3>2 DEF Bootstrap!WritePass
    <2>7. CASE Bootstrap!Report(c)
      <3>1. CASE Bootstrap!AtomicWrite(op[c].st, TRUE) /\ Bootstrap!Return(c, op[c].st, TRUE)
        BY <2>3, <3>1 DEF Bootstrap!AtomicWrite
      <3>2. CASE Bootstrap!Return(c, Bootstrap!Failed(op[c].st, "FAIL"), FALSE)
        BY <2>3, <2>4, <3>2
      <3> QED
        BY <2>7, <3>1, <3>2 DEF Bootstrap!Report
    <2> QED
      BY <1>5, <2>5, <2>6, <2>7
  <1>6. CASE Bootstrap!Crash(c)
    <2>1. /\ UNCHANGED <<receipt, backups>> /\ \A q \in Operators \ {c} : op'[q] = op[q]
          /\ op'[c].pc = "idle"
      BY <1>1, <1>6, IdleFits DEF Bootstrap!Crash, Bootstrap!KeepReceipts
    <2>2. results' = [results EXCEPT ![op[c].st.run].status = "killed"]
      BY <1>6 DEF Bootstrap!Crash
    <2>3. \A r \in 1..Len(results') : results'[r].status = "PASS" =>
            r \in 1..Len(results) /\ results[r].status = "PASS"
      <3>1. \A r \in 1..Len(results) : results[r] \in RunResult
        BY <1>1
      <3> QED
        BY <1>1, <2>2, <3>1 DEF RunResult
    <2> QED
      BY <2>1, <2>3, OneRunKeeps
  <1>7. ASSUME \/ Bootstrap!Guard(c) \/ Bootstrap!ReadConfig(c) \/ Bootstrap!Identify(c)
               \/ Bootstrap!AssumeRole(c) \/ Bootstrap!Reread(c) \/ Bootstrap!Append_config_alias(c)
               \/ Bootstrap!Verify(c)
        PROVE  PassesKept' /\ \A q \in Operators \ {c} : op'[q].pc = "idle"
    <2>1. UNCHANGED <<receipt, backups, results>> /\ op[c].pc \notin {"idle", "preserve"}
      BY <1>7, Zenon
         DEF Bootstrap!Guard, Bootstrap!ReadConfig, Bootstrap!Identify, Bootstrap!AssumeRole,
             Bootstrap!Reread, Bootstrap!Append_config_alias, Bootstrap!Open, Bootstrap!Lock,
            Bootstrap!Compare, Bootstrap!AppendPart, Bootstrap!AppendFails, Bootstrap!Rollback,
            Bootstrap!Truncate, Bootstrap!CheckAfter, Bootstrap!Verify, Bootstrap!At,
            Bootstrap!KeepReceipts
    <2>2. \A q \in Operators \ {c} : op'[q] = op[q]
      BY <1>1, <1>7, Zenon
         DEF Bootstrap!Guard, Bootstrap!ReadConfig, Bootstrap!Identify, Bootstrap!AssumeRole,
             Bootstrap!Reread, Bootstrap!Append_config_alias, Bootstrap!Open, Bootstrap!Lock,
            Bootstrap!Compare, Bootstrap!AppendPart, Bootstrap!AppendFails, Bootstrap!Rollback,
            Bootstrap!Truncate, Bootstrap!CheckAfter, Bootstrap!Verify,
            Bootstrap!Set, Bootstrap!Go, Bootstrap!Raise, Bootstrap!RaiseChanged
    <2> QED
      BY <2>1, <2>2, OneRunKeeps
  <1> QED
    BY <1>2, <1>4, <1>5, <1>6, <1>7 DEF Bootstrap!Run_authority_bootstrap

LEMMA OneAtATimeInit ==
    ASSUME Bootstrap!Init, cast.processes \subseteq Operators PROVE OneAtATime
  BY IdleFits DEF Bootstrap!Init, OneAtATime, PassesKept

LEMMA OneAtATimeKeeps ==
    ASSUME BootInv, OneAtATime, cast.processes \subseteq Operators, BootstrapNext, cast' = cast
    PROVE  OneAtATime'
  <1>1. SUFFICES ASSUME Cardinality(cast.processes) = 1
                 PROVE  PassesKept' /\ \A q \in Operators \ cast.processes : op'[q].pc = "idle"
    BY DEF OneAtATime
  <1>2. PICK c : cast.processes = {c}
    <2>1. IsFiniteSet(cast.processes)
      BY BoundsAssumption, FS_Subset
    <2> QED
      BY <1>1, <2>1, FS_Singleton
  <1>3. c \in Operators /\ PassesKept /\ \A q \in Operators \ {c} : op[q].pc = "idle"
    BY <1>1, <1>2 DEF OneAtATime
  <1>4. CASE Bootstrap!Run_authority_bootstrap(c) \/ Bootstrap!Crash(c)
    BY <1>2, <1>3, <1>4, OneStepKeeps
  <1>5. ASSUME NEW kind, Bootstrap!Edit(kind)
        PROVE  PassesKept' /\ \A q \in Operators \ cast.processes : op'[q].pc = "idle"
    BY <1>2, <1>3, <1>5 DEF Bootstrap!Edit, Bootstrap!KeepReceipts, PassesKept
  <1> QED
    BY <1>2, <1>4, <1>5 DEF BootstrapNext

LEMMA OneAtATimeUnchanged == ASSUME OneAtATime, UNCHANGED <<bootstrap, cast>> PROVE OneAtATime'
  BY DEF OneAtATime, PassesKept, bootstrap

LEMMA FewHeads ==
    ASSUME NEW c \in Seq(Bootstrap!Block), OneHead(c)
    PROVE  Bootstrap!Cardinality({i \in 1..Len(c) : c[i].kind = "head"}) <= 1
  <1> DEFINE H == {i \in 1..Len(c) : c[i].kind = "head"}
  <1>3. \A h, k \in H : h = k
    BY DEF OneHead
  <1> HIDE DEF H
  <1>1. Cardinality(H) <= 1
    <2>1. CASE H = {}
      BY <2>1, FS_EmptySet
    <2>2. CASE H # {}
      <3>1. PICK h \in H : TRUE
        BY <2>2
      <3>2. H = {h}
        BY <1>3, <3>1
      <3>3. Cardinality({h}) = 1
        BY FS_Singleton
      <3> QED
        BY <3>2, <3>3
    <2> QED
      BY <2>1, <2>2
  <1>2. Bootstrap!Cardinality(H) = Cardinality(H)
    BY DEF Bootstrap!Cardinality, Cardinality
  <1> QED
    BY <1>1, <1>2 DEF H

LEMMA BootHonest ==
    ASSUME BootInv, OneAtATime PROVE BootstrapIsHonest
  <1>1. Bootstrap!TypeOK
    <2>1. \A i \in DOMAIN file : \A k \in 1..Len(file[i]) : file[i][k] \in Bootstrap!Block
      BY DEF BootInv, FilesShaped
    <2>2. config \in DOMAIN file /\ lock \in [DOMAIN file -> Operators \cup {Nobody}]
      BY DEF BootInv, FilesShaped
    <2>3. /\ receipt \in Bootstrap!State \cup {Bootstrap!NoReceipt} /\ backups \subseteq Bootstrap!State
          /\ \A p \in Operators : op[p].st \in Bootstrap!State
          /\ \A r \in DOMAIN results : results[r] \in RunResult
      BY BootKnown DEF BootInv, ResultsShaped
    <2> QED
      BY <2>1, <2>2, <2>3 DEF Bootstrap!TypeOK, RunResult
  <1>2. Bootstrap!OneAliasHeader
    BY FewHeads, FilesKnown DEF Bootstrap!OneAliasHeader, BootInv, FilesShaped
  <1>3. Bootstrap!LeftoverIsReported
    <2>1. SUFFICES ASSUME NEW r \in DOMAIN results, Bootstrap!Finished(r),
                          NEW i \in 1..Len(file[1]), file[1][i].by = r
                   PROVE  results[r].alias_created
      BY DEF Bootstrap!LeftoverIsReported
    <2>2. r \in 1..MaxRuns
      <3>1. Len(results) <= MaxRuns /\ DOMAIN results = 1..Len(results) /\ Len(results) \in Nat
        BY DEF BootInv, ResultsShaped
      <3>2. MaxRuns \in Nat
        BY BoundsAssumption
      <3> QED
        BY <2>1, <3>1, <3>2
    <2>3. Told(r)
      BY <2>1, <2>2 DEF BootInv, LeftoversTold, NotBy
    <2> QED
      BY <2>1, <2>3 DEF Told, Bootstrap!Finished, Bootstrap!At
  <1>4. Bootstrap!ReceiptsValidate
    <2>1. ASSUME NEW p \in Operators, op[p].pc \in {"pass", "report", "begin"}
          PROVE  Bootstrap!ValidPrivate(op[p].st)
      <3>1. op[p].st \in Bootstrap!State /\ Stage(op[p]) /\ Consistent(op[p].st)
        BY <2>1, BootKnown, StagesConsistent DEF BootHolds
      <3> QED
        BY <2>1, <3>1 DEF Stage, Blank, Proved, Consistent, Bootstrap!ValidPrivate
    <2>2. \A r \in DOMAIN results : results[r].valid
      BY DEF BootInv, ResultsShaped
    <2> QED
      BY <2>1, <2>2 DEF Bootstrap!ReceiptsValidate
  <1>5. Bootstrap!PassReceiptIsReturned
    <2>1. faults \in Nat
      BY DEF BootInv, ResultsShaped
    <2> QED
      BY <2>1 DEF Bootstrap!PassReceiptIsReturned, BootInv, PassReceiptHolds, Bootstrap!Finished, Bootstrap!At
  <1>6. Cardinality(cast.processes) = 1 => Bootstrap!PassIsPreserved
    <2>1. SUFFICES ASSUME Cardinality(cast.processes) = 1, NEW r \in DOMAIN results,
                          results[r].status = "PASS"
                   PROVE  \E s \in backups \cup {receipt} : s.run = r
      BY DEF Bootstrap!PassIsPreserved
    <2>2. r \in 1..Len(results)
      BY DEF BootInv, ResultsShaped
    <2> QED
      BY <2>1, <2>2 DEF OneAtATime, PassesKept
  <1> QED
    BY <1>1, <1>2, <1>3, <1>4, <1>5, <1>6 DEF BootstrapIsHonest

\* g10_operator_bootstrap.py: for any operators, faults, kills and edits, racing and half
\* failed runs leave one alias header at most, whoever left bytes says so, every receipt
\* validates, and a PASS receipt stands for a run that returned PASS.
THEOREM BootstrapStaysHonest == Spec => []BootstrapIsHonest
  <1> DEFINE Inv == cast \in Casts /\ (cast.tool = "bootstrap" => BootInv /\ OneAtATime)
             all == <<bootstrap, preflight, chain, evidence, aliases, gating, cleanup,
                      attesting, cast>>
  <1>1. Init => Inv
    BY CastsKnown, BootInit, OneAtATimeInit DEF Init
  <1>2. Inv /\ [Next]_all => Inv'
    <2>1. SUFFICES ASSUME Inv, [Next]_all PROVE Inv'
      OBVIOUS
    <2>2. cast.tool = "bootstrap" => cast.processes \subseteq Operators
      BY <2>1, CastsKnown
    <2>3. cast' = cast
      BY <2>1 DEF Next
    <2>4. cast.tool = "bootstrap" => BootstrapNext \/ UNCHANGED bootstrap
      BY <2>1 DEF Next
    <2> QED
      BY <2>1, <2>2, <2>3, <2>4, BootNextKeeps, BootUnchanged, OneAtATimeKeeps, OneAtATimeUnchanged
  <1>3. Inv => BootstrapIsHonest
    <2>1. cast.tool # "bootstrap" => BootstrapIsHonest
      BY DEF BootstrapIsHonest
    <2> QED
      BY <2>1, BootHonest
  <1> QED
    BY <1>1, <1>2, <1>3, PTL DEF Spec

-----------------------------------------------------------------------------
(* The artifact builds and the day-15 gate *)

Copied == {"recopy", "recompare", "check"}
Rechecking == {"revalidate", "sources", "artifact", "manifest", "scan"}
BuildPlaces == {"idle", "validate", "copy", "compare"} \cup Copied \cup Rechecking
Found ==
    [commit : Trees \cup {NoFile}, inputs : Trees \cup {NoFile}, source : Trees \cup {NoFile}]
BuildProcess ==
    [pc : BuildPlaces, call : 1..7, found : Found, repository : Found,
     stage : Trees \cup {NoFile}, container : Gate!Proof, scan : Gate!Proof,
     since : Nat, left : BOOLEAN, last : Nat]

\* What the calls of a validation have recorded, and when all of it is HEAD's.
Filled(call, f) ==
    /\ call > 1 => f.commit \in Trees
    /\ call > 3 => f.inputs \in Trees
    /\ call > 6 => f.source \in Trees
OfHead(call, f) ==
    /\ call > 1 => f.commit = commit
    /\ call > 3 => f.inputs = commit
    /\ call > 6 => f.source = commit

\* Until its second look at HEAD, a build that HEAD stayed under has recorded and
\* staged HEAD's tree.
FirstLook(x) ==
    /\ x.pc = "validate" => OfHead(x.call, x.found)
    /\ x.pc \in {"copy", "compare"} \cup Copied \/ (x.pc = "revalidate" /\ x.call = 1) =>
         x.repository = Gate!OneTree(commit)
    /\ x.pc \in Copied \/ (x.pc = "revalidate" /\ x.call = 1) => x.stage = commit
\* From then on what it staged is what it recorded, when HEAD had stayed, or when
\* nothing moves any more and the second validation and its comparisons agree.
SecondLook(x) ==
    /\ x.pc = "revalidate" /\ x.call > 1 =>
         /\ ~x.left => x.repository = Gate!OneTree(x.stage)
         /\ x.last = moves => OfHead(x.call, x.found)
    /\ x.pc = "sources" =>
         /\ ~x.left => x.repository = Gate!OneTree(x.stage)
         /\ x.last = moves => x.repository = Gate!OneTree(wt)
    /\ x.pc \in {"artifact", "manifest"} /\ (~x.left \/ x.last = moves) =>
         x.repository = Gate!OneTree(x.stage)
BuildHolds(x) ==
    /\ x \in BuildProcess /\ x.since <= heads /\ x.last <= moves
    /\ x.pc \in {"idle", "copy", "compare"} \cup Copied => x.call = 1
    /\ x.pc \in {"validate", "revalidate"} => Filled(x.call, x.found)
    /\ x.pc \in {"copy", "compare"} \cup Copied \cup Rechecking => x.repository \in Gate!Repository
    /\ x.pc \in {"compare"} \cup Copied \cup Rechecking => x.stage \in Trees
    /\ x.since = heads => FirstLook(x)
    /\ SecondLook(x)

Manifested(m, d) ==
    m = NoFile \/ (m \in Gate!ManifestFile /\ (~d => m.repository = Gate!OneTree(m.artifact)))
Scanned(s) == s = NoFile \/ s \in Gate!ScanFile
PublishedHolds ==
    /\ commit \in Trees /\ wt \in Trees /\ moves \in 0..MaxMoves /\ builds \in 0..MaxBuilds
    /\ heads \in 0..moves /\ doubtful \in BOOLEAN
    /\ artifact \in Trees \cup {NoFile} /\ Manifested(manifest, doubtful) /\ Scanned(scan)
BuildsHold == DOMAIN bd = Operators /\ \A b \in Operators : BuildHolds(bd[b])
BuildsInv == PublishedHolds /\ BuildsHold

LEMMA BuildBounds ==
    /\ MaxMoves \in Nat /\ MaxBuilds \in Nat /\ Verdicts \subseteq Gate!Proof /\ NoFile \notin Trees
  BY BoundsAssumption DEF Gate!Proof

LEMMA BuildMoves ==
    ASSUME BuildsHold, NEW b \in Operators, NEW x, BuildHolds(x), bd' = [bd EXCEPT ![b] = x],
           UNCHANGED <<commit, wt, heads, moves>>
    PROVE  BuildsHold'
  <1>1. DOMAIN bd' = Operators
    BY DEF BuildsHold
  <1>2. \A c \in Operators : bd'[c] = x \/ bd'[c] = bd[c]
    BY DEF BuildsHold
  <1>3. \A c \in Operators : BuildHolds(bd'[c])
    BY <1>2 DEF BuildsHold
  <1>4. ASSUME NEW y, BuildHolds(y) PROVE BuildHolds(y)'
    BY <1>4 DEF BuildHolds, FirstLook, SecondLook, OfHead
  <1>5. \A c \in Operators : BuildHolds(bd[c])'
    BY <1>3, <1>4
  <1> QED
    BY <1>1, <1>5 DEF BuildsHold

LEMMA IdleBuildHolds == ASSUME PublishedHolds PROVE BuildHolds(Gate!IdleBuild)
  BY BuildBounds
     DEF BuildHolds, BuildProcess, BuildPlaces, Found, Copied, Rechecking, FirstLook, SecondLook,
         PublishedHolds, Gate!IdleBuild, Gate!OneTree, Gate!Proof

LEMMA BuildEnds ==
    ASSUME PublishedHolds, BuildsHold, NEW b \in Operators, Gate!Refused(b),
           UNCHANGED <<commit, wt, heads, moves>>
    PROVE  BuildsHold'
  BY IdleBuildHolds, BuildMoves DEF Gate!Refused

\* A step that only moves on to another place.
LEMMA BuildGoes ==
    ASSUME PublishedHolds, BuildsHold, NEW b \in Operators, NEW pc \in BuildPlaces, Gate!To(b, pc),
           UNCHANGED <<commit, wt, heads, moves>>,
           \/ bd[b].pc = "compare" /\ bd[b].stage = commit /\ pc = "recopy"
           \/ bd[b].pc = "recopy" /\ pc = "recompare"
           \/ bd[b].pc = "recompare" /\ pc = "check"
           \/ bd[b].pc = "sources" /\ bd[b].stage = wt /\ pc = "artifact"
           \/ bd[b].pc = "artifact" /\ pc = "manifest"
           \/ bd[b].pc = "manifest" /\ pc = "scan"
    PROVE  BuildsHold'
  <1> DEFINE x == [bd[b] EXCEPT !.pc = pc]
  <1>1. BuildHolds(bd[b]) /\ bd[b] \in BuildProcess /\ DOMAIN bd = Operators
    BY DEF BuildsHold, BuildHolds
  <1>2. bd' = [bd EXCEPT ![b] = x]
    BY <1>1 DEF Gate!To
  <1>3. /\ x \in BuildProcess /\ x.pc = pc /\ x.call = bd[b].call /\ x.found = bd[b].found
        /\ x.repository = bd[b].repository /\ x.stage = bd[b].stage
        /\ x.since = bd[b].since /\ x.left = bd[b].left /\ x.last = bd[b].last
    BY <1>1 DEF BuildProcess
  <1> HIDE DEF x
  <1>4. BuildHolds(x)
    BY <1>1, <1>3 DEF BuildHolds, FirstLook, SecondLook, Copied, Rechecking
  <1> QED
    BY <1>2, <1>4, BuildMoves

LEMMA RepositoryFacts ==
    /\ Gate!Repository \subseteq Found
    /\ Gate!OneTree(NoFile) \in Found
    /\ \A f \in Found : Filled(7, f) => f \in Gate!Repository
    /\ \A f \in Found : OfHead(7, f) => f = Gate!OneTree(commit)
  BY DEF Found, Gate!Repository, Gate!OneTree, Filled, OfHead

LEMMA RecordedFacts ==
    ASSUME commit \in Trees, NEW call \in 1..6, NEW f \in Found
    PROVE  LET g == Gate!Recorded(call, f)
           IN /\ g \in Found
              /\ Filled(call, f) => Filled(call + 1, g)
              /\ OfHead(call, f) => OfHead(call + 1, g)
  <1> DEFINE g == Gate!Recorded(call, f)
  <1>1. /\ g.commit = IF call = 1 THEN commit ELSE f.commit
        /\ g.inputs = IF call = 3 THEN commit ELSE f.inputs
        /\ g.source = IF call = 6 THEN commit ELSE f.source
        /\ g \in Found
    BY DEF Gate!Recorded, Found
  <1> HIDE DEF g
  <1>2. Filled(call, f) => Filled(call + 1, g)
    BY <1>1 DEF Filled
  <1>3. OfHead(call, f) => OfHead(call + 1, g)
    BY <1>1 DEF OfHead
  <1> QED
    BY <1>1, <1>2, <1>3 DEF g

LEMMA ValidateKeeps ==
    ASSUME PublishedHolds, BuildsHold, NEW b \in Operators, Gate!Validate(b) PROVE BuildsHold'
  <1> DEFINE call == bd[b].call
             n == call + 1
             since == IF call = 1 THEN heads ELSE bd[b].since
             found == Gate!Recorded(call, bd[b].found)
             x == [bd[b] EXCEPT !.call = n, !.found = found, !.since = since]
  <1>1. /\ BuildHolds(bd[b]) /\ bd[b] \in BuildProcess /\ DOMAIN bd = Operators
        /\ bd[b].pc = "validate" /\ call \in 1..6 /\ UNCHANGED <<commit, wt, heads, moves>>
        /\ commit \in Trees /\ heads \in Nat /\ moves \in Nat /\ bd[b].found \in Found
    BY BuildBounds DEF BuildsHold, BuildHolds, BuildProcess, Gate!Validate, Gate!Calls, Gate!BuildKeeps,
           Gate!repo, PublishedHolds
  <1>2. CASE bd' = [bd EXCEPT ![b] = x]
    <2>1. /\ found \in Found /\ Filled(call, bd[b].found)
          /\ Filled(call, bd[b].found) => Filled(n, found)
          /\ OfHead(call, bd[b].found) => OfHead(n, found)
      BY <1>1, RecordedFacts DEF BuildHolds
    <2>2. /\ since \in Nat /\ since <= heads /\ (since = heads => OfHead(call, bd[b].found))
      BY <1>1 DEF BuildHolds, BuildProcess, FirstLook, OfHead
    <2>0. n \in 1..7
      BY <1>1
    <2>x. x = [bd[b] EXCEPT !.call = n, !.found = found, !.since = since]
      OBVIOUS
    <2> HIDE DEF n, since, found, x
    <2>3. /\ x.pc = "validate" /\ x.call = n /\ x.found = found
          /\ x.since = since /\ x.last = bd[b].last
      BY <1>1, <2>x DEF BuildProcess
    <2>5. x \in BuildProcess
      BY <1>1, <2>0, <2>1, <2>2, <2>x DEF BuildProcess
    <2>4. BuildHolds(x)
      BY <1>1, <2>0, <2>1, <2>2, <2>3, <2>5 DEF BuildHolds, FirstLook, SecondLook, Copied, Rechecking
    <2> QED
      BY <1>1, <1>2, <2>4, BuildMoves
  <1>3. bd' = [bd EXCEPT ![b] = x] \/ Gate!Refused(b)
    BY <1>1 DEF Gate!Validate
  <1> QED
    BY <1>1, <1>2, <1>3, BuildEnds

LEMMA RevalidateKeeps ==
    ASSUME PublishedHolds, BuildsHold, NEW b \in Operators, Gate!Revalidate(b) PROVE BuildsHold'
  <1> DEFINE call == bd[b].call
             n == call + 1
             left == IF call = 1 THEN heads # bd[b].since ELSE bd[b].left
             last == IF call = 1 THEN moves ELSE bd[b].last
             found == Gate!Recorded(call, bd[b].found)
             x == [bd[b] EXCEPT !.call = n, !.found = found, !.left = left, !.last = last]
  <1>1. /\ BuildHolds(bd[b]) /\ bd[b] \in BuildProcess /\ DOMAIN bd = Operators
        /\ bd[b].pc = "revalidate" /\ call \in 1..6 /\ UNCHANGED <<commit, wt, heads, moves>>
        /\ commit \in Trees /\ heads \in Nat /\ moves \in Nat /\ bd[b].found \in Found
    BY BuildBounds DEF BuildsHold, BuildHolds, BuildProcess, Gate!Revalidate, Gate!Calls, Gate!BuildKeeps,
           Gate!repo, PublishedHolds
  <1>2. CASE bd' = [bd EXCEPT ![b] = x]
    <2>1. /\ found \in Found /\ Filled(call, bd[b].found)
          /\ Filled(call, bd[b].found) => Filled(n, found)
          /\ OfHead(call, bd[b].found) => OfHead(n, found)
      BY <1>1, RecordedFacts DEF BuildHolds, Rechecking
    <2>2. left \in BOOLEAN
      BY <1>1 DEF BuildProcess
    <2>3. last \in Nat /\ last <= moves /\ (last = moves => OfHead(call, bd[b].found))
      BY <1>1 DEF BuildHolds, BuildProcess, SecondLook, OfHead
    <2>4. ~left => bd[b].repository = Gate!OneTree(bd[b].stage)
      BY <1>1 DEF BuildHolds, FirstLook, SecondLook
    <2>0. n \in 1..7 /\ (call > 0 => n > 1)
      BY <1>1
    <2>x. x = [bd[b] EXCEPT !.call = n, !.found = found, !.left = left, !.last = last]
      OBVIOUS
    <2> HIDE DEF n, left, last, found, x
    <2>5. /\ x.pc = "revalidate" /\ x.call = n /\ x.found = found
          /\ x.since = bd[b].since /\ x.last = last
          /\ x.repository = bd[b].repository /\ x.stage = bd[b].stage
      BY <1>1, <2>x DEF BuildProcess
    <2>6. x.left = left
      BY <1>1, <2>x, Zenon DEF BuildProcess
    <2>7. x \in BuildProcess
      BY <1>1, <2>0, <2>1, <2>2, <2>3, <2>x DEF BuildProcess
    <2>8. BuildHolds(x)
      BY <1>1, <2>0, <2>1, <2>3, <2>4, <2>5, <2>6, <2>7 DEF BuildHolds, FirstLook, SecondLook, Copied, Rechecking
    <2> QED
      BY <1>1, <1>2, <2>8, BuildMoves
  <1>3. bd' = [bd EXCEPT ![b] = x] \/ Gate!Refused(b)
    BY <1>1 DEF Gate!Revalidate
  <1> QED
    BY <1>1, <1>2, <1>3, BuildEnds

LEMMA CaptureKeeps ==
    ASSUME PublishedHolds, BuildsHold, NEW b \in Operators, Gate!Capture(b) PROVE BuildsHold'
  <1> DEFINE f == bd[b].found
             none == Gate!OneTree(NoFile)
             x == [bd[b] EXCEPT !.pc = "copy", !.call = 1, !.repository = f, !.found = none]
  <1>1. /\ BuildHolds(bd[b]) /\ bd[b] \in BuildProcess /\ DOMAIN bd = Operators
        /\ bd[b].pc = "validate" /\ bd[b].call \notin 1..6 /\ UNCHANGED <<commit, wt, heads, moves>>
    BY DEF BuildsHold, BuildHolds, BuildProcess, Gate!Capture, Gate!Calls, Gate!BuildKeeps,
           Gate!repo
  <1>0. /\ bd[b].call = 7 /\ f \in Found /\ commit \in Trees /\ heads \in Nat /\ moves \in Nat
    BY <1>1, BuildBounds DEF BuildProcess, PublishedHolds
  <1>2. CASE bd' = [bd EXCEPT ![b] = x]
    <2>1. f \in Gate!Repository /\ none \in Found
      BY <1>0, <1>1, RepositoryFacts DEF BuildHolds
    <2>2. bd[b].since = heads => f = Gate!OneTree(commit)
      BY <1>0, <1>1, RepositoryFacts DEF BuildHolds, FirstLook
    <2>x. x = [bd[b] EXCEPT !.pc = "copy", !.call = 1, !.repository = f, !.found = none]
      OBVIOUS
    <2> HIDE DEF f, none, x
    <2>3. /\ x.pc = "copy" /\ x.call = 1 /\ x.repository = f /\ x.since = bd[b].since /\ x.last = bd[b].last
      BY <1>1, <2>x DEF BuildProcess
    <2>4. x \in BuildProcess
      <3> DEFINE one == 1
                 y == [bd[b] EXCEPT !.pc = "copy", !.call = one]
      <3>0. one \in 1..7 /\ "copy" \in BuildPlaces
        BY DEF BuildPlaces
      <3>1. x = [y EXCEPT !.repository = f, !.found = none]
        BY <1>1, <2>x DEF BuildProcess
      <3> HIDE DEF one
      <3>2. y \in BuildProcess
        BY <1>1, <3>0 DEF BuildProcess
      <3> HIDE DEF y
      <3>3. f \in Found
        BY <1>0
      <3> QED
        BY <2>1, <3>1, <3>2, <3>3 DEF BuildProcess
    <2>5. BuildHolds(x)
      BY <1>1, <2>1, <2>2, <2>3, <2>4 DEF BuildHolds, FirstLook, SecondLook, Copied, Rechecking
    <2> QED
      BY <1>1, <1>2, <2>5, BuildMoves
  <1>3. bd' = [bd EXCEPT ![b] = x] \/ Gate!Refused(b)
    BY <1>1 DEF Gate!Capture
  <1> QED
    BY <1>1, <1>2, <1>3, BuildEnds

LEMMA AssembleKeeps ==
    ASSUME PublishedHolds, BuildsHold, NEW b \in Operators, Gate!Assemble(b) PROVE BuildsHold'
  <1> DEFINE x == [bd[b] EXCEPT !.pc = "compare", !.stage = wt]
  <1>1. /\ BuildHolds(bd[b]) /\ bd[b] \in BuildProcess /\ DOMAIN bd = Operators
        /\ bd[b].pc = "copy" /\ UNCHANGED <<commit, wt, heads, moves>> /\ wt \in Trees
        /\ bd' = [bd EXCEPT ![b] = x]
    BY DEF BuildsHold, BuildHolds, Gate!Assemble, Gate!BuildKeeps, Gate!repo, PublishedHolds
  <1>x. x = [bd[b] EXCEPT !.pc = "compare", !.stage = wt]
    OBVIOUS
  <1> HIDE DEF x
  <1>2. /\ x.pc = "compare" /\ x.call = bd[b].call /\ x.stage = wt /\ x.repository = bd[b].repository
        /\ x.since = bd[b].since /\ x.last = bd[b].last
    BY <1>1, <1>x DEF BuildProcess
  <1>3. x \in BuildProcess
    BY <1>1, <1>x DEF BuildProcess, BuildPlaces
  <1>4. BuildHolds(x)
    BY <1>1, <1>2, <1>3 DEF BuildHolds, FirstLook, SecondLook, Copied, Rechecking
  <1> QED
    BY <1>1, <1>4, BuildMoves

LEMMA CheckKeeps ==
    ASSUME PublishedHolds, BuildsHold, NEW b \in Operators, Gate!Check(b) PROVE BuildsHold'
  <1>1. /\ BuildHolds(bd[b]) /\ bd[b] \in BuildProcess /\ DOMAIN bd = Operators
        /\ bd[b].pc = "check" /\ UNCHANGED <<commit, wt, heads, moves>>
    BY DEF BuildsHold, BuildHolds, Gate!Check, Gate!BuildKeeps, Gate!repo
  <1>2. ASSUME NEW c \in Verdicts, NEW s \in Verdicts,
               bd' = [bd EXCEPT ![b].pc = "revalidate", ![b].container = c, ![b].scan = s]
        PROVE  BuildsHold'
    <2> DEFINE x == [bd[b] EXCEPT !.pc = "revalidate", !.container = c, !.scan = s]
    <2>x. x = [bd[b] EXCEPT !.pc = "revalidate", !.container = c, !.scan = s]
      OBVIOUS
    <2>1. bd' = [bd EXCEPT ![b] = x]
      BY <1>1, <1>2
    <2> HIDE DEF x
    <2>2. /\ x.pc = "revalidate" /\ x.call = bd[b].call /\ x.found = bd[b].found
          /\ x.repository = bd[b].repository /\ x.stage = bd[b].stage
          /\ x.since = bd[b].since /\ x.last = bd[b].last
      BY <1>1, <2>x DEF BuildProcess
    <2>3. x \in BuildProcess
      BY <1>1, <2>x, BuildBounds DEF BuildProcess, BuildPlaces, Rechecking
    <2>4. x.call = 1
      BY <1>1, <2>2 DEF BuildHolds, Copied
    <2>5. BuildHolds(x)
      BY <1>1, <2>2, <2>3, <2>4 DEF BuildHolds, FirstLook, SecondLook, Copied, Rechecking, Filled
    <2> QED
      BY <1>1, <2>1, <2>5, BuildMoves
  <1> QED
    BY <1>1, <1>2, BuildEnds
       DEF Gate!Check, Gate!lambda_container_validation, Gate!dependency_security_scan

\* It is here that the second validation counts.
LEMMA UnchangedKeeps ==
    ASSUME PublishedHolds, BuildsHold, NEW b \in Operators, Gate!Unchanged(b) PROVE BuildsHold'
  <1> DEFINE x == [bd[b] EXCEPT !.pc = "sources"]
  <1>1. /\ BuildHolds(bd[b]) /\ bd[b] \in BuildProcess /\ DOMAIN bd = Operators
        /\ bd[b].pc = "revalidate" /\ bd[b].call = 7 /\ UNCHANGED <<commit, wt, heads, moves>>
        /\ bd[b].found \in Found
    BY DEF BuildsHold, BuildHolds, BuildProcess, Gate!Unchanged, Gate!Calls, Gate!BuildKeeps, Gate!repo
  <1>2. CASE /\ bd' = [bd EXCEPT ![b].pc = "sources"]
             /\ bd[b].found = bd[b].repository /\ wt = bd[b].repository.inputs
    <2>1. bd' = [bd EXCEPT ![b] = x]
      BY <1>1, <1>2
    <2>2. bd[b].last = moves => bd[b].repository = Gate!OneTree(commit)
      BY <1>1, <1>2, RepositoryFacts DEF BuildHolds, SecondLook
    <2>3. bd[b].last = moves => bd[b].repository = Gate!OneTree(wt)
      BY <1>2, <2>2 DEF Gate!OneTree
    <2>x. x = [bd[b] EXCEPT !.pc = "sources"]
      OBVIOUS
    <2> HIDE DEF x
    <2>4. /\ x.pc = "sources" /\ x.repository = bd[b].repository /\ x.stage = bd[b].stage
          /\ x.since = bd[b].since /\ x.left = bd[b].left /\ x.last = bd[b].last
      BY <1>1, <2>x DEF BuildProcess
    <2>5. x \in BuildProcess
      BY <1>1, <2>x DEF BuildProcess, BuildPlaces, Rechecking
    <2>6. BuildHolds(x)
      BY <1>1, <2>3, <2>4, <2>5 DEF BuildHolds, FirstLook, SecondLook, Copied, Rechecking
    <2> QED
      BY <1>1, <2>1, <2>6, BuildMoves
  <1> QED
    BY <1>1, <1>2, BuildEnds DEF Gate!Unchanged, Gate!To

LEMMA BuildBeginKeeps ==
    ASSUME PublishedHolds, BuildsHold, NEW b \in Operators, Gate!Begin(b) PROVE BuildsHold'
  <1> DEFINE x == [bd[b] EXCEPT !.pc = "validate"]
  <1>1. /\ BuildHolds(bd[b]) /\ bd[b] \in BuildProcess /\ DOMAIN bd = Operators
        /\ bd[b].pc = "idle" /\ UNCHANGED <<commit, wt, heads, moves>> /\ bd' = [bd EXCEPT ![b] = x]
    BY DEF BuildsHold, BuildHolds, Gate!Begin, Gate!To, Gate!repo
  <1>x. x = [bd[b] EXCEPT !.pc = "validate"]
    OBVIOUS
  <1> HIDE DEF x
  <1>2. /\ x.pc = "validate" /\ x.call = bd[b].call /\ x.found = bd[b].found
        /\ x.since = bd[b].since /\ x.last = bd[b].last
    BY <1>1, <1>x DEF BuildProcess
  <1>3. x \in BuildProcess
    BY <1>1, <1>x DEF BuildProcess, BuildPlaces
  <1>4. BuildHolds(x)
    BY <1>1, <1>2, <1>3 DEF BuildHolds, FirstLook, SecondLook, Copied, Rechecking, Filled, OfHead
  <1> QED
    BY <1>1, <1>4, BuildMoves

LEMMA PublishedStays ==
    ASSUME PublishedHolds, UNCHANGED <<commit, wt, moves, heads, builds, artifact, manifest, scan, doubtful>>
    PROVE  PublishedHolds'
  BY DEF PublishedHolds

LEMMA BuildSteps ==
    ASSUME BuildsInv, NEW b \in Operators, Gate!build_artifact(b) PROVE BuildsInv'
  <1>1. /\ BuildsHold /\ BuildHolds(bd[b]) /\ DOMAIN bd = Operators /\ PublishedHolds
        /\ bd[b] \in BuildProcess
    BY DEF BuildsInv, BuildsHold, BuildHolds
  <1>2. CASE Gate!Begin(b)
    <2>1. PublishedHolds'
      BY <1>1, <1>2, BuildBounds DEF Gate!Begin, Gate!repo, Gate!published, PublishedHolds
    <2> QED
      BY <1>1, <1>2, <2>1, BuildBeginKeeps DEF BuildsInv
  <1>3. CASE Gate!Validate(b) \/ Gate!Capture(b) \/ Gate!Assemble(b) \/ Gate!Check(b) \/ Gate!Revalidate(b)
             \/ Gate!Unchanged(b)
    <2>1. PublishedHolds'
      BY <1>1, <1>3, PublishedStays
         DEF Gate!Validate, Gate!Capture, Gate!Assemble, Gate!Check, Gate!Revalidate, Gate!Unchanged,
             Gate!BuildKeeps, Gate!repo, Gate!published
    <2> QED
      BY <1>1, <1>3, <2>1, ValidateKeeps, CaptureKeeps, AssembleKeeps, CheckKeeps, RevalidateKeeps,
         UnchangedKeeps DEF BuildsInv
  <1>4. CASE Gate!CompareStage(b) \/ Gate!Rebuild(b) \/ Gate!CompareRebuild(b)
             \/ Gate!UnchangedSources(b) \/ Gate!Die(b)
    <2>1. UNCHANGED <<commit, wt, moves, heads, builds, artifact, manifest, scan, doubtful>>
      BY <1>4 DEF Gate!CompareStage, Gate!Rebuild, Gate!CompareRebuild, Gate!UnchangedSources, Gate!Die,
                  Gate!BuildKeeps, Gate!repo, Gate!published
    <2>2. \/ Gate!Refused(b)
          \/ bd[b].pc = "compare" /\ bd[b].stage = commit /\ Gate!To(b, "recopy")
          \/ bd[b].pc = "recopy" /\ Gate!To(b, "recompare")
          \/ bd[b].pc = "recompare" /\ Gate!To(b, "check")
          \/ bd[b].pc = "sources" /\ bd[b].stage = wt /\ Gate!To(b, "artifact")
      BY <1>4 DEF Gate!CompareStage, Gate!Rebuild, Gate!CompareRebuild, Gate!UnchangedSources, Gate!Die
    <2>3. {"recopy", "recompare", "check", "artifact"} \subseteq BuildPlaces
      BY DEF BuildPlaces, Copied, Rechecking
    <2>4. BuildsHold'
      BY <1>1, <2>1, <2>2, <2>3, BuildEnds, BuildGoes
    <2> QED
      BY <1>1, <2>1, <2>4, PublishedStays DEF BuildsInv
  <1>5. CASE Gate!PublishArtifact(b)
    <2>1. bd[b].pc = "artifact" /\ artifact' = bd[b].stage /\ bd[b].stage \in Trees
      BY <1>1, <1>5 DEF Gate!PublishArtifact, BuildHolds, Rechecking
    <2>2. UNCHANGED <<commit, wt, heads, moves, builds, manifest, scan, doubtful>> /\ Gate!To(b, "manifest")
      BY <1>5 DEF Gate!PublishArtifact, Gate!repo
    <2>3. PublishedHolds'
      BY <1>1, <2>1, <2>2 DEF PublishedHolds
    <2>4. "manifest" \in BuildPlaces
      BY DEF BuildPlaces, Rechecking
    <2> QED
      BY <1>1, <2>1, <2>2, <2>3, <2>4, BuildGoes DEF BuildsInv
  <1>6. CASE Gate!PublishManifest(b)
    <2>1. /\ bd[b].pc = "manifest" /\ bd[b].stage \in Trees /\ bd[b].repository \in Gate!Repository
          /\ bd[b].container \in Gate!Proof
          /\ ~bd[b].left \/ bd[b].last = moves => bd[b].repository = Gate!OneTree(bd[b].stage)
      BY <1>1, <1>6 DEF Gate!PublishManifest, BuildHolds, BuildProcess, SecondLook, Rechecking
    <2>2. /\ UNCHANGED <<commit, wt, heads, moves, builds, artifact, scan>> /\ Gate!To(b, "scan")
          /\ doubtful' = (bd[b].left /\ moves # bd[b].last)
          /\ manifest' = [artifact |-> bd[b].stage, repository |-> bd[b].repository,
                          container |-> bd[b].container]
      BY <1>6 DEF Gate!PublishManifest, Gate!repo
    <2>3. Manifested(manifest', doubtful') /\ doubtful' \in BOOLEAN
      <3>1. manifest' \in Gate!ManifestFile
        BY <2>1, <2>2 DEF Gate!ManifestFile
      <3>2. ~doubtful' => ~bd[b].left \/ bd[b].last = moves
        BY <2>2
      <3>3. manifest'.repository = bd[b].repository /\ manifest'.artifact = bd[b].stage
        BY <2>2
      <3>4. ~doubtful' => manifest'.repository = Gate!OneTree(manifest'.artifact)
        BY <2>1, <3>2, <3>3
      <3>5. doubtful' \in BOOLEAN
        BY <2>2
      <3> QED
        BY <3>1, <3>4, <3>5 DEF Manifested
    <2>4. PublishedHolds'
      BY <1>1, <2>2, <2>3 DEF PublishedHolds
    <2>5. "scan" \in BuildPlaces
      BY DEF BuildPlaces, Rechecking
    <2> QED
      BY <1>1, <2>1, <2>2, <2>4, <2>5, BuildGoes DEF BuildsInv
  <1>7. CASE Gate!PublishScan(b)
    <2>1. PublishedHolds'
      BY <1>1, <1>7 DEF Gate!PublishScan, Gate!repo, PublishedHolds, BuildHolds, BuildProcess,
                        Rechecking, Scanned, Gate!ScanFile
    <2> QED
      BY <1>1, <1>7, <2>1, BuildEnds DEF Gate!PublishScan, Gate!repo, BuildsInv
  <1> QED
    BY <1>2, <1>3, <1>4, <1>5, <1>6, <1>7 DEF Gate!build_artifact

LEMMA MovesKeep ==
    ASSUME BuildsInv, Gate!EditTree \/ Gate!CommitTree \/ Gate!CheckOut PROVE BuildsInv'
  <1>1. /\ moves < MaxMoves /\ moves' = moves + 1
        /\ UNCHANGED <<artifact, manifest, scan, bd, builds, doubtful>>
        /\ commit' \in Trees /\ wt' \in Trees
        /\ heads' = IF commit' = commit THEN heads ELSE heads + 1
    BY DEF Gate!EditTree, Gate!CommitTree, Gate!CheckOut, Gate!Move, Gate!published, BuildsInv,
           PublishedHolds
  <1>2. /\ PublishedHolds /\ BuildsHold /\ moves \in Nat /\ heads \in Nat /\ heads <= moves
    BY BuildBounds DEF BuildsInv, PublishedHolds
  <1>3. PublishedHolds'
    BY <1>1, <1>2, BuildBounds DEF PublishedHolds
  <1>4. ASSUME NEW b \in Operators PROVE BuildHolds(bd[b])'
    <2>1. BuildHolds(bd[b]) /\ bd' = bd
      BY <1>1, <1>2, <1>4 DEF BuildsHold
    <2>2. bd[b].since <= heads' /\ (bd[b].since = heads' => bd[b].since = heads /\ commit' = commit)
      BY <1>1, <1>2, <2>1 DEF BuildHolds, BuildProcess
    <2>3. bd[b].last <= moves' /\ bd[b].last # moves'
      BY <1>1, <1>2, <2>1 DEF BuildHolds, BuildProcess
    <2>4. bd[b].since = heads' => FirstLook(bd[b])'
      BY <2>1, <2>2 DEF BuildHolds, FirstLook, OfHead
    <2>5. SecondLook(bd[b])'
      BY <2>1, <2>3 DEF BuildHolds, SecondLook
    <2> QED
      BY <2>1, <2>2, <2>3, <2>4, <2>5 DEF BuildHolds
  <1> QED
    BY <1>1, <1>2, <1>3, <1>4 DEF BuildsInv, BuildsHold

LEMMA BuildsStay == ASSUME BuildsInv, Gate!GateKeeps PROVE BuildsInv'
  <1>1. UNCHANGED <<commit, wt, moves, heads, builds, artifact, manifest, scan, doubtful, bd>>
    BY DEF Gate!GateKeeps, Gate!repo, Gate!published
  <1> QED
    BY <1>1 DEF BuildsInv, PublishedHolds, BuildsHold, BuildHolds, FirstLook, SecondLook, OfHead

Opened == {"fresh", "extract", "import", "repository"}
Places == {"gate", "manifest", "scan", "inspect", "hash"} \cup Opened
Revalidation ==
    [inspected : Trees \cup {NoFile}, extracted : Trees \cup {NoFile},
     imported : Trees \cup {NoFile}, status : Gate!Proof, container : Gate!Proof]
GateRun ==
    [pc : 0..11, at : Places, call : 1..7, template : Trees \cup {NoFile},
     manifest : Gate!ManifestFile \cup {NoFile}, doubtful : BOOLEAN,
     scan : Gate!ScanFile \cup {NoFile}, inspected : Trees \cup {NoFile},
     artifact : Trees \cup {NoFile}, fresh : Revalidation, found : Found,
     provenance : Gate!Proof, results : SUBSET Gate!Proof, ready : BOOLEAN]

\* What the gate has read for D15-G04; a file once published is not removed.
Loaded(x) ==
    /\ x.at # "gate" => x.pc = 4 /\ artifact \in Trees
    /\ x.pc # 0 => ~x.ready
    /\ Manifested(x.manifest, x.doubtful)
    /\ x.at \notin {"gate", "manifest"} => x.manifest # NoFile
    /\ x.at \notin {"gate", "manifest", "scan"} => x.scan # NoFile
    /\ x.at \in {"hash"} \cup Opened => x.inspected \in Trees
    /\ x.at \in Opened => x.artifact \in Trees
    /\ x.at \in {"extract", "import"} => x.fresh.inspected \in Trees
    /\ x.at = "repository" /\ x.fresh.status = "PASS" => x.fresh.inspected \in Trees
    /\ x.at = "repository" /\ x.provenance = "PASS" => Filled(x.call, x.found)
    /\ x.pc < 5 /\ x.at # "repository" => x.call = 1 /\ x.provenance = "PASS"
\* While nothing it reads changes: what it holds is what is there, and each gate
\* that passed says so of HEAD.
Judged(x) ==
    /\ x.pc > 3 => Gate!Meets(wt, 3)
    /\ x.pc > 7 => Gate!Meets(wt, 7)
    /\ x.pc > 4 /\ ~x.doubtful =>
         /\ wt = commit /\ artifact = commit
         /\ scan = [artifact |-> commit, status |-> "PASS"]
         /\ manifest = [artifact |-> commit, repository |-> Gate!OneTree(commit),
                        container |-> "PASS"]
         /\ x.fresh = [inspected |-> commit, extracted |-> commit, imported |-> commit,
                       status |-> "PASS", container |-> "PASS"]
Holds(x) ==
    /\ x.at \notin {"gate", "manifest"} => x.manifest = manifest
    /\ x.at \notin {"gate", "manifest", "scan"} => x.scan = scan
    /\ x.at \in {"hash"} \cup Opened => x.inspected = artifact
    /\ x.at \in Opened => x.artifact = artifact
    /\ x.at \in {"extract", "import"} => x.fresh.inspected = artifact
    /\ x.at = "import" => x.fresh.extracted = artifact
    /\ x.at = "repository" /\ x.fresh.status = "PASS" =>
         {x.fresh.inspected, x.fresh.extracted, x.fresh.imported} = {artifact}
    /\ x.at = "repository" /\ x.provenance = "PASS" =>
         (x.call > 2 => wt = commit) /\ OfHead(x.call, x.found)
Current(x) ==
    /\ x.template = wt
    /\ Holds(x)
    /\ x.results \subseteq {"PASS"} => Judged(x)
GateInv ==
    /\ BuildsInv /\ dg \in GateRun /\ Loaded(dg) /\ stirred \in BOOLEAN
    /\ dg.pc # 0 /\ ~stirred => Current(dg)

Stirring ==
    stirred' = (dg.pc # 0 /\ (stirred \/ <<wt, commit, <<artifact, manifest, scan>>>>'
                                         # <<wt, commit, <<artifact, manifest, scan>>>>))

LEMMA IdleGateFits == Gate!IdleGate \in GateRun /\ Loaded(Gate!IdleGate) /\ Gate!IdleGate.pc = 0
  <1>1. Gate!IdleGate \in GateRun
    BY DEF Gate!IdleGate, Gate!NoFresh, Gate!OneTree, Gate!Proof, GateRun, Revalidation, Places, Opened, Found
  <1> QED
    BY <1>1 DEF Gate!IdleGate, Opened, Loaded, Manifested

LEMMA GateInit == ASSUME Gate!Init PROVE GateInv
  <1>0. doubtful = FALSE /\ doubtful \in BOOLEAN
    BY DEF Gate!Init, Gate!BuildInit
  <1>1. PublishedHolds
    BY <1>0, BuildBounds DEF Gate!Init, Gate!BuildInit, PublishedHolds, Manifested, Scanned
  <1>2. BuildsInv
    BY <1>1, IdleBuildHolds DEF Gate!Init, Gate!BuildInit, BuildsInv, BuildsHold
  <1>3. dg = Gate!IdleGate /\ stirred = FALSE
    BY DEF Gate!Init
  <1> QED
    BY <1>2, <1>3, IdleGateFits DEF GateInv

\* A step of the gate itself, nothing it reads changing.
LEMMA GateMoves ==
    ASSUME GateInv, Gate!GateKeeps, NEW x, dg' = x, x \in GateRun, Loaded(x),
           ~stirred /\ dg.pc # 0 => Current(x) \/ x.pc = 0,
           dg.pc = 0 => Current(x),
           Stirring
    PROVE  GateInv'
  <1>1. UNCHANGED <<wt, commit, artifact, manifest, scan>> /\ BuildsInv'
    BY BuildsStay DEF Gate!GateKeeps, Gate!repo, Gate!published, GateInv
  <1>2. stirred' = (dg.pc # 0 /\ stirred) /\ stirred' \in BOOLEAN
    BY <1>1 DEF GateInv, Stirring
  <1>3. Loaded(x)'
    BY <1>1 DEF Loaded
  <1>4. Current(x) => Current(x)'
    BY <1>1 DEF Current, Holds, Judged, OfHead
  <1>5. dg'.pc # 0 /\ ~stirred' => Current(x)
    BY <1>2
  <1> QED
    BY <1>1, <1>2, <1>3, <1>4, <1>5 DEF GateInv

LEMMA ResultFacts ==
    ASSUME GateInv, NEW status \in Gate!Proof, Gate!Result(status), dg.pc \in 1..10
    PROVE  /\ dg' \in GateRun /\ dg'.pc = dg.pc + 1 /\ dg'.at = "gate"
           /\ dg'.results = dg.results \cup {status}
           /\ dg'.template = dg.template /\ dg'.manifest = dg.manifest /\ dg'.call = dg.call
           /\ dg'.provenance = dg.provenance /\ dg'.fresh = dg.fresh
           /\ dg'.ready = dg.ready /\ dg'.doubtful = dg.doubtful
  <1>1. dg \in GateRun
    BY DEF GateInv
  <1> DEFINE n == dg.pc + 1
             r == dg.results \cup {status}
             x == [dg EXCEPT !.pc = n, !.at = "gate", !.results = r]
  <1>2. dg' = x
    BY DEF Gate!Result
  <1>3. n \in 0..11 /\ r \in SUBSET Gate!Proof
    BY <1>1 DEF GateRun
  <1>4. x = [dg EXCEPT !.pc = n, !.at = "gate", !.results = r]
    OBVIOUS
  <1> HIDE DEF n, r, x
  <1>5. /\ x.pc = n /\ x.at = "gate" /\ x.results = r
        /\ x.template = dg.template /\ x.manifest = dg.manifest /\ x.call = dg.call
        /\ x.provenance = dg.provenance /\ x.fresh = dg.fresh
    BY <1>1, <1>4 DEF GateRun
  <1>6. x.ready = dg.ready /\ x.doubtful = dg.doubtful
    BY <1>1, <1>4, Zenon DEF GateRun
  <1>7. x \in GateRun
    BY <1>1, <1>3, <1>4 DEF GateRun, Places
  <1> QED
    BY <1>2, <1>5, <1>6, <1>7 DEF n, r

\* A gate ends with what it found.
LEMMA ResultKeeps ==
    ASSUME GateInv, Gate!GateKeeps, Stirring, NEW status \in Gate!Proof, Gate!Result(status),
           dg.pc \in 1..10,
           status = "PASS" /\ dg.results \subseteq {"PASS"} /\ ~stirred =>
             /\ dg.pc \in {3, 7} => Gate!Meets(wt, dg.pc)
             /\ dg.pc = 4 /\ ~dg.doubtful =>
                  /\ wt = commit /\ artifact = commit
                  /\ scan = [artifact |-> commit, status |-> "PASS"]
                  /\ manifest = [artifact |-> commit, repository |-> Gate!OneTree(commit),
                                 container |-> "PASS"]
                  /\ dg.fresh = [inspected |-> commit, extracted |-> commit,
                                 imported |-> commit, status |-> "PASS", container |-> "PASS"]
    PROVE  GateInv'
  <1>1. PICK x : x = dg'
    OBVIOUS
  <1>2. /\ x \in GateRun /\ x.pc = dg.pc + 1 /\ x.at = "gate" /\ x.results = dg.results \cup {status}
        /\ x.template = dg.template /\ x.manifest = dg.manifest /\ x.call = dg.call
        /\ x.provenance = dg.provenance /\ x.fresh = dg.fresh
        /\ x.ready = dg.ready /\ x.doubtful = dg.doubtful
    BY <1>1, ResultFacts
  <1>3. Loaded(x)
    <2>1. dg.pc # 0 /\ Loaded(dg)
      BY DEF GateInv
    <2>2. dg.pc < 4 => dg.at = "gate"
      BY <2>1 DEF Loaded
    <2>3. x.pc < 5 => x.call = 1 /\ x.provenance = "PASS"
      BY <1>2, <2>1, <2>2 DEF Loaded
    <2> QED
      BY <1>2, <2>1, <2>3 DEF Loaded, Opened
  <1>4. ASSUME ~stirred PROVE Current(x)
    <2>1. Current(dg)
      BY <1>4 DEF GateInv
    <2>2. ASSUME x.results \subseteq {"PASS"} PROVE Judged(x)
      <3>1. status = "PASS" /\ dg.results \subseteq {"PASS"} /\ Judged(dg)
        BY <1>2, <2>1, <2>2 DEF Current
      <3> QED
        BY <1>2, <1>4, <3>1 DEF Judged
    <2>3. Holds(x)
      BY <1>2 DEF Holds, Opened
    <2> QED
      BY <1>2, <2>1, <2>2, <2>3 DEF Current
  <1> QED
    BY <1>1, <1>2, <1>3, <1>4, GateMoves

LEMMA RunGateKeeps == ASSUME GateInv, Gate!RunGate, Stirring PROVE GateInv'
  <1> DEFINE one == 1
             x == [Gate!IdleGate EXCEPT !.pc = one, !.template = wt]
  <1>1. dg.pc = 0 /\ dg' = x /\ Gate!GateKeeps /\ wt \in Trees /\ one \in 0..11 /\ one = 1
    BY DEF Gate!RunGate, GateInv, BuildsInv, PublishedHolds
  <1>2. x = [Gate!IdleGate EXCEPT !.pc = one, !.template = wt]
    OBVIOUS
  <1> HIDE DEF x, one
  <1>3. /\ x.pc = 1 /\ x.template = wt /\ x.at = "gate" /\ x.manifest = NoFile /\ x.call = 1
        /\ x.provenance = "PASS" /\ x.results = {} /\ ~x.ready
    BY <1>1, <1>2 DEF Gate!IdleGate
  <1>4. x \in GateRun
    BY <1>1, <1>2, IdleGateFits DEF GateRun
  <1>5. Loaded(x) /\ Current(x)
    BY <1>3 DEF Loaded, Current, Holds, Judged, Manifested, Opened
  <1> QED
    BY <1>1, <1>4, <1>5, GateMoves

LEMMA StaticKeeps == ASSUME GateInv, Gate!Static, Stirring PROVE GateInv'
  <1>1. /\ dg.pc \in Gate!Gates \ {4, 10} /\ Gate!GateKeeps
        /\ \/ Gate!StaticGate(dg.pc, dg.template, wt) /\ Gate!Result("PASS")
           \/ Gate!Result("FAIL")
    BY DEF Gate!Static
  <1>2. {"PASS", "FAIL"} \subseteq Gate!Proof /\ dg.pc \in 1..10 /\ dg.pc # 4
    BY <1>1 DEF Gate!Proof, Gate!Gates
  <1>3. ASSUME Gate!StaticGate(dg.pc, dg.template, wt), dg.pc \in {3, 7} PROVE Gate!Meets(wt, dg.pc)
    BY <1>3 DEF Gate!StaticGate, Gate!gate_retries, Gate!gate_versions, Gate!rollback_contract_is_exact
  <1> QED
    BY <1>1, <1>2, <1>3, ResultKeeps

\* The steps of D15-G04 that read one more file or object.
LEMMA ReadKeeps ==
    ASSUME GateInv, Gate!GateKeeps, Stirring, dg.pc = 4, NEW x, dg' = x,
           x \in GateRun, Loaded(x), x.pc = 4, x.template = dg.template, x.results = dg.results,
           Holds(dg) => Holds(x)
    PROVE  GateInv'
  <1>1. ASSUME ~stirred PROVE Current(x)
    <2>1. Current(dg)
      BY <1>1 DEF GateInv
    <2> QED
      BY <2>1 DEF Current, Judged
  <1> QED
    BY <1>1, GateMoves

\* What one step of it may rely on.
LEMMA ReadingFacts ==
    ASSUME GateInv, NEW place, Gate!At(place)
    PROVE  /\ dg.pc = 4 /\ dg.at = place /\ dg \in GateRun /\ Loaded(dg)
           /\ place # "gate" => artifact \in Trees
           /\ artifact \in Trees \cup {NoFile} /\ Manifested(manifest, doubtful) /\ Scanned(scan)
           /\ doubtful \in BOOLEAN /\ commit \in Trees /\ NoFile \notin Trees
  BY BuildBounds DEF GateInv, Gate!At, BuildsInv, PublishedHolds, Loaded

LEMMA LookForArtifactKeeps == ASSUME GateInv, Gate!LookForArtifact, Stirring PROVE GateInv'
  <1> DEFINE x == [dg EXCEPT !.at = "manifest"]
  <1>1. Gate!At("gate") /\ Gate!GateKeeps
    BY DEF Gate!LookForArtifact
  <1>2. /\ dg.pc = 4 /\ dg.at = "gate" /\ dg \in GateRun /\ Loaded(dg)
        /\ artifact \in Trees \cup {NoFile}
        /\ Manifested(manifest, doubtful) /\ Scanned(scan) /\ doubtful \in BOOLEAN
    BY <1>1, ReadingFacts
  <1>3. CASE dg' = x /\ artifact # NoFile
    <2>1. x = [dg EXCEPT !.at = "manifest"]
      OBVIOUS
    <2> HIDE DEF x
    <2>2. /\ x.at = "manifest" /\ x.pc = 4 /\ x.template = dg.template /\ x.results = dg.results
          /\ x.manifest = dg.manifest /\ x.scan = dg.scan /\ x.inspected = dg.inspected
          /\ x.artifact = dg.artifact /\ x.fresh = dg.fresh /\ x.found = dg.found
          /\ x.provenance = dg.provenance /\ x.call = dg.call
      BY <1>2, <2>1 DEF GateRun
    <2>3. x.ready = dg.ready /\ x.doubtful = dg.doubtful
      BY <1>2, <2>1, Zenon DEF GateRun
    <2>4. x \in GateRun
      BY <1>2, <1>3, <2>1 DEF GateRun, Places, Opened
    <2>5. Loaded(x)
      BY <1>2, <1>3, <2>2, <2>3 DEF Loaded, Opened
    <2>6. Holds(dg) => Holds(x)
      BY <1>2, <2>2 DEF Holds, Opened
    <2> QED
      BY <1>1, <1>2, <1>3, <2>2, <2>4, <2>5, <2>6, ReadKeeps
  <1>4. CASE Gate!Result("BLOCKED")
    BY <1>1, <1>2, <1>4, ResultKeeps DEF Gate!Proof
  <1> QED
    BY <1>2, <1>3, <1>4 DEF Gate!LookForArtifact

LEMMA ReadManifestKeeps == ASSUME GateInv, Gate!ReadManifest, Stirring PROVE GateInv'
  <1> DEFINE x == [dg EXCEPT !.at = "scan", !.manifest = manifest, !.doubtful = doubtful]
  <1>1. Gate!At("manifest") /\ Gate!GateKeeps
    BY DEF Gate!ReadManifest
  <1>2. /\ dg.pc = 4 /\ dg.at = "manifest" /\ dg \in GateRun /\ Loaded(dg)
        /\ artifact \in Trees
        /\ Manifested(manifest, doubtful) /\ Scanned(scan) /\ doubtful \in BOOLEAN
    BY <1>1, ReadingFacts
  <1>3. CASE dg' = x /\ manifest # NoFile
    <2>1. x = [dg EXCEPT !.at = "scan", !.manifest = manifest, !.doubtful = doubtful]
      OBVIOUS
    <2> HIDE DEF x
    <2>2. /\ x.at = "scan" /\ x.pc = 4 /\ x.template = dg.template /\ x.results = dg.results
          /\ x.manifest = manifest /\ x.scan = dg.scan /\ x.inspected = dg.inspected
          /\ x.artifact = dg.artifact /\ x.fresh = dg.fresh /\ x.found = dg.found
          /\ x.provenance = dg.provenance /\ x.call = dg.call
      BY <1>2, <2>1 DEF GateRun
    <2>3. x.ready = dg.ready /\ x.doubtful = doubtful
      BY <1>2, <2>1, Zenon DEF GateRun
    <2>4. x \in GateRun
      BY <1>2, <1>3, <2>1 DEF GateRun, Places, Opened, Manifested
    <2>5. Loaded(x)
      BY <1>2, <1>3, <2>2, <2>3 DEF Loaded, Opened
    <2>6. Holds(dg) => Holds(x)
      BY <1>2, <2>2 DEF Holds, Opened
    <2> QED
      BY <1>1, <1>2, <1>3, <2>2, <2>4, <2>5, <2>6, ReadKeeps
  <1>4. CASE Gate!Result("BLOCKED")
    BY <1>1, <1>2, <1>4, ResultKeeps DEF Gate!Proof
  <1> QED
    BY <1>2, <1>3, <1>4 DEF Gate!ReadManifest

LEMMA ReadScanKeeps == ASSUME GateInv, Gate!ReadScan, Stirring PROVE GateInv'
  <1> DEFINE x == [dg EXCEPT !.at = "inspect", !.scan = scan]
  <1>1. Gate!At("scan") /\ Gate!GateKeeps
    BY DEF Gate!ReadScan
  <1>2. /\ dg.pc = 4 /\ dg.at = "scan" /\ dg \in GateRun /\ Loaded(dg)
        /\ artifact \in Trees
        /\ Manifested(manifest, doubtful) /\ Scanned(scan) /\ doubtful \in BOOLEAN
    BY <1>1, ReadingFacts
  <1>3. CASE dg' = x /\ scan # NoFile
    <2>1. x = [dg EXCEPT !.at = "inspect", !.scan = scan]
      OBVIOUS
    <2> HIDE DEF x
    <2>2. /\ x.at = "inspect" /\ x.pc = 4 /\ x.template = dg.template /\ x.results = dg.results
          /\ x.scan = scan /\ x.manifest = dg.manifest /\ x.inspected = dg.inspected
          /\ x.artifact = dg.artifact /\ x.fresh = dg.fresh /\ x.found = dg.found
          /\ x.provenance = dg.provenance /\ x.call = dg.call
      BY <1>2, <2>1 DEF GateRun
    <2>3. x.ready = dg.ready /\ x.doubtful = dg.doubtful
      BY <1>2, <2>1, Zenon DEF GateRun
    <2>4. x \in GateRun
      BY <1>2, <1>3, <2>1 DEF GateRun, Places, Opened, Scanned
    <2>5. Loaded(x)
      BY <1>2, <1>3, <2>2, <2>3 DEF Loaded, Opened
    <2>6. Holds(dg) => Holds(x)
      BY <1>2, <2>2 DEF Holds, Opened
    <2> QED
      BY <1>1, <1>2, <1>3, <2>2, <2>4, <2>5, <2>6, ReadKeeps
  <1>4. CASE Gate!Result("BLOCKED")
    BY <1>1, <1>2, <1>4, ResultKeeps DEF Gate!Proof
  <1> QED
    BY <1>2, <1>3, <1>4 DEF Gate!ReadScan

LEMMA InspectArtifactKeeps == ASSUME GateInv, Gate!InspectArtifact, Stirring PROVE GateInv'
  <1> DEFINE x == [dg EXCEPT !.at = "hash", !.inspected = artifact]
  <1>1. Gate!At("inspect") /\ Gate!GateKeeps
    BY DEF Gate!InspectArtifact
  <1>2. /\ dg.pc = 4 /\ dg.at = "inspect" /\ dg \in GateRun /\ Loaded(dg)
        /\ artifact \in Trees
        /\ Manifested(manifest, doubtful) /\ Scanned(scan) /\ doubtful \in BOOLEAN
    BY <1>1, ReadingFacts
  <1>3. CASE dg' = x
    <2>1. x = [dg EXCEPT !.at = "hash", !.inspected = artifact]
      OBVIOUS
    <2> HIDE DEF x
    <2>2. /\ x.at = "hash" /\ x.pc = 4 /\ x.template = dg.template /\ x.results = dg.results
          /\ x.inspected = artifact /\ x.manifest = dg.manifest /\ x.scan = dg.scan
          /\ x.artifact = dg.artifact /\ x.fresh = dg.fresh /\ x.found = dg.found
          /\ x.provenance = dg.provenance /\ x.call = dg.call
      BY <1>2, <2>1 DEF GateRun
    <2>3. x.ready = dg.ready /\ x.doubtful = dg.doubtful
      BY <1>2, <2>1, Zenon DEF GateRun
    <2>4. x \in GateRun
      BY <1>2, <1>3, <2>1 DEF GateRun, Places, Opened
    <2>5. Loaded(x)
      BY <1>2, <1>3, <2>2, <2>3 DEF Loaded, Opened
    <2>6. Holds(dg) => Holds(x)
      BY <1>2, <2>2 DEF Holds, Opened
    <2> QED
      BY <1>1, <1>2, <1>3, <2>2, <2>4, <2>5, <2>6, ReadKeeps
  <1> QED
    BY <1>3 DEF Gate!InspectArtifact

LEMMA ReadArtifactKeeps == ASSUME GateInv, Gate!ReadArtifact, Stirring PROVE GateInv'
  <1> DEFINE x == [dg EXCEPT !.at = "fresh", !.artifact = artifact]
  <1>1. Gate!At("hash") /\ Gate!GateKeeps
    BY DEF Gate!ReadArtifact
  <1>2. /\ dg.pc = 4 /\ dg.at = "hash" /\ dg \in GateRun /\ Loaded(dg)
        /\ artifact \in Trees
        /\ Manifested(manifest, doubtful) /\ Scanned(scan) /\ doubtful \in BOOLEAN
    BY <1>1, ReadingFacts
  <1>3. CASE dg' = x
    <2>1. x = [dg EXCEPT !.at = "fresh", !.artifact = artifact]
      OBVIOUS
    <2> HIDE DEF x
    <2>2. /\ x.at = "fresh" /\ x.pc = 4 /\ x.template = dg.template /\ x.results = dg.results
          /\ x.artifact = artifact /\ x.manifest = dg.manifest /\ x.scan = dg.scan
          /\ x.inspected = dg.inspected /\ x.fresh = dg.fresh /\ x.found = dg.found
          /\ x.provenance = dg.provenance /\ x.call = dg.call
      BY <1>2, <2>1 DEF GateRun
    <2>3. x.ready = dg.ready /\ x.doubtful = dg.doubtful
      BY <1>2, <2>1, Zenon DEF GateRun
    <2>4. x \in GateRun
      BY <1>2, <1>3, <2>1 DEF GateRun, Places, Opened
    <2>5. Loaded(x)
      BY <1>2, <1>3, <2>2, <2>3 DEF Loaded, Opened
    <2>6. Holds(dg) => Holds(x)
      BY <1>2, <2>2 DEF Holds, Opened
    <2> QED
      BY <1>1, <1>2, <1>3, <2>2, <2>4, <2>5, <2>6, ReadKeeps
  <1> QED
    BY <1>3 DEF Gate!ReadArtifact

\* revalidate_artifact raised: a verdict without an archive is kept.
LEMMA RaiseKeeps ==
    ASSUME GateInv, Gate!GateKeeps, Stirring, NEW place \in {"fresh", "extract", "import"},
           Gate!At(place), Gate!Raise
    PROVE  GateInv'
  <1>1. PICK status \in Verdicts \ {"PASS"} :
           dg' = [dg EXCEPT !.at = "repository", !.fresh = [Gate!NoFresh EXCEPT !.status = status]]
    BY DEF Gate!Raise
  <1> DEFINE f == [Gate!NoFresh EXCEPT !.status = status]
             x == [dg EXCEPT !.at = "repository", !.fresh = f]
  <1>2. /\ dg.pc = 4 /\ dg.at = place /\ dg \in GateRun /\ Loaded(dg) /\ artifact \in Trees
    BY ReadingFacts
  <1>3. f \in Revalidation /\ f.status # "PASS"
    BY BuildBounds DEF Revalidation, Gate!NoFresh, Gate!Proof
  <1>4. x = [dg EXCEPT !.at = "repository", !.fresh = f] /\ dg' = x
    BY <1>1
  <1> HIDE DEF f, x
  <1>5. /\ x.at = "repository" /\ x.pc = 4 /\ x.template = dg.template /\ x.results = dg.results
        /\ x.manifest = dg.manifest /\ x.scan = dg.scan /\ x.inspected = dg.inspected
        /\ x.artifact = dg.artifact /\ x.fresh = f /\ x.found = dg.found
        /\ x.provenance = dg.provenance /\ x.call = dg.call
    BY <1>2, <1>4 DEF GateRun
  <1>6. x.ready = dg.ready /\ x.doubtful = dg.doubtful
    BY <1>2, <1>4, Zenon DEF GateRun
  <1>7. x \in GateRun
    BY <1>2, <1>3, <1>4 DEF GateRun, Places, Opened
  <1>8. Loaded(x)
    BY <1>2, <1>3, <1>5, <1>6 DEF Loaded, Opened, Filled
  <1>9. Holds(dg) => Holds(x)
    BY <1>2, <1>3, <1>5 DEF Holds, Opened, Loaded, OfHead
  <1> QED
    BY <1>2, <1>4, <1>5, <1>7, <1>8, <1>9, ReadKeeps

LEMMA FreshInspectKeeps == ASSUME GateInv, Gate!FreshInspect, Stirring PROVE GateInv'
  <1>1. Gate!At("fresh") /\ Gate!GateKeeps
    BY DEF Gate!FreshInspect
  <1>2. ASSUME dg' = [dg EXCEPT !.at = "extract", !.fresh = [dg.fresh EXCEPT !.inspected = artifact]]
        PROVE  GateInv'
    <2> DEFINE f == [dg.fresh EXCEPT !.inspected = artifact]
               x == [dg EXCEPT !.at = "extract", !.fresh = f]
    <2>1. /\ dg.pc = 4 /\ dg.at = "fresh" /\ dg \in GateRun /\ Loaded(dg) /\ artifact \in Trees
          /\ dg.fresh \in Revalidation
      BY <1>1, ReadingFacts DEF GateRun
    <2>2. /\ f \in Revalidation
          /\ f.inspected = artifact /\ f.extracted = dg.fresh.extracted /\ f.imported = dg.fresh.imported /\ f.status = dg.fresh.status
      BY <2>1, BuildBounds DEF Revalidation
    <2>3. x = [dg EXCEPT !.at = "extract", !.fresh = f] /\ dg' = x
      BY <1>2
    <2> HIDE DEF f, x
    <2>4. /\ x.at = "extract" /\ x.pc = 4 /\ x.template = dg.template /\ x.results = dg.results
          /\ x.manifest = dg.manifest /\ x.scan = dg.scan /\ x.inspected = dg.inspected
          /\ x.artifact = dg.artifact /\ x.fresh = f /\ x.found = dg.found
          /\ x.provenance = dg.provenance /\ x.call = dg.call
      BY <2>1, <2>3 DEF GateRun
    <2>5. x.ready = dg.ready /\ x.doubtful = dg.doubtful
      BY <2>1, <2>3, Zenon DEF GateRun
    <2>6. x \in GateRun
      BY <2>1, <2>2, <2>3 DEF GateRun, Places, Opened
    <2>7. Loaded(x)
      BY <2>1, <2>2, <2>4, <2>5 DEF Loaded, Opened, Filled
    <2>8. Holds(dg) => Holds(x)
      BY <2>1, <2>2, <2>4 DEF Holds, Opened, Loaded, OfHead
    <2> QED
      BY <1>1, <2>1, <2>3, <2>4, <2>6, <2>7, <2>8, ReadKeeps
  <1> QED
    BY <1>1, <1>2, RaiseKeeps DEF Gate!FreshInspect

LEMMA FreshExtractKeeps == ASSUME GateInv, Gate!FreshExtract, Stirring PROVE GateInv'
  <1>1. Gate!At("extract") /\ Gate!GateKeeps
    BY DEF Gate!FreshExtract
  <1>2. ASSUME dg' = [dg EXCEPT !.at = "import", !.fresh = [dg.fresh EXCEPT !.extracted = artifact]]
        PROVE  GateInv'
    <2> DEFINE f == [dg.fresh EXCEPT !.extracted = artifact]
               x == [dg EXCEPT !.at = "import", !.fresh = f]
    <2>1. /\ dg.pc = 4 /\ dg.at = "extract" /\ dg \in GateRun /\ Loaded(dg) /\ artifact \in Trees
          /\ dg.fresh \in Revalidation
      BY <1>1, ReadingFacts DEF GateRun
    <2>2. /\ f \in Revalidation
          /\ f.extracted = artifact /\ f.inspected = dg.fresh.inspected /\ f.imported = dg.fresh.imported /\ f.status = dg.fresh.status
      BY <2>1, BuildBounds DEF Revalidation
    <2>3. x = [dg EXCEPT !.at = "import", !.fresh = f] /\ dg' = x
      BY <1>2
    <2> HIDE DEF f, x
    <2>4. /\ x.at = "import" /\ x.pc = 4 /\ x.template = dg.template /\ x.results = dg.results
          /\ x.manifest = dg.manifest /\ x.scan = dg.scan /\ x.inspected = dg.inspected
          /\ x.artifact = dg.artifact /\ x.fresh = f /\ x.found = dg.found
          /\ x.provenance = dg.provenance /\ x.call = dg.call
      BY <2>1, <2>3 DEF GateRun
    <2>5. x.ready = dg.ready /\ x.doubtful = dg.doubtful
      BY <2>1, <2>3, Zenon DEF GateRun
    <2>6. x \in GateRun
      BY <2>1, <2>2, <2>3 DEF GateRun, Places, Opened
    <2>7. Loaded(x)
      BY <2>1, <2>2, <2>4, <2>5 DEF Loaded, Opened, Filled
    <2>8. Holds(dg) => Holds(x)
      BY <2>1, <2>2, <2>4 DEF Holds, Opened, Loaded, OfHead
    <2> QED
      BY <1>1, <2>1, <2>3, <2>4, <2>6, <2>7, <2>8, ReadKeeps
  <1> QED
    BY <1>1, <1>2, RaiseKeeps DEF Gate!FreshExtract

LEMMA FreshImportKeeps == ASSUME GateInv, Gate!FreshImport, Stirring PROVE GateInv'
  <1>1. Gate!At("import") /\ Gate!GateKeeps
    BY DEF Gate!FreshImport
  <1>2. ASSUME NEW status \in Verdicts, NEW container \in Verdicts,
               dg' = [dg EXCEPT !.at = "repository",
                                !.fresh = [dg.fresh EXCEPT !.imported = artifact, !.status = status, !.container = container]]
        PROVE  GateInv'
    <2> DEFINE f == [dg.fresh EXCEPT !.imported = artifact, !.status = status, !.container = container]
               x == [dg EXCEPT !.at = "repository", !.fresh = f]
    <2>1. /\ dg.pc = 4 /\ dg.at = "import" /\ dg \in GateRun /\ Loaded(dg) /\ artifact \in Trees
          /\ dg.fresh \in Revalidation
      BY <1>1, ReadingFacts DEF GateRun
    <2>2. /\ f \in Revalidation
          /\ f.imported = artifact /\ f.status = status /\ f.container = container /\ f.inspected = dg.fresh.inspected /\ f.extracted = dg.fresh.extracted
      BY <2>1, BuildBounds DEF Revalidation
    <2>3. x = [dg EXCEPT !.at = "repository", !.fresh = f] /\ dg' = x
      BY <1>2
    <2> HIDE DEF f, x
    <2>4. /\ x.at = "repository" /\ x.pc = 4 /\ x.template = dg.template /\ x.results = dg.results
          /\ x.manifest = dg.manifest /\ x.scan = dg.scan /\ x.inspected = dg.inspected
          /\ x.artifact = dg.artifact /\ x.fresh = f /\ x.found = dg.found
          /\ x.provenance = dg.provenance /\ x.call = dg.call
      BY <2>1, <2>3 DEF GateRun
    <2>5. x.ready = dg.ready /\ x.doubtful = dg.doubtful
      BY <2>1, <2>3, Zenon DEF GateRun
    <2>6. x \in GateRun
      BY <2>1, <2>2, <2>3 DEF GateRun, Places, Opened
    <2>7. Loaded(x)
      BY <2>1, <2>2, <2>4, <2>5 DEF Loaded, Opened, Filled
    <2>8. Holds(dg) => Holds(x)
      BY <2>1, <2>2, <2>4 DEF Holds, Opened, Loaded, OfHead
    <2> QED
      BY <1>1, <2>1, <2>3, <2>4, <2>6, <2>7, <2>8, ReadKeeps
  <1> QED
    BY <1>1, <1>2, RaiseKeeps DEF Gate!FreshImport, Gate!dependency_security_scan, Gate!lambda_container_validation

\* One call of the gate's own Git.
LEMMA FreshRepositoryKeeps == ASSUME GateInv, Gate!FreshRepository, Stirring PROVE GateInv'
  <1>1. /\ Gate!At("repository") /\ Gate!GateKeeps /\ dg.call \in 1..6
    BY DEF Gate!FreshRepository, Gate!Calls
  <1>2. /\ dg.pc = 4 /\ dg.at = "repository" /\ dg \in GateRun /\ Loaded(dg) /\ artifact \in Trees
        /\ commit \in Trees /\ dg.found \in Found
    BY <1>1, ReadingFacts DEF GateRun
  <1>3. ASSUME NEW call \in 1..7, NEW found \in Found, NEW provenance \in Gate!Proof,
               dg' = [dg EXCEPT !.call = call, !.found = found, !.provenance = provenance],
               provenance = "PASS" => Filled(call, found),
               Holds(dg) /\ provenance = "PASS" => (call > 2 => wt = commit) /\ OfHead(call, found)
        PROVE  GateInv'
    <2> DEFINE x == [dg EXCEPT !.call = call, !.found = found, !.provenance = provenance]
    <2>1. x = [dg EXCEPT !.call = call, !.found = found, !.provenance = provenance] /\ dg' = x
      BY <1>3
    <2> HIDE DEF x
    <2>2. /\ x.at = "repository" /\ x.pc = 4 /\ x.template = dg.template /\ x.results = dg.results
          /\ x.manifest = dg.manifest /\ x.scan = dg.scan /\ x.inspected = dg.inspected
          /\ x.artifact = dg.artifact /\ x.fresh = dg.fresh /\ x.found = found
          /\ x.provenance = provenance /\ x.call = call
      BY <1>2, <2>1 DEF GateRun
    <2>3. x.ready = dg.ready /\ x.doubtful = dg.doubtful
      BY <1>2, <2>1, Zenon DEF GateRun
    <2>4. x \in GateRun
      BY <1>2, <1>3, <2>1 DEF GateRun
    <2>5. Loaded(x)
      BY <1>2, <1>3, <2>2, <2>3 DEF Loaded, Opened
    <2>6. Holds(dg) => Holds(x)
      BY <1>2, <1>3, <2>2 DEF Holds, Opened
    <2> QED
      BY <1>1, <1>2, <2>1, <2>2, <2>4, <2>5, <2>6, ReadKeeps
  <1> DEFINE n == dg.call + 1
             found == Gate!Recorded(dg.call, dg.found)
  <1>4. CASE /\ dg' = [dg EXCEPT !.call = @ + 1, !.found = Gate!Recorded(dg.call, dg.found)]
             /\ Gate!Clean(dg.call)
    <2>1. /\ found \in Found
          /\ Filled(dg.call, dg.found) => Filled(n, found)
          /\ OfHead(dg.call, dg.found) => OfHead(n, found)
      BY <1>1, <1>2, RecordedFacts
    <2>2. n \in 1..7 /\ (n > 2 => dg.call = 2 \/ dg.call > 2) /\ (dg.call = 2 => wt = commit)
      BY <1>1, <1>4 DEF Gate!Clean
    <2>3. dg' = [dg EXCEPT !.call = n, !.found = found, !.provenance = dg.provenance]
      BY <1>2, <1>4 DEF GateRun
    <2>4. dg.provenance \in Gate!Proof /\ (dg.provenance = "PASS" => Filled(dg.call, dg.found))
      BY <1>2 DEF GateRun, Loaded
    <2>5. Holds(dg) /\ dg.provenance = "PASS" =>
            (dg.call > 2 => wt = commit) /\ OfHead(dg.call, dg.found)
      BY <1>2 DEF Holds
    <2> HIDE DEF n, found
    <2> QED
      BY <1>3, <2>1, <2>2, <2>3, <2>4, <2>5
  <1>5. CASE \E p \in {"FAIL", "BLOCKED"} :
               dg' = [dg EXCEPT !.call = 7, !.found = Gate!OneTree(NoFile), !.provenance = p]
    <2>1. PICK p \in {"FAIL", "BLOCKED"} :
             dg' = [dg EXCEPT !.call = 7, !.found = Gate!OneTree(NoFile), !.provenance = p]
      BY <1>5
    <2>2. p \in Gate!Proof /\ p # "PASS" /\ 7 \in 1..7
      BY DEF Gate!Proof
    <2> QED
      BY <1>3, <2>1, <2>2, RepositoryFacts
  <1> QED
    BY <1>4, <1>5 DEF Gate!FreshRepository

\* When D15-G04 passes, everything it compared is of one tree, and unless the manifest
\* is excepted, of one commit.
Passing ==
    /\ ~Gate!PublishedFails /\ ~Gate!FreshFails
    /\ {"FAIL", "BLOCKED"} \cap {dg.provenance, dg.fresh.status, dg.fresh.container} = {}
Alike ==
    /\ {dg.inspected, dg.fresh.inspected, dg.manifest.artifact} = {dg.artifact}
    /\ dg.scan = [artifact |-> dg.artifact, status |-> "PASS"]
    /\ {dg.fresh.container, dg.manifest.container} = {"PASS"}
    /\ dg.fresh.status = "PASS" /\ dg.provenance = "PASS"
    /\ dg.manifest \in Gate!ManifestFile /\ dg.manifest.repository = dg.found
    /\ ~dg.doubtful => dg.found = Gate!OneTree(dg.artifact)

LEMMA ArtifactJudged ==
    ASSUME GateInv, Gate!At("repository"), Passing PROVE Alike
  <1>1. /\ dg.at = "repository" /\ dg \in GateRun /\ Loaded(dg) /\ NoFile \notin Trees
    BY ReadingFacts
  <1>2. /\ dg.manifest \in Gate!ManifestFile /\ dg.scan \in Gate!ScanFile
        /\ ~dg.doubtful => dg.manifest.repository = Gate!OneTree(dg.manifest.artifact)
        /\ dg.fresh \in Revalidation /\ dg.provenance \in Gate!Proof
        /\ dg.fresh.status = "PASS" => dg.fresh.inspected \in Trees
    BY <1>1 DEF Loaded, Manifested, GateRun, Opened
  <1>3. dg.fresh.status = "PASS" /\ dg.fresh.container = "PASS" /\ dg.provenance = "PASS"
    BY <1>2 DEF Passing, Revalidation, Gate!Proof
  <1>4. /\ dg.manifest.artifact = dg.artifact /\ dg.scan.artifact = dg.artifact
        /\ dg.inspected = dg.artifact /\ dg.manifest.repository = dg.found
        /\ dg.scan.status = "PASS" /\ dg.manifest.container = "PASS"
    BY <1>3 DEF Passing, Gate!PublishedFails
  <1>5. dg.fresh.inspected = dg.artifact
    BY <1>1, <1>2, <1>3, <1>4 DEF Passing, Gate!FreshFails
  <1>6. dg.scan = [artifact |-> dg.artifact, status |-> "PASS"]
    BY <1>2, <1>4 DEF Gate!ScanFile
  <1> QED
    BY <1>2, <1>3, <1>4, <1>5, <1>6 DEF Alike

\* While nothing it reads changes, that one tree is HEAD's.
LEMMA HeadJudged ==
    ASSUME GateInv, Gate!At("repository"), dg.call \notin 1..6, Alike, Current(dg), ~dg.doubtful
    PROVE  /\ wt = commit /\ artifact = commit
           /\ scan = [artifact |-> commit, status |-> "PASS"]
           /\ manifest = [artifact |-> commit, repository |-> Gate!OneTree(commit),
                          container |-> "PASS"]
           /\ dg.fresh = [inspected |-> commit, extracted |-> commit,
                          imported |-> commit, status |-> "PASS", container |-> "PASS"]
  <1>1. /\ dg.at = "repository" /\ dg \in GateRun /\ dg.call = 7 /\ dg.found \in Found
        /\ dg.fresh \in Revalidation
    BY ReadingFacts DEF GateRun
  <1>2. /\ dg.manifest = manifest /\ dg.scan = scan /\ dg.artifact = artifact
        /\ {dg.fresh.inspected, dg.fresh.extracted, dg.fresh.imported} = {artifact}
        /\ wt = commit /\ OfHead(7, dg.found)
    BY <1>1 DEF Current, Holds, Opened, Alike
  <1>3. dg.found = Gate!OneTree(commit) /\ dg.found = Gate!OneTree(artifact)
    BY <1>1, <1>2, RepositoryFacts DEF Alike
  <1>4. artifact = commit
    BY <1>3 DEF Gate!OneTree
  <1>5. dg.fresh = [inspected |-> commit, extracted |-> commit,
                    imported |-> commit, status |-> "PASS", container |-> "PASS"]
    BY <1>1, <1>2, <1>4 DEF Alike, Revalidation
  <1>6. manifest = [artifact |-> commit, repository |-> Gate!OneTree(commit), container |-> "PASS"]
    BY <1>2, <1>3, <1>4 DEF Alike, Gate!ManifestFile
  <1> QED
    BY <1>2, <1>4, <1>5, <1>6 DEF Alike

LEMMA JudgeArtifactKeeps == ASSUME GateInv, Gate!JudgeArtifact, Stirring PROVE GateInv'
  <1>1. /\ dg.pc = 4 /\ Gate!At("repository") /\ dg.call \notin 1..6 /\ Gate!GateKeeps
    BY DEF Gate!JudgeArtifact, Gate!At, Gate!Calls
  <1>2. CASE Gate!Result("FAIL") \/ Gate!Result("BLOCKED")
    BY <1>1, <1>2, ResultKeeps DEF Gate!Proof
  <1>3. CASE Passing /\ Gate!Result("PASS")
    <2>1. ~stirred => Current(dg)
      BY <1>1 DEF GateInv
    <2> QED
      BY <1>1, <1>3, <2>1, ArtifactJudged, HeadJudged, ResultKeeps DEF Gate!Proof
  <1> QED
    BY <1>2, <1>3 DEF Gate!JudgeArtifact, Passing

LEMMA ExternalKeeps == ASSUME GateInv, Gate!External, Stirring PROVE GateInv'
  <1>1. dg.pc = 10 /\ Gate!GateKeeps /\ \E S : Gate!Result(Gate!combine_status(S))
    BY DEF Gate!External
  <1>2. \A S : Gate!combine_status(S) \in Gate!Proof
    BY DEF Gate!combine_status, Gate!Proof
  <1> QED
    BY <1>1, <1>2, ResultKeeps

LEMMA PayloadKeeps == ASSUME GateInv, Gate!Payload, Stirring PROVE GateInv'
  <1>1. PICK b \in BOOLEAN : dg' = [Gate!IdleGate EXCEPT !.ready = b]
    BY DEF Gate!Payload
  <1> DEFINE x == [Gate!IdleGate EXCEPT !.ready = b]
  <1>2. dg.pc = 11 /\ Gate!GateKeeps
    BY DEF Gate!Payload
  <1>3. x = [Gate!IdleGate EXCEPT !.ready = b] /\ dg' = x
    BY <1>1
  <1> HIDE DEF x
  <1>4. /\ x.pc = 0 /\ x.at = "gate" /\ x.manifest = NoFile /\ x.call = 1 /\ x.provenance = "PASS"
    BY <1>3 DEF Gate!IdleGate
  <1>5. x \in GateRun
    BY <1>3, IdleGateFits DEF GateRun
  <1>6. Loaded(x)
    BY <1>4 DEF Loaded, Manifested, Opened
  <1>7. dg.pc # 0
    BY <1>2
  <1> QED
    BY <1>2, <1>3, <1>4, <1>5, <1>6, <1>7, GateMoves

\* Once published, an archive stays published.
LEMMA ArtifactStays ==
    ASSUME GateInv, Gate!Others, artifact \in Trees PROVE artifact' \in Trees
  <1>1. CASE \E b \in Operators : Gate!PublishArtifact(b)
    <2>1. PICK b \in Operators : Gate!PublishArtifact(b)
      BY <1>1
    <2>2. BuildHolds(bd[b]) /\ bd[b].pc = "artifact" /\ artifact' = bd[b].stage
      BY <2>1 DEF GateInv, BuildsInv, BuildsHold, Gate!PublishArtifact
    <2> QED
      BY <2>2 DEF BuildHolds, Rechecking
  <1>2. CASE ~\E b \in Operators : Gate!PublishArtifact(b)
    <2>1. artifact' = artifact
      BY <1>2 DEF Gate!Others, Gate!build_artifact, Gate!BuildKeeps, Gate!Begin, Gate!Validate,
         Gate!Capture, Gate!Assemble, Gate!CompareStage, Gate!Rebuild, Gate!CompareRebuild,
         Gate!Check, Gate!Revalidate, Gate!Unchanged, Gate!UnchangedSources, Gate!PublishManifest,
         Gate!PublishScan, Gate!Die, Gate!published, Gate!EditTree, Gate!CommitTree,
         Gate!CheckOut, Gate!Move
    <2> QED
      BY <2>1
  <1> QED
    BY <1>1, <1>2

LEMMA GateNextKeeps ==
    ASSUME GateInv, Gate!Next PROVE GateInv'
  <1>1. Stirring
    BY DEF Gate!Next, Stirring, Gate!published
  <1>2. CASE Gate!run_gate
    BY <1>1, <1>2, RunGateKeeps, StaticKeeps, LookForArtifactKeeps, ReadManifestKeeps,
       ReadScanKeeps, InspectArtifactKeeps, ReadArtifactKeeps, FreshInspectKeeps,
       FreshExtractKeeps, FreshImportKeeps, FreshRepositoryKeeps, JudgeArtifactKeeps,
       ExternalKeeps, PayloadKeeps DEF Gate!run_gate
  <1>3. CASE Gate!Others
    <2>1. BuildsInv' /\ dg' = dg
      BY <1>3, BuildSteps, MovesKeep DEF Gate!Others, GateInv
    <2>2. stirred' \in BOOLEAN
      BY <1>1 DEF Stirring, GateInv
    <2>3. Loaded(dg)'
      BY <1>3, <2>1, ArtifactStays DEF GateInv, Loaded
    <2>4. dg'.pc # 0 /\ ~stirred' => ~stirred /\ UNCHANGED <<wt, commit, artifact, manifest, scan>>
      BY <1>1, <2>1 DEF Stirring
    <2>5. dg'.pc # 0 /\ ~stirred' => Current(dg)'
      BY <2>1, <2>4 DEF GateInv, Current, Holds, Judged, OfHead
    <2> QED
      BY <2>1, <2>2, <2>3, <2>5 DEF GateInv
  <1> QED
    BY <1>2, <1>3 DEF Gate!Next

LEMMA GateUnchanged == ASSUME GateInv, UNCHANGED gating PROVE GateInv'
  BY DEF GateInv, BuildsInv, PublishedHolds, BuildsHold, BuildHolds, FirstLook, SecondLook, OfHead,
         Loaded, Current, Holds, Judged, gating

\* No step but the judgement ends D15-G04 with a pass.
LEMMA ArtifactGate == ASSUME GateInv, Gate!Next PROVE Gate!ArtifactGateIsSound
  <1>1. SUFFICES ASSUME dg.pc = 4, dg'.pc = 5, dg'.results = {"PASS"} PROVE Alike
    BY DEF Gate!ArtifactGateIsSound, Alike
  <1>2. ASSUME Gate!Result("FAIL") \/ Gate!Result("BLOCKED") PROVE FALSE
    <2>1. {"FAIL", "BLOCKED"} \subseteq Gate!Proof
      BY DEF Gate!Proof
    <2> QED
      BY <1>1, <1>2, <2>1, ResultFacts
  <1>3. dg \in GateRun
    BY DEF GateInv
  <1>4. CASE Gate!JudgeArtifact
    BY <1>2, <1>4, ArtifactJudged DEF Gate!JudgeArtifact, Passing
  <1>5. ASSUME NEW place, dg' = [dg EXCEPT !.at = place] PROVE FALSE
    BY <1>1, <1>3, <1>5 DEF GateRun
  <1>6. ASSUME NEW place, NEW f, dg' = [dg EXCEPT !.at = place, !.fresh = f] PROVE FALSE
    BY <1>1, <1>3, <1>6 DEF GateRun
  <1>7. Gate!Raise => FALSE
    BY <1>6 DEF Gate!Raise
  <1>8. CASE Gate!LookForArtifact
    BY <1>2, <1>5, <1>8 DEF Gate!LookForArtifact
  <1>9. CASE Gate!ReadManifest
    <2>1. dg' = [dg EXCEPT !.at = "scan", !.manifest = manifest, !.doubtful = doubtful]
      BY <1>2, <1>9 DEF Gate!ReadManifest
    <2> QED
      BY <1>1, <1>3, <2>1 DEF GateRun
  <1>10. CASE Gate!ReadScan
    <2>1. dg' = [dg EXCEPT !.at = "inspect", !.scan = scan]
      BY <1>2, <1>10 DEF Gate!ReadScan
    <2> QED
      BY <1>1, <1>3, <2>1 DEF GateRun
  <1>11. CASE Gate!InspectArtifact
    <2>1. dg' = [dg EXCEPT !.at = "hash", !.inspected = artifact]
      BY <1>11 DEF Gate!InspectArtifact
    <2> QED
      BY <1>1, <1>3, <2>1 DEF GateRun
  <1>12. CASE Gate!ReadArtifact
    <2>1. dg' = [dg EXCEPT !.at = "fresh", !.artifact = artifact]
      BY <1>12 DEF Gate!ReadArtifact
    <2> QED
      BY <1>1, <1>3, <2>1 DEF GateRun
  <1>13. CASE Gate!FreshInspect
    BY <1>6, <1>7, <1>13 DEF Gate!FreshInspect
  <1>14. CASE Gate!FreshExtract
    BY <1>6, <1>7, <1>14 DEF Gate!FreshExtract
  <1>15. CASE Gate!FreshImport
    BY <1>6, <1>7, <1>15 DEF Gate!FreshImport
  <1>16. CASE Gate!FreshRepository
    <2>1. ASSUME NEW n, NEW f, dg' = [dg EXCEPT !.call = n, !.found = f] PROVE FALSE
      BY <1>1, <1>3, <2>1 DEF GateRun
    <2>2. ASSUME NEW n, NEW f, NEW p,
                 dg' = [dg EXCEPT !.call = n, !.found = f, !.provenance = p]
          PROVE  FALSE
      BY <1>1, <1>3, <2>2 DEF GateRun
    <2> QED
      BY <1>16, <2>1, <2>2, Zenon DEF Gate!FreshRepository
  <1> QED
    BY <1>1, <1>4, <1>8, <1>9, <1>10, <1>11, <1>12, <1>13, <1>14, <1>15, <1>16
       DEF Gate!Next, Gate!run_gate, Gate!RunGate, Gate!Static, Gate!External, Gate!Payload, Gate!Others

LEMMA ReadyGate == ASSUME GateInv, Gate!Next PROVE Gate!ReadyIsHead
  <1>1. SUFFICES ASSUME dg.pc = 11, dg'.ready, ~stirred, ~dg.doubtful
                 PROVE  /\ wt = commit /\ dg.template = commit
                        /\ [t \in Trees |-> IF t = 1 THEN {} ELSE {3, 7}][commit] = {}
                        /\ artifact = commit /\ scan = [artifact |-> commit, status |-> "PASS"]
                        /\ manifest = [artifact |-> commit, repository |-> Gate!OneTree(commit),
                                       container |-> "PASS"]
                        /\ dg.fresh = [inspected |-> commit, extracted |-> commit,
                                       imported |-> commit, status |-> "PASS", container |-> "PASS"]
    BY DEF Gate!ReadyIsHead
  <1>2. Current(dg) /\ dg \in GateRun /\ commit \in Trees
    BY <1>1 DEF GateInv, BuildsInv, PublishedHolds
  <1>3. CASE Gate!Payload
    <2>1. Gate!combine_status(dg.results) = "PASS"
      BY <1>1, <1>3 DEF Gate!Payload, Gate!IdleGate
    <2>2. dg.results \subseteq {"PASS"}
      BY <1>2, <2>1 DEF Gate!combine_status, GateRun, Gate!Proof
    <2>3. Judged(dg) /\ dg.template = wt
      BY <1>2, <2>2 DEF Current
    <2> QED
      BY <1>1, <1>2, <2>3 DEF Judged, Gate!Meets
  <1>4. CASE Gate!Others
    BY <1>1, <1>4 DEF Gate!Others, GateInv, Loaded
  <1> QED
    BY <1>1, <1>3, <1>4
       DEF Gate!Next, Gate!run_gate, Gate!RunGate, Gate!Static, Gate!External, Gate!At,
           Gate!LookForArtifact, Gate!ReadManifest, Gate!ReadScan, Gate!InspectArtifact,
           Gate!ReadArtifact, Gate!FreshInspect, Gate!FreshExtract, Gate!FreshImport,
           Gate!FreshRepository, Gate!JudgeArtifact, Gate!Gates

LEMMA GateTypes == ASSUME GateInv PROVE Gate!TypeOK /\ Gate!ManifestIsTrue
  <1>1. \A b \in Operators : bd[b].call \in Gate!Calls \cup {7} /\ bd[b].stage \in Trees \cup {NoFile}
    BY DEF GateInv, BuildsInv, BuildsHold, BuildHolds, BuildProcess, Gate!Calls
  <1>2. /\ dg.pc \in 0..11 /\ dg.call \in Gate!Calls \cup {7} /\ dg.provenance \in Gate!Proof
        /\ dg.results \subseteq Gate!Proof /\ dg.ready \in BOOLEAN
    BY DEF GateInv, GateRun, Gate!Calls
  <1> QED
    BY <1>1, <1>2 DEF GateInv, BuildsInv, PublishedHolds, Manifested, Scanned,
       Gate!TypeOK, Gate!BuildTypeOK, Gate!ManifestIsTrue

-----------------------------------------------------------------------------
(* The local gate and the release attestation *)

Sha == Attest!Commits
GitState == [head : Sha, work : Sha, origin : Sha, main : BOOLEAN]
LocalGate ==
    [pc : {"idle", "head", "status", "FULL_TESTS", "PRIORITY", "QUALITY", "GENERATED",
           "OFFLINE_CHAIN", "write"}, expected : Sha \cup {NoFile}, steady : BOOLEAN]
Attester ==
    [pc : {"idle", "version", "head", "tree", "origin", "status", "files", "write", "contract"},
     verify : BOOLEAN, expected : Sha \cup {NoFile}, tested : Attest!Evidence \cup {NoFile},
     contract : {0, 1}, head : Sha \cup {NoFile}, tree : Sha \cup {NoFile},
     origin : Sha \cup {NoFile}, artifact : {0, 1}, steady : BOOLEAN, accepted : BOOLEAN]

\* Evidence of a gate nothing moved under names a commit that passes.
Tested(e) ==
    e.steady => e.tested_git_sha["source"] = 1 /\ e.tested_git_sha["contract"] = 1

\* Nothing having moved, a stage judges the commit the gate began with.
GateStands(x) ==
    /\ x.pc # "idle" => x.expected \in Sha
    /\ x.pc # "idle" /\ x.steady => x.expected = git.head
    /\ x.pc \notin {"idle", "head", "status"} /\ x.steady => git.work = git.head
    /\ x.pc \in {"PRIORITY", "QUALITY", "GENERATED", "OFFLINE_CHAIN", "write"} /\ x.steady =>
         git.work["source"] = 1
    /\ x.pc = "write" /\ x.steady => git.work["contract"] = 1

\* What the attester has read, and, nothing having moved, that it still is so.
AttesterKnows(x) ==
    /\ x.pc # "idle" => x.tested \in Attest!Evidence /\ Tested(x.tested) /\ ~x.accepted
    /\ x.pc \in {"tree", "origin", "status", "files", "write", "contract"} => x.head \in Sha
    /\ x.pc \in {"origin", "status", "files", "write", "contract"} => x.tree \in Sha
    /\ x.pc \in {"status", "files", "write", "contract"} => x.origin \in Sha
    /\ x.pc = "write" => ~x.verify
    /\ x.pc = "contract" => x.verify
    /\ x.pc # "idle" /\ x.verify => attestation \in Attest!Attestation /\ x.tested = attestation.evidence
AttesterStands(x) ==
    /\ x.pc \in {"tree", "origin", "status", "files", "contract"} => x.head = git.head
    /\ x.pc \in {"status", "files", "contract"} => x.origin = git.origin
    /\ x.pc \in {"files", "contract"} =>
         /\ git.work = git.head /\ x.origin = x.head
         /\ x.verify =>
              /\ attestation.head = x.head /\ attestation.tree = x.tree
              /\ attestation.origin = x.origin
              /\ Attest!post_test_changes(x.tested.tested_git_sha, x.head) \in {{}, {"report"}}
    /\ x.pc \in {"origin", "status", "files", "contract"} => x.tree = git.head
    /\ x.pc = "contract" => attestation.artifact = git.work["contract"]
AttestInv ==
    /\ git \in GitState /\ shifts \in 0..MaxShifts
    /\ proof = NoFile \/ (proof \in Attest!Evidence /\ Tested(proof))
    /\ attestation = NoFile \/ (attestation \in Attest!Attestation /\ Tested(attestation.evidence))
    /\ gate \in LocalGate /\ GateStands(gate)
    /\ attester \in Attester /\ AttesterKnows(attester)
    /\ attester.steady => AttesterStands(attester)

LEMMA GitKnown ==
    ASSUME git \in GitState
    PROVE  /\ git.head \in Sha /\ git.work \in Sha /\ git.origin \in Sha /\ git.main \in BOOLEAN
           /\ git.work["contract"] \in {0, 1} /\ git.work["source"] \in {0, 1}
  <1>1. git.head \in Sha /\ git.work \in Sha /\ git.origin \in Sha /\ git.main \in BOOLEAN
    BY DEF GitState
  <1> QED
    BY <1>1 DEF Sha, Attest!Commits, Attest!Paths

LEMMA IdleAttesterFits ==
    /\ Attest!IdleAttester \in Attester /\ Attest!IdleAttester.pc = "idle"
    /\ ~Attest!IdleAttester.accepted
  BY DEF Attest!IdleAttester, Attester

LEMMA IdleLocalGateFits ==
    /\ Attest!IdleGate \in LocalGate /\ Attest!IdleGate.pc = "idle" /\ Attest!IdleGate.steady
  BY DEF Attest!IdleGate, LocalGate

LEMMA AttestInit == ASSUME Attest!AttestationInit PROVE AttestInv
  <1>1. git \in GitState
    BY DEF Attest!AttestationInit, GitState, Sha
  <1>2. shifts \in 0..MaxShifts
    BY BoundsAssumption DEF Attest!AttestationInit
  <1>3. GateStands(gate) /\ AttesterKnows(attester) /\ AttesterStands(attester)
    BY IdleAttesterFits, IdleLocalGateFits DEF Attest!AttestationInit, GateStands, AttesterKnows, AttesterStands
  <1> QED
    BY <1>1, <1>2, <1>3, IdleAttesterFits, IdleLocalGateFits DEF Attest!AttestationInit, AttestInv

-----------------------------------------------------------------------------
\* The local gate's steps.
LEMMA LocalGateMoves ==
    ASSUME AttestInv, NEW x, gate' = x, x \in LocalGate, GateStands(x),
           UNCHANGED <<git, proof, attestation, attester, shifts>>
    PROVE  AttestInv'
  BY DEF AttestInv, GateStands, AttesterKnows, AttesterStands

LEMMA LocalGateEnds ==
    ASSUME AttestInv, Attest!GateEnds, UNCHANGED <<git, proof, attestation, attester, shifts>>
    PROVE  AttestInv'
  <1>1. GateStands(Attest!IdleGate)
    BY IdleLocalGateFits DEF GateStands
  <1> QED
    BY <1>1, LocalGateMoves, IdleLocalGateFits DEF Attest!GateEnds

LEMMA LocalGateGoes ==
    ASSUME AttestInv, NEW pc \in {"status", "FULL_TESTS", "PRIORITY", "QUALITY", "GENERATED",
                                  "OFFLINE_CHAIN", "write"},
           Attest!GateTo(pc), gate.pc # "idle",
           GateStands([gate EXCEPT !.pc = pc]),
           UNCHANGED <<git, proof, attestation, attester, shifts>>
    PROVE  AttestInv'
  <1>1. PICK x : x = [gate EXCEPT !.pc = pc]
    OBVIOUS
  <1>2. x \in LocalGate
    BY <1>1 DEF AttestInv, LocalGate
  <1> QED
    BY <1>1, <1>2, LocalGateMoves DEF Attest!GateTo

LEMMA LocalGateKeeps == ASSUME AttestInv, Attest!execute_local_gate PROVE AttestInv'
  <1>1. gate \in LocalGate /\ GateStands(gate) /\ git \in GitState
    BY DEF AttestInv
  <1>2. CASE Attest!StartGate
    <2> DEFINE e == [Attest!IdleGate EXCEPT !.pc = "head", !.expected = git.head]
    <2>1. e \in LocalGate /\ e.pc = "head" /\ e.expected = git.head
      BY <1>1, GitKnown, IdleLocalGateFits DEF LocalGate
    <2>2. gate' = e
      BY <1>2 DEF Attest!StartGate
    <2> HIDE DEF e
    <2>3. PICK x : x = e
      OBVIOUS
    <2>4. GateStands(x)
      BY <1>1, <2>1, <2>3, GitKnown DEF GateStands
    <2> QED
      BY <1>2, <2>1, <2>2, <2>3, <2>4, LocalGateMoves DEF Attest!StartGate
  <1>3. CASE Attest!assert_clean_expected_head
    <2>1. CASE gate.pc = "head" /\ git.head = gate.expected /\ Attest!GateTo("status")
      <3>1. GateStands([gate EXCEPT !.pc = "status"])
        BY <1>1, <2>1 DEF GateStands, LocalGate
      <3> QED
        BY <1>3, <2>1, <3>1, LocalGateGoes DEF Attest!assert_clean_expected_head
    <2>2. CASE gate.pc = "status" /\ git.work = git.head /\ Attest!GateTo("FULL_TESTS")
      <3>1. GateStands([gate EXCEPT !.pc = "FULL_TESTS"])
        BY <1>1, <2>2 DEF GateStands, LocalGate
      <3> QED
        BY <1>3, <2>2, <3>1, LocalGateGoes DEF Attest!assert_clean_expected_head
    <2> QED
      BY <1>3, <2>1, <2>2, LocalGateEnds DEF Attest!assert_clean_expected_head, Attest!Stages
  <1>4. ASSUME NEW n \in 1..5, Attest!RunStage(n) PROVE AttestInv'
    <2>1. /\ UNCHANGED <<git, proof, attestation, attester, shifts>>
          /\ gate.pc = Attest!Stages[n]
          /\ \/ Attest!GateEnds
             \/ /\ Attest!Passes(Attest!Stages[n])
                /\ Attest!GateTo(IF n = 5 THEN "write" ELSE Attest!Stages[n + 1])
      BY <1>4 DEF Attest!RunStage, Attest!Stages
    <2>2. CASE n = 1
      <3>1. gate.pc = "FULL_TESTS" /\ (Attest!GateEnds \/ (git.work["source"] = 1 /\ Attest!GateTo("PRIORITY")))
        BY <2>1, <2>2 DEF Attest!Stages, Attest!Passes, Attest!full_tests
      <3>2. git.work["source"] = 1 => GateStands([gate EXCEPT !.pc = "PRIORITY"])
        BY <1>1, <3>1 DEF GateStands, LocalGate
      <3> QED
        BY <2>1, <3>1, <3>2, LocalGateEnds, LocalGateGoes
    <2>3. CASE n = 2
      <3>1. gate.pc = "PRIORITY" /\ (Attest!GateEnds \/ Attest!GateTo("QUALITY"))
        BY <2>1, <2>3 DEF Attest!Stages
      <3>2. GateStands([gate EXCEPT !.pc = "QUALITY"])
        BY <1>1, <3>1 DEF GateStands, LocalGate
      <3> QED
        BY <2>1, <3>1, <3>2, LocalGateEnds, LocalGateGoes
    <2>4. CASE n = 3
      <3>1. gate.pc = "QUALITY" /\ (Attest!GateEnds \/ Attest!GateTo("GENERATED"))
        BY <2>1, <2>4 DEF Attest!Stages
      <3>2. GateStands([gate EXCEPT !.pc = "GENERATED"])
        BY <1>1, <3>1 DEF GateStands, LocalGate
      <3> QED
        BY <2>1, <3>1, <3>2, LocalGateEnds, LocalGateGoes
    <2>5. CASE n = 4
      <3>1. gate.pc = "GENERATED" /\ (Attest!GateEnds \/ Attest!GateTo("OFFLINE_CHAIN"))
        BY <2>1, <2>5 DEF Attest!Stages
      <3>2. GateStands([gate EXCEPT !.pc = "OFFLINE_CHAIN"])
        BY <1>1, <3>1 DEF GateStands, LocalGate
      <3> QED
        BY <2>1, <3>1, <3>2, LocalGateEnds, LocalGateGoes
    <2>6. CASE n = 5
      <3>1. /\ gate.pc = "OFFLINE_CHAIN"
            /\ Attest!GateEnds \/ (git.work["contract"] = 1 /\ Attest!GateTo("write"))
        BY <2>1, <2>6 DEF Attest!Stages, Attest!Passes, Attest!offline_chain
      <3>2. git.work["contract"] = 1 => GateStands([gate EXCEPT !.pc = "write"])
        BY <1>1, <3>1 DEF GateStands, LocalGate
      <3> QED
        BY <2>1, <3>1, <3>2, LocalGateEnds, LocalGateGoes
    <2> QED
      BY <2>2, <2>3, <2>4, <2>5, <2>6
  <1>5. CASE Attest!WriteEvidence
    <2>1. PICK e : e = Attest!create_local_gate_evidence
      OBVIOUS
    <2>2. /\ gate.pc = "write" /\ gate' = Attest!IdleGate /\ proof' \in {e, proof}
          /\ UNCHANGED <<git, attestation, attester, shifts>>
      BY <1>5, <2>1 DEF Attest!WriteEvidence, Attest!GateEnds
    <2>3. /\ gate.expected \in Sha /\ gate.steady \in BOOLEAN
          /\ gate.steady => /\ gate.expected = git.head /\ git.work = git.head
                            /\ git.work["source"] = 1 /\ git.work["contract"] = 1
      BY <1>1, <2>2 DEF GateStands, LocalGate
    <2>4. e \in Attest!Evidence /\ Tested(e)
      BY <2>1, <2>3 DEF Attest!create_local_gate_evidence, Attest!Evidence, Tested, Sha
    <2>5. GateStands(gate)'
      BY <2>2, IdleLocalGateFits DEF GateStands
    <2> QED
      BY <2>2, <2>4, <2>5, IdleLocalGateFits DEF AttestInv, AttesterKnows, AttesterStands
  <1> QED
    BY <1>2, <1>3, <1>4, <1>5 DEF Attest!execute_local_gate, Attest!Stages

\* The attester's steps.
LEMMA AttesterMoves ==
    ASSUME AttestInv, NEW x, attester' = x, x \in Attester, AttesterKnows(x),
           x.steady => AttesterStands(x), UNCHANGED <<git, gate, proof, attestation, shifts>>
    PROVE  AttestInv'
  BY DEF AttestInv, GateStands, AttesterKnows, AttesterStands

LEMMA AttesterFails ==
    ASSUME AttestInv, Attest!Fails, UNCHANGED <<git, gate, proof, attestation, shifts>>
    PROVE  AttestInv'
  <1>1. AttesterKnows(Attest!IdleAttester) /\ AttesterStands(Attest!IdleAttester)
    BY IdleAttesterFits DEF AttesterKnows, AttesterStands
  <1> QED
    BY <1>1, AttesterMoves, IdleAttesterFits DEF Attest!Fails

LEMMA AttesterGoes ==
    ASSUME AttestInv, NEW pc \in {"head", "files", "contract"}, Attest!To(pc), attester.pc # "idle",
           AttesterKnows([attester EXCEPT !.pc = pc]),
           attester.steady => AttesterStands([attester EXCEPT !.pc = pc]),
           UNCHANGED <<git, gate, proof, attestation, shifts>>
    PROVE  AttestInv'
  <1>1. PICK x : x = [attester EXCEPT !.pc = pc]
    OBVIOUS
  <1>2. x \in Attester /\ x.steady = attester.steady
    BY <1>1 DEF AttestInv, Attester
  <1> QED
    BY <1>1, <1>2, AttesterMoves DEF Attest!To

LEMMA LoadKeeps ==
    ASSUME AttestInv, NEW verify \in BOOLEAN, Attest!Load(verify) PROVE AttestInv'
  <1> DEFINE t == IF verify THEN attestation.evidence ELSE proof
             c == IF verify THEN attestation.contract ELSE git.work["contract"]
             e == [Attest!IdleAttester EXCEPT !.pc = "version", !.verify = verify,
                     !.expected = git.head, !.tested = t, !.contract = c]
  <1>1. /\ attester' = e /\ UNCHANGED <<git, gate, proof, attestation, shifts>>
        /\ (IF verify THEN attestation ELSE proof) # NoFile
    BY DEF Attest!Load
  <1>2. /\ git \in GitState /\ t \in Attest!Evidence /\ Tested(t) /\ c \in {0, 1}
        /\ verify => attestation \in Attest!Attestation /\ t = attestation.evidence
    BY <1>1, GitKnown DEF AttestInv, Attest!Attestation
  <1>3. git.head \in Sha
    BY <1>2, GitKnown
  <1> HIDE DEF t, c
  <1>4. e.pc = "version" /\ e.verify = verify /\ e.tested = t /\ ~e.accepted
    BY DEF Attest!IdleAttester
  <1>5. e \in Attester
    BY <1>2, <1>3, IdleAttesterFits DEF Attester
  <1> HIDE DEF e
  <1>6. PICK x : x = e
    OBVIOUS
  <1>7. AttesterKnows(x) /\ AttesterStands(x)
    BY <1>2, <1>4, <1>6 DEF AttesterKnows, AttesterStands
  <1> QED
    BY <1>1, <1>5, <1>6, <1>7, AttesterMoves

\* The git calls that read one name each.
LEMMA ReadNameKeeps ==
    ASSUME AttestInv, Attest!ReadHead \/ Attest!ReadTree \/ Attest!ReadOrigin PROVE AttestInv'
  <1>1. /\ attester \in Attester /\ AttesterKnows(attester) /\ git \in GitState
        /\ attester.steady => AttesterStands(attester)
        /\ git.head \in Sha /\ git.origin \in Sha
    BY GitKnown DEF AttestInv
  <1>2. UNCHANGED <<git, gate, proof, attestation, shifts>>
    BY DEF Attest!ReadHead, Attest!ReadTree, Attest!ReadOrigin
  <1>3. PICK x : x = attester'
    OBVIOUS
  <1>4. CASE Attest!ReadHead
    <2> DEFINE e == [attester EXCEPT !.pc = "tree", !.head = git.head]
    <2>1. attester.pc = "head" /\ x = e
      BY <1>3, <1>4 DEF Attest!ReadHead
    <2>2. /\ e.pc = "tree" /\ e.head = git.head /\ e.verify = attester.verify
          /\ e.tested = attester.tested /\ e.accepted = attester.accepted
      BY <1>1 DEF Attester
    <2>3. e \in Attester
      BY <1>1 DEF Attester
    <2> HIDE DEF e
    <2>4. AttesterKnows(x) /\ AttesterStands(x)
      BY <1>1, <2>1, <2>2 DEF AttesterKnows, AttesterStands
    <2> QED
      BY <1>2, <1>3, <2>1, <2>3, <2>4, AttesterMoves
  <1>5. CASE Attest!ReadTree
    <2> DEFINE e == [attester EXCEPT !.pc = "origin", !.tree = git.head]
    <2>1. attester.pc = "tree" /\ x = e
      BY <1>3, <1>5 DEF Attest!ReadTree
    <2>2. /\ e.pc = "origin" /\ e.tree = git.head /\ e.head = attester.head /\ e.verify = attester.verify
          /\ e.tested = attester.tested /\ e.accepted = attester.accepted
          /\ e.steady = attester.steady
      BY <1>1 DEF Attester
    <2>3. e \in Attester
      BY <1>1 DEF Attester
    <2> HIDE DEF e
    <2>4. AttesterKnows(x)
      BY <1>1, <2>1, <2>2 DEF AttesterKnows
    <2>5. x.steady => AttesterStands(x)
      BY <1>1, <2>1, <2>2 DEF AttesterStands
    <2> QED
      BY <1>2, <1>3, <2>1, <2>3, <2>4, <2>5, AttesterMoves
  <1>6. CASE Attest!ReadOrigin
    <2> DEFINE e == [attester EXCEPT !.pc = "status", !.origin = git.origin]
    <2>1. attester.pc = "origin" /\ x = e
      BY <1>3, <1>6 DEF Attest!ReadOrigin
    <2>2. /\ e.pc = "status" /\ e.origin = git.origin /\ e.head = attester.head
          /\ e.tree = attester.tree /\ e.verify = attester.verify
          /\ e.tested = attester.tested /\ e.accepted = attester.accepted
          /\ e.steady = attester.steady
      BY <1>1 DEF Attester
    <2>3. e \in Attester
      BY <1>1 DEF Attester
    <2> HIDE DEF e
    <2>4. AttesterKnows(x)
      BY <1>1, <2>1, <2>2 DEF AttesterKnows
    <2>5. x.steady => AttesterStands(x)
      BY <1>1, <2>1, <2>2 DEF AttesterStands
    <2> QED
      BY <1>2, <1>3, <2>1, <2>3, <2>4, <2>5, AttesterMoves
  <1> QED
    BY <1>4, <1>5, <1>6

LEMMA VersionKeeps == ASSUME AttestInv, Attest!package_version PROVE AttestInv'
  <1>1. /\ attester \in Attester /\ AttesterKnows(attester) /\ attester.pc = "version"
        /\ UNCHANGED <<git, gate, proof, attestation, shifts>>
    BY DEF AttestInv, Attest!package_version
  <1>2. /\ AttesterKnows([attester EXCEPT !.pc = "head"])
        /\ AttesterStands([attester EXCEPT !.pc = "head"])
    BY <1>1 DEF Attester, AttesterKnows, AttesterStands
  <1> QED
    BY <1>1, <1>2, AttesterFails, AttesterGoes DEF Attest!package_version

LEMMA JudgeRepositoryKeeps == ASSUME AttestInv, Attest!JudgeRepository PROVE AttestInv'
  <1>1. /\ attester \in Attester /\ AttesterKnows(attester) /\ attester.pc = "status"
        /\ attester.steady => AttesterStands(attester)
        /\ UNCHANGED <<git, gate, proof, attestation, shifts>>
    BY DEF AttestInv, Attest!JudgeRepository
  <1>2. CASE Attest!repository_state /\ (attester.verify => Attest!binding_holds) /\ Attest!To("files")
    <2>1. AttesterKnows([attester EXCEPT !.pc = "files"])
      BY <1>1 DEF Attester, AttesterKnows
    <2>2. attester.steady => AttesterStands([attester EXCEPT !.pc = "files"])
      BY <1>1, <1>2 DEF Attester, AttesterStands, Attest!repository_state, Attest!binding_holds
    <2> QED
      BY <1>1, <1>2, <2>1, <2>2, AttesterGoes
  <1> QED
    BY <1>1, <1>2, AttesterFails DEF Attest!JudgeRepository

LEMMA HashKeeps == ASSUME AttestInv, Attest!HashArtifacts PROVE AttestInv'
  <1>1. /\ attester \in Attester /\ AttesterKnows(attester) /\ attester.pc = "files"
        /\ attester.steady => AttesterStands(attester)
        /\ UNCHANGED <<git, gate, proof, attestation, shifts>> /\ git.work["contract"] \in {0, 1}
    BY GitKnown DEF AttestInv, Attest!HashArtifacts
  <1>2. CASE attester.verify /\ git.work["contract"] = attestation.artifact /\ Attest!To("contract")
    <2>1. AttesterKnows([attester EXCEPT !.pc = "contract"])
      BY <1>1, <1>2 DEF Attester, AttesterKnows
    <2>2. attester.steady => AttesterStands([attester EXCEPT !.pc = "contract"])
      BY <1>1, <1>2 DEF Attester, AttesterStands
    <2> QED
      BY <1>1, <1>2, <2>1, <2>2, AttesterGoes
  <1>3. CASE ~attester.verify
             /\ attester' = [attester EXCEPT !.pc = "write", !.artifact = git.work["contract"]]
    <2> DEFINE e == [attester EXCEPT !.pc = "write", !.artifact = git.work["contract"]]
    <2>1. PICK x : x = e
      OBVIOUS
    <2>2. /\ e.pc = "write" /\ e.head = attester.head /\ e.origin = attester.origin
          /\ e.tree = attester.tree /\ e.verify = attester.verify
          /\ e.tested = attester.tested /\ e.accepted = attester.accepted
      BY <1>1 DEF Attester
    <2>3. e \in Attester
      BY <1>1 DEF Attester
    <2>4. attester' = e
      BY <1>3
    <2> HIDE DEF e
    <2>5. AttesterKnows(x) /\ AttesterStands(x)
      BY <1>1, <1>3, <2>1, <2>2 DEF AttesterKnows, AttesterStands
    <2> QED
      BY <1>1, <2>1, <2>3, <2>4, <2>5, AttesterMoves
  <1> QED
    BY <1>1, <1>2, <1>3, AttesterFails DEF Attest!HashArtifacts, Attester

LEMMA AttestKeeps == ASSUME AttestInv, Attest!attest_release_candidate PROVE AttestInv'
  <1>1. /\ attester \in Attester /\ AttesterKnows(attester) /\ attester.pc = "write"
        /\ UNCHANGED <<git, gate, proof, shifts>> /\ attester' = Attest!IdleAttester
    BY DEF AttestInv, Attest!attest_release_candidate, Attest!Fails
  <1>2. PICK d : d = Attest!attestation_material
    OBVIOUS
  <1>3. /\ attester.head \in Sha /\ attester.tree \in Sha /\ attester.origin \in Sha
        /\ attester.tested \in Attest!Evidence /\ Tested(attester.tested)
        /\ attester.artifact \in {0, 1} /\ attester.contract \in {0, 1}
    BY <1>1 DEF AttesterKnows, Attester
  <1>4. d \in Attest!Attestation /\ Tested(d.evidence)
    BY <1>2, <1>3 DEF Attest!attestation_material, Attest!Attestation, Sha
  <1>5. attestation' \in {d, attestation}
    BY <1>2 DEF Attest!attest_release_candidate
  <1>6. AttesterKnows(attester)' /\ AttesterStands(attester)'
    BY <1>1, IdleAttesterFits DEF AttesterKnows, AttesterStands
  <1> QED
    BY <1>1, <1>4, <1>5, <1>6, IdleAttesterFits DEF AttestInv, GateStands

LEMMA AcceptKeeps == ASSUME AttestInv, Attest!AcceptCandidate PROVE AttestInv'
  <1>1. /\ attester \in Attester /\ UNCHANGED <<git, gate, proof, attestation, shifts>>
    BY DEF AttestInv, Attest!AcceptCandidate
  <1>2. CASE attester' = [Attest!IdleAttester EXCEPT !.accepted = TRUE, !.steady = attester.steady]
    <2>1. PICK x : x = attester'
      OBVIOUS
    <2>2. x \in Attester /\ x.pc = "idle"
      BY <1>1, <1>2, <2>1, IdleAttesterFits DEF Attester
    <2>3. AttesterKnows(x) /\ AttesterStands(x)
      BY <2>2 DEF AttesterKnows, AttesterStands
    <2> QED
      BY <1>1, <2>1, <2>2, <2>3, AttesterMoves
  <1> QED
    BY <1>1, <1>2, AttesterFails DEF Attest!AcceptCandidate

\* Whatever a developer changes, no process stays undisturbed.
LEMMA ShiftKeeps ==
    ASSUME AttestInv, NEW to \in GitState, Attest!Shift(to) PROVE AttestInv'
  <1>1. /\ shifts < MaxShifts /\ shifts' = shifts + 1 /\ git' = to /\ UNCHANGED <<proof, attestation>>
        /\ gate' = [gate EXCEPT !.steady = gate.pc = "idle"]
        /\ attester' = [attester EXCEPT !.steady = attester.pc = "idle"]
    BY DEF Attest!Shift
  <1>2. /\ gate \in LocalGate /\ GateStands(gate) /\ attester \in Attester /\ AttesterKnows(attester)
        /\ shifts \in 0..MaxShifts
    BY DEF AttestInv
  <1>3. PICK x : x = [gate EXCEPT !.steady = gate.pc = "idle"]
    OBVIOUS
  <1>4. x \in LocalGate /\ x.pc = gate.pc /\ x.expected = gate.expected /\ (x.steady <=> gate.pc = "idle")
    BY <1>2, <1>3 DEF LocalGate
  <1>5. GateStands(x)'
    BY <1>2, <1>4 DEF GateStands
  <1>6. PICK y : y = [attester EXCEPT !.steady = attester.pc = "idle"]
    OBVIOUS
  <1>7. /\ y \in Attester /\ y.pc = attester.pc /\ y.tested = attester.tested
        /\ y.accepted = attester.accepted /\ y.head = attester.head /\ y.tree = attester.tree
        /\ y.origin = attester.origin /\ y.verify = attester.verify
        /\ (y.steady <=> attester.pc = "idle")
    BY <1>2, <1>6, ZenonT(60) DEF Attester
  <1>8. AttesterKnows(y)'
    BY <1>1, <1>2, <1>7 DEF AttesterKnows
  <1>9. y.steady => AttesterStands(y)'
    BY <1>7 DEF AttesterStands
  <1>10. shifts' \in 0..MaxShifts
    BY <1>1, <1>2, BoundsAssumption
  <1> QED
    BY <1>1, <1>3, <1>4, <1>5, <1>6, <1>7, <1>8, <1>9, <1>10 DEF AttestInv

LEMMA DevelopersKeep ==
    ASSUME AttestInv,
           (\E p \in Attest!Paths : Attest!Edit(p)) \/ Attest!CommitAll \/ Attest!Push \/ Attest!CheckOut
    PROVE  AttestInv'
  <1>1. /\ git \in GitState /\ git.head \in Sha /\ git.work \in Sha /\ git.origin \in Sha
    BY GitKnown DEF AttestInv
  <1>2. ASSUME NEW p \in Attest!Paths, Attest!Edit(p) PROVE AttestInv'
    <2> DEFINE w == [git.work EXCEPT ![p] = 1 - git.work[p]]
               to == [git EXCEPT !.work = w]
    <2>1. w \in Sha
      BY <1>1 DEF Sha, Attest!Commits
    <2> HIDE DEF w
    <2>2. to \in GitState
      BY <1>1, <2>1 DEF GitState
    <2>3. [git EXCEPT !.work[p] = 1 - @] = to
      BY <1>1 DEF GitState, w
    <2> HIDE DEF to
    <2>4. Attest!Shift(to)
      BY <1>2, <2>3 DEF Attest!Edit
    <2> QED
      BY <2>2, <2>4, ShiftKeeps
  <1>3. CASE Attest!CommitAll
    <2>1. [git EXCEPT !.head = git.work] \in GitState
      BY <1>1 DEF GitState
    <2> QED
      BY <1>3, <2>1, ShiftKeeps DEF Attest!CommitAll
  <1>4. CASE Attest!Push
    <2>1. [git EXCEPT !.origin = git.head] \in GitState
      BY <1>1 DEF GitState
    <2> QED
      BY <1>4, <2>1, ShiftKeeps DEF Attest!Push
  <1>5. CASE Attest!CheckOut
    <2>1. PICK main \in BOOLEAN :
             Attest!Shift([git EXCEPT !.main = main, !.head = git.origin, !.work = git.origin])
      BY <1>5 DEF Attest!CheckOut
    <2>2. [git EXCEPT !.main = main, !.head = git.origin, !.work = git.origin] \in GitState
      BY <1>1 DEF GitState
    <2> QED
      BY <2>1, <2>2, ShiftKeeps
  <1> QED
    BY <1>2, <1>3, <1>4, <1>5

LEMMA AttestNextKeeps == ASSUME AttestInv, Attest!AttestationNext PROVE AttestInv'
  <1>1. CASE Attest!attest_release
    <2>1. CASE Attest!Kill
      BY <2>1, AttesterFails DEF Attest!Kill
    <2> QED
      BY <1>1, <2>1, LoadKeeps, VersionKeeps, ReadNameKeeps, JudgeRepositoryKeeps, HashKeeps,
         AttestKeeps, AcceptKeeps DEF Attest!attest_release
  <1> QED
    BY <1>1, LocalGateKeeps, DevelopersKeep DEF Attest!AttestationNext

LEMMA AttestUnchanged == ASSUME AttestInv, UNCHANGED attesting PROVE AttestInv'
  BY DEF AttestInv, GateStands, AttesterKnows, AttesterStands, attesting

\* The one step that accepts: what the attestation binds is what there is.
LEMMA AttestAccepts == ASSUME AttestInv, Attest!AttestationNext PROVE Attest!AcceptedIsTrue
  <1>1. SUFFICES ASSUME attester'.accepted, ~attester.accepted, attester'.steady
                 PROVE  /\ git.work = git.head
                        /\ {attestation.head, attestation.tree, attestation.origin, git.origin}
                              = {git.head}
                        /\ attestation.artifact = git.head["contract"]
                        /\ attestation.contract = git.head["contract"]
                        /\ attestation.evidence.steady =>
                              \A p \in Attest!Paths \ {"report"} :
                                git.head[p] = 1 /\ attestation.evidence.tested_git_sha[p] = 1
    BY DEF Attest!AcceptedIsTrue
  <1>2. attester \in Attester /\ AttesterKnows(attester) /\ git \in GitState
    BY DEF AttestInv
  <1>3. ASSUME attester' = Attest!IdleAttester \/ attester'.accepted = attester.accepted PROVE FALSE
    BY <1>1, <1>3, IdleAttesterFits
  <1>4. Attest!AcceptCandidate
    <2>1. ASSUME NEW pc, Attest!To(pc) PROVE FALSE
      BY <1>2, <1>3, <2>1 DEF Attest!To, Attester
    <2>2. CASE Attest!execute_local_gate
      BY <1>3, <2>2 DEF Attest!execute_local_gate, Attest!StartGate, Attest!assert_clean_expected_head,
         Attest!RunStage, Attest!WriteEvidence
    <2>3. ASSUME NEW to, Attest!Shift(to) PROVE FALSE
      BY <1>2, <1>3, <2>3 DEF Attest!Shift, Attester
    <2>4. CASE (\E p \in Attest!Paths : Attest!Edit(p)) \/ Attest!CommitAll \/ Attest!Push \/ Attest!CheckOut
      BY <2>3, <2>4 DEF Attest!Edit, Attest!CommitAll, Attest!Push, Attest!CheckOut
    <2>5. ASSUME NEW verify \in BOOLEAN, Attest!Load(verify) PROVE FALSE
      <3>1. PICK t, c : attester' = [Attest!IdleAttester EXCEPT
                      !.pc = "version", !.verify = verify, !.expected = git.head,
                      !.tested = t, !.contract = c]
        BY <2>5 DEF Attest!Load
      <3>2. ~attester'.accepted
        BY <3>1 DEF Attest!IdleAttester
      <3> QED
        BY <1>1, <3>2
    <2>6. CASE Attest!ReadHead
      BY <1>2, <1>3, <2>6 DEF Attest!ReadHead, Attester
    <2>7. CASE Attest!ReadTree
      BY <1>2, <1>3, <2>7 DEF Attest!ReadTree, Attester
    <2>8. CASE Attest!ReadOrigin
      BY <1>2, <1>3, <2>8 DEF Attest!ReadOrigin, Attester
    <2>9. CASE Attest!package_version \/ Attest!JudgeRepository \/ Attest!attest_release_candidate \/ Attest!Kill
      BY <1>3, <2>1, <2>9
         DEF Attest!package_version, Attest!JudgeRepository, Attest!attest_release_candidate, Attest!Kill,
             Attest!Fails
    <2>10. CASE Attest!HashArtifacts
      <3>1. CASE attester' = [attester EXCEPT !.pc = "write", !.artifact = git.work["contract"]]
        BY <1>2, <1>3, <3>1 DEF Attester
      <3> QED
        BY <1>3, <2>1, <2>10, <3>1 DEF Attest!HashArtifacts, Attest!Fails
    <2> QED
      BY <2>2, <2>4, <2>5, <2>6, <2>7, <2>8, <2>9, <2>10
         DEF Attest!AttestationNext, Attest!attest_release
  <1>5. /\ attester.pc = "contract" /\ git.work["contract"] = attestation.contract
        /\ attester' = [Attest!IdleAttester EXCEPT !.accepted = TRUE, !.steady = attester.steady]
    BY <1>3, <1>4 DEF Attest!AcceptCandidate, Attest!Fails
  <1>6. attester.steady
    BY <1>1, <1>5 DEF Attest!IdleAttester
  <1>7. /\ attester.verify /\ attestation \in Attest!Attestation
        /\ attester.tested = attestation.evidence /\ Tested(attestation.evidence)
    BY <1>2, <1>5 DEF AttesterKnows
  <1>8. AttesterStands(attester)
    BY <1>6 DEF AttestInv
  <1>9. /\ git.work = git.head /\ attestation.head = git.head /\ attestation.tree = git.head
        /\ attestation.origin = git.head /\ git.origin = git.head
        /\ attestation.artifact = git.work["contract"]
        /\ Attest!post_test_changes(attestation.evidence.tested_git_sha, git.head) \in {{}, {"report"}}
    BY <1>5, <1>7, <1>8 DEF AttesterStands
  <1>10. \A p \in Attest!Paths \ {"report"} :
            p \in {"source", "contract"} /\ attestation.evidence.tested_git_sha[p] = git.head[p]
    BY <1>9 DEF Attest!post_test_changes, Attest!Paths
  <1> QED
    BY <1>5, <1>7, <1>9, <1>10 DEF Tested

-----------------------------------------------------------------------------
\* build_lambda_artifact.py, run_day15_gate.py, run_local_gate.py, attest_release.py: for
\* any builds, edits, commits, checkouts and pushes between any two of their reads and
\* Git calls, whatever the tools report: a manifest names the one commit its archive was
\* made of, unless HEAD moved between its build's two looks and something moved after the
\* second; D15-G04 passes only on files of one build; a run and a verification nothing
\* moves under accept only what is HEAD's.
THEOREM ReadyIsTrue == Spec => ReadyIsOneBuild
  <1> DEFINE Inv == (cast.tool = "gate" => GateInv) /\ (cast.tool = "attest" => AttestInv)
             all == <<bootstrap, preflight, chain, evidence, aliases, gating, cleanup,
                      attesting, cast>>
             some == <<gating, attesting>>
             Ruled == /\ cast.tool = "gate" =>
                           /\ Gate!TypeOK /\ Gate!ManifestIsTrue
                           /\ Gate!ArtifactGateIsSound /\ Gate!ReadyIsHead
                      /\ cast.tool = "attest" => Attest!AttestationTypeOK /\ Attest!AcceptedIsTrue
  <1>1. Init => Inv
    BY GateInit, AttestInit DEF Init
  <1>2. Inv /\ [Next]_all => Inv'
    <2>1. SUFFICES ASSUME Inv, [Next]_all PROVE Inv'
      OBVIOUS
    <2>2. cast' = cast
      BY <2>1 DEF Next
    <2>3. cast.tool = "gate" => Gate!Next \/ UNCHANGED gating
      BY <2>1 DEF Next, GatingNext
    <2>4. cast.tool = "attest" => Attest!AttestationNext \/ UNCHANGED attesting
      BY <2>1 DEF Next
    <2> QED
      BY <2>1, <2>2, <2>3, <2>4, GateNextKeeps, GateUnchanged, AttestNextKeeps, AttestUnchanged
  <1>3. Inv /\ [Next]_all => [Ruled]_some
    <2>1. SUFFICES ASSUME Inv, [Next]_all, ~UNCHANGED some PROVE Ruled
      OBVIOUS
    <2>2. ASSUME cast.tool = "gate"
          PROVE  Gate!TypeOK /\ Gate!ManifestIsTrue /\ Gate!ArtifactGateIsSound /\ Gate!ReadyIsHead
      <3>1. GateInv /\ Gate!Next
        BY <2>1, <2>2 DEF Next, GatingNext
      <3> QED
        BY <3>1, GateTypes, ArtifactGate, ReadyGate
    <2>3. ASSUME cast.tool = "attest" PROVE Attest!AttestationTypeOK /\ Attest!AcceptedIsTrue
      <3>1. AttestInv /\ Attest!AttestationNext
        BY <2>1, <2>3 DEF Next
      <3> QED
        BY <3>1, AttestAccepts DEF AttestInv, GitState, Sha, Attest!AttestationTypeOK
    <2> QED
      BY <2>2, <2>3
  <1>4. Spec => [][Ruled]_some
    BY <1>1, <1>2, <1>3, PTL DEF Spec
  <1> QED
    BY <1>4 DEF ReadyIsOneBuild

-----------------------------------------------------------------------------
(* The reviewer evidence *)

EvidenceTree ==
    {t \in [Evidence!Paths -> UNION {Evidence!Content(p) : p \in Evidence!Paths}] :
        \A p \in Evidence!Paths : t[p] \in Evidence!Content(p)}
Generator ==
    [pc : {"idle", "compare", "json", "markdown", "readme"}, code : Evidence!Code,
     status : {"none", "PASS", "FAIL"}]
Judging == {"authority", "test", "receipts", "anchors", "views", "rebuild", "count"}
Documents == Evidence!Manifest \cup {"absent", "unreadable"}
Validator ==
    [pc : {"idle", "paths", "load", "facts", "manifest"} \cup Judging, code : Evidence!Code,
     doc : Documents, clean : BOOLEAN, at : 1..3,
     status : {"none", "PASS", "FAIL"}]
EvidenceTypes ==
    /\ work \in EvidenceTree /\ index \in EvidenceTree /\ committed \in EvidenceTree
    /\ history \in BOOLEAN /\ code \in Evidence!Code /\ changes \in 0..MaxChanges
    /\ gen \in Generator /\ val \in Validator

\* What a manifest must say for each check that is done, by the validator's code alone.
SchemaHolds(v) ==
    /\ Evidence!validate_schema(v.doc) /\ ~Evidence!scan_private_material(v.doc)
    /\ Evidence!validate_snapshot(v.doc, v.code)
ReceiptListed(v) == Evidence!asserts_positive_live_mutation(v.doc) => v.doc = "live_with_receipt"
Upheld(v) ==
    v.clean =>
        /\ v.pc \in Judging => SchemaHolds(v)
        /\ v.pc \in Judging \ {"authority"} => ~Evidence!misclassified(v.doc)
        /\ v.pc \in {"anchors", "views", "rebuild", "count"} => ReceiptListed(v)
        /\ v.pc = "count" => v.doc = v.code

\* What the tree must be for it.
Accepted(v) ==
    /\ v.doc = "live_with_receipt"
    /\ Evidence!worktree_blob("receipt") /\ committed["receipt"] = index["receipt"]
    /\ work["receipt"] = "valid"
ReceiptHolds(v) ==
    /\ Evidence!asserts_positive_live_mutation(v.doc) => Accepted(v)
    /\ v.doc = "live_with_receipt" => Accepted(v)
ViewsHold(v) ==
    /\ work["json"] = v.doc /\ work["markdown"] = v.doc
    /\ work["readme"] = Evidence!render_evidence_readme
Judgement(v) ==
    /\ work["pyproject"] = "pinned" /\ history
    /\ SchemaHolds(v)
    /\ v.pc # "authority" => Evidence!anchored_blob("authority") /\ ~Evidence!misclassified(v.doc)
    /\ v.pc \notin {"authority", "test"} => Evidence!anchored_blob("test")
    /\ v.pc \in {"anchors", "views", "rebuild", "count"} => ReceiptHolds(v)
    /\ v.pc \in {"views", "rebuild", "count"} => Evidence!anchored_blob("prior_art")
    /\ v.pc \in {"rebuild", "count"} => ViewsHold(v)
    /\ v.pc = "count" => v.doc = v.code

\* While nothing changes under it, a validation is clean so far just when everything
\* it has checked holds of the tree as it is.
Exact(v) ==
    /\ v.pc = "paths" =>
         (v.clean <=> \A k \in 1..3 : k < v.at => Evidence!worktree_blob(Evidence!Public[k]))
    /\ v.pc \in {"load", "facts", "manifest"} \cup Judging =>
         \A p \in {"json", "markdown", "readme"} : Evidence!worktree_blob(p)
    /\ v.pc \in {"facts", "manifest"} \cup Judging =>
         v.doc = work["json"] /\ v.doc \in Evidence!Manifest
    /\ v.pc \in {"load", "facts", "manifest"} => v.clean
    /\ v.pc \in {"manifest", "authority", "test", "receipts", "anchors"} =>
         work["pyproject"] = "pinned" /\ history
    /\ v.pc \in Judging => (v.clean <=> Judgement(v))

EvidenceInv ==
    /\ EvidenceTypes
    /\ Upheld(val)
    /\ disturbed \/ Exact(val)

LEMMA TreeWritten ==
    ASSUME NEW t \in EvidenceTree, NEW p \in Evidence!Paths, NEW c \in Evidence!Content(p)
    PROVE  [t EXCEPT ![p] = c] \in EvidenceTree
  BY DEF EvidenceTree

LEMMA RenderingFits ==
    ASSUME NEW p \in {"json", "markdown", "readme"}, gen.code \in Evidence!Code
    PROVE  p \in Evidence!Paths /\ Evidence!Rendering(p) \in Evidence!Content(p)
  BY DEF Evidence!Rendering, Evidence!Paths, Evidence!Content, Evidence!Manifest,
     Evidence!build_manifest, Evidence!render_markdown, Evidence!render_evidence_readme

LEMMA CheckoutFits ==
    ASSUME NEW m \in Evidence!Manifest PROVE Evidence!Checkout(m) \in EvidenceTree
  <1>1. \A p \in Evidence!Paths : Evidence!Checkout(m)[p] \in Evidence!Content(p)
    BY DEF Evidence!Checkout, Evidence!Paths, Evidence!Cited, Evidence!Content, Evidence!Manifest
  <1>2. Evidence!Checkout(m) = [p \in Evidence!Paths |-> Evidence!Checkout(m)[p]]
    BY DEF Evidence!Checkout
  <1> QED
    BY <1>1, <1>2 DEF EvidenceTree

LEMMA GeneratorKeeps ==
    ASSUME EvidenceTypes, Evidence!build_main
    PROVE  EvidenceTypes' /\ val' = val
  <1>1. ASSUME NEW check \in BOOLEAN, Evidence!Generate(check) PROVE EvidenceTypes' /\ val' = val
    BY <1>1 DEF EvidenceTypes, Generator, Evidence!Generate, Evidence!GenKeeps
  <1>2. ASSUME Evidence!Compare \/ Evidence!Killed PROVE EvidenceTypes' /\ val' = val
    BY <1>2 DEF EvidenceTypes, Generator, Evidence!Compare, Evidence!Killed, Evidence!GenKeeps,
       Evidence!IdleGenerator, Evidence!Code
  <1>3. ASSUME NEW p \in {"json", "markdown", "readme"}, NEW next \in {"markdown", "readme", "done"},
               Evidence!Write(p, next)
        PROVE  EvidenceTypes' /\ val' = val
    <2>1. work' \in EvidenceTree
      BY <1>3, TreeWritten, RenderingFits DEF EvidenceTypes, Generator, Evidence!Write
    <2>2. gen' \in Generator
      BY <1>3 DEF EvidenceTypes, Generator, Evidence!Write, Evidence!IdleGenerator, Evidence!Code
    <2> QED
      BY <1>3, <2>1, <2>2 DEF EvidenceTypes, Evidence!Write, Evidence!GenKeeps
  <1> QED
    BY <1>1, <1>2, <1>3 DEF Evidence!build_main

LEMMA DevelopersKeepEvidence ==
    ASSUME EvidenceTypes,
           \/ Evidence!EditFile \/ Evidence!EditCode \/ Evidence!StageAll \/ Evidence!Commit
           \/ Evidence!RewriteHistory
    PROVE  EvidenceTypes' /\ val' = val
  <1>1. CASE Evidence!EditFile
    <2>1. work' \in EvidenceTree
      BY <1>1, TreeWritten, ZenonT(60) DEF EvidenceTypes, Evidence!EditFile
    <2> QED
      BY <1>1, <2>1, BoundsAssumption DEF EvidenceTypes, Evidence!EditFile, Evidence!Developer
  <1>2. CASE Evidence!EditCode
    BY <1>2, BoundsAssumption DEF EvidenceTypes, Evidence!EditCode, Evidence!Developer
  <1>3. CASE Evidence!StageAll \/ Evidence!Commit
    BY <1>3 DEF EvidenceTypes, Evidence!StageAll, Evidence!Commit
  <1>4. CASE Evidence!RewriteHistory
    <2>1. history' \in BOOLEAN /\ UNCHANGED <<work, index, committed, code, gen, val>>
      BY <1>4 DEF Evidence!RewriteHistory, Evidence!Developer
    <2>2. changes' \in 0..MaxChanges
      BY <1>4, BoundsAssumption DEF EvidenceTypes, Evidence!RewriteHistory, Evidence!Developer
    <2> QED
      BY <2>1, <2>2 DEF EvidenceTypes
  <1> QED
    BY <1>1, <1>2, <1>3, <1>4

LEMMA CheckMade ==
    ASSUME val \in Validator, NEW next, NEW ok \in BOOLEAN, Evidence!Judge(next, ok)
    PROVE  /\ val'.pc = next /\ val'.clean = (val.clean /\ ok)
           /\ val'.doc = val.doc /\ val'.code = val.code
           /\ next \in Judging \cup {"manifest"} => val' \in Validator
  <1>1. val' = [val EXCEPT !.pc = next, !.clean = val.clean /\ ok]
    BY DEF Evidence!Judge
  <1>2. (val.clean /\ ok) \in BOOLEAN
    OBVIOUS
  <1> DEFINE c == val.clean /\ ok
  <1>3. val' = [val EXCEPT !.pc = next, !.clean = c] /\ c \in BOOLEAN
    BY <1>1, <1>2
  <1> HIDE DEF c
  <1>4. val'.pc = next /\ val'.clean = c /\ val'.doc = val.doc /\ val'.code = val.code
    BY <1>3 DEF Validator
  <1>5. next \in Judging \cup {"manifest"} => val' \in Validator
    BY <1>3 DEF Validator
  <1> QED
    BY <1>4, <1>5 DEF c

LEMMA DocumentsAre == Evidence!Content("json") = Documents
  BY DEF Evidence!Content, Documents

LEMMA IdleValidatorFits ==
    /\ Evidence!IdleValidator \in Validator
    /\ \A s \in {"PASS", "FAIL"} : [Evidence!IdleValidator EXCEPT !.status = s] \in Validator
  <1>1. Evidence!IdleValidator \in Validator
    BY DEF Validator, Evidence!IdleValidator, Evidence!Code, Documents
  <1> QED
    BY <1>1 DEF Validator

LEMMA VerdictGiven ==
    ASSUME NEW s \in {"PASS", "FAIL"}, val' = [Evidence!IdleValidator EXCEPT !.status = s]
    PROVE  val' \in Validator /\ val'.pc = "idle" /\ val'.status = s
  <1>1. val'.pc = "idle" /\ val'.status = s
    BY DEF Evidence!IdleValidator
  <1> QED
    BY <1>1, IdleValidatorFits

LEMMA PathsRead ==
    ASSUME NEW v \in Validator, NEW n \in 1..3, NEW ok \in BOOLEAN
    PROVE  /\ [v EXCEPT !.at = n, !.clean = ok] \in Validator
           /\ [v EXCEPT !.pc = "load"] \in Validator
           /\ [v EXCEPT !.at = n, !.clean = ok].pc = v.pc
  BY DEF Validator

\* Each check adds to what a clean validation has established.
LEMMA ChecksKeep ==
    ASSUME EvidenceInv, Evidence!validate_main
    PROVE  val' \in Validator /\ Upheld(val') /\ UNCHANGED <<Evidence!tree, gen>>
  <1> USE DEF EvidenceInv, EvidenceTypes
  <1>1. CASE Evidence!Validate
    <2>1. val' = [Evidence!IdleValidator EXCEPT !.pc = "paths", !.code = code]
      BY <1>1 DEF Evidence!Validate
    <2>2. val'.pc = "paths"
      BY <2>1 DEF Evidence!IdleValidator
    <2>3. val' \in Validator
      BY <2>1, IdleValidatorFits DEF Validator, EvidenceTypes
    <2> QED
      BY <1>1, <2>2, <2>3 DEF Evidence!Validate, Evidence!ValKeeps, Upheld, Judging
  <1>2. CASE Evidence!CheckPaths
    <2> DEFINE ok == val.clean /\ Evidence!worktree_blob(Evidence!Public[val.at])
    <2>1. ok \in BOOLEAN
      BY DEF Evidence!worktree_blob
    <2>2. \/ val.at < 3 /\ val' = [val EXCEPT !.at = @ + 1, !.clean = ok]
          \/ ok /\ val' = [val EXCEPT !.pc = "load"]
          \/ val' = [Evidence!IdleValidator EXCEPT !.status = "FAIL"]
      BY <1>2 DEF Evidence!CheckPaths
    <2> HIDE DEF ok
    <2>3. val \in Validator /\ val.at \in 1..3 /\ val.pc = "paths"
      BY <1>2 DEF Evidence!CheckPaths, Validator
    <2>4. val' \in Validator /\ val'.pc \in {"paths", "load", "idle"}
      <3>1. CASE val' = [val EXCEPT !.pc = "load"]
        <4>1. val'.pc = "load"
          BY <2>3, <3>1 DEF Validator
        <4> QED
          BY <2>1, <2>3, <3>1, <4>1, PathsRead
      <3>2. CASE val.at < 3 /\ val' = [val EXCEPT !.at = @ + 1, !.clean = ok]
        <4>1. val.at + 1 \in 1..3 /\ val' = [val EXCEPT !.at = val.at + 1, !.clean = ok]
          BY <2>3, <3>2
        <4> QED
          BY <2>1, <2>3, <4>1, PathsRead
      <3> QED
        BY <2>2, <3>1, <3>2, VerdictGiven
    <2> QED
      BY <1>2, <2>4 DEF Evidence!CheckPaths, Evidence!ValKeeps, Upheld, Judging
  <1>3. CASE Evidence!load_manifest
    <2>1. val' \in Validator /\ val'.pc \in {"facts", "idle"}
      BY <1>3, VerdictGiven DEF Evidence!load_manifest, Validator, Documents
    <2> QED
      BY <1>3, <2>1 DEF Evidence!load_manifest, Evidence!ValKeeps, Upheld, Judging
  <1>4. CASE Evidence!CollectFacts
    <2>1. Evidence!Judge("manifest", TRUE) \/ Evidence!Judge("views", FALSE)
      BY <1>4 DEF Evidence!CollectFacts
    <2>2. val' \in Validator /\ (val'.pc = "manifest" \/ ~val'.clean)
      BY <2>1, CheckMade DEF Judging
    <2> QED
      BY <1>4, <2>2 DEF Evidence!CollectFacts, Evidence!ValKeeps, Upheld, Judging
  <1>5. CASE Evidence!ValidateManifest
    <2> DEFINE ok == /\ Evidence!validate_schema(val.doc)
                     /\ ~Evidence!scan_private_material(val.doc)
                     /\ Evidence!validate_snapshot(val.doc, val.code)
                     /\ Evidence!validate_day15_candidate_snapshot(val.doc, val.code)
    <2>1. Evidence!Judge("authority", ok) /\ ok \in BOOLEAN
      BY <1>5 DEF Evidence!ValidateManifest
    <2>2. ok => SchemaHolds(val)
      BY DEF SchemaHolds
    <2> HIDE DEF ok
    <2>3. /\ val' \in Validator /\ val'.pc = "authority" /\ val'.clean = (val.clean /\ ok)
          /\ val'.doc = val.doc /\ val'.code = val.code
      BY <2>1, CheckMade DEF Judging
    <2> QED
      BY <1>5, <2>2, <2>3 DEF Evidence!ValidateManifest, Evidence!ValKeeps, Upheld, SchemaHolds
  <1>6. CASE Evidence!ValidateAuthoritySource
    <2> DEFINE ok == Evidence!anchored_blob("authority") /\ ~Evidence!misclassified(val.doc)
    <2>1. Evidence!Judge("test", ok) /\ ok \in BOOLEAN
      BY <1>6 DEF Evidence!ValidateAuthoritySource
    <2>2. ok => ~Evidence!misclassified(val.doc)
      OBVIOUS
    <2> HIDE DEF ok
    <2>3. /\ val' \in Validator /\ val'.pc = "test" /\ val'.clean = (val.clean /\ ok)
          /\ val'.doc = val.doc /\ val'.code = val.code
      BY <2>1, CheckMade DEF Judging
    <2> QED
      BY <1>6, <2>2, <2>3 DEF Evidence!ValidateAuthoritySource, Evidence!ValKeeps, Upheld,
         SchemaHolds, Judging
  <1>7. CASE Evidence!ValidateTestNode
    <2>1. Evidence!Judge("receipts", Evidence!anchored_blob("test"))
      BY <1>7 DEF Evidence!ValidateTestNode
    <2>2. Evidence!anchored_blob("test") \in BOOLEAN
      BY DEF Evidence!anchored_blob
    <2>3. /\ val' \in Validator /\ val'.pc = "receipts" /\ (val'.clean => val.clean)
          /\ val'.doc = val.doc /\ val'.code = val.code
      BY <2>1, <2>2, CheckMade DEF Judging
    <2> QED
      BY <1>7, <2>3 DEF Evidence!ValidateTestNode, Evidence!ValKeeps, Upheld, SchemaHolds, Judging
  <1>8. CASE Evidence!ValidateReceipts
    <2>1. Evidence!Judge("anchors", ReceiptHolds(val)) /\ ReceiptHolds(val) \in BOOLEAN
      BY <1>8 DEF Evidence!ValidateReceipts, ReceiptHolds, Accepted,
         Evidence!accepted_receipt
    <2>2. /\ val' \in Validator /\ val'.pc = "anchors" /\ (val'.clean => val.clean /\ ReceiptHolds(val))
          /\ val'.doc = val.doc /\ val'.code = val.code
      BY <2>1, CheckMade DEF Judging
    <2>3. ReceiptHolds(val) => ReceiptListed(val)
      BY DEF ReceiptHolds, ReceiptListed, Accepted
    <2> QED
      BY <1>8, <2>2, <2>3 DEF Evidence!ValidateReceipts, Evidence!ValKeeps, Upheld, SchemaHolds,
         ReceiptListed, Judging
  <1>9. CASE Evidence!ValidateGitAnchors
    <2> DEFINE ok == history /\ Evidence!anchored_blob("prior_art")
    <2>1. Evidence!Judge("views", ok) /\ ok \in BOOLEAN
      BY <1>9 DEF Evidence!ValidateGitAnchors
    <2> HIDE DEF ok
    <2>2. /\ val' \in Validator /\ val'.pc = "views" /\ val'.clean = (val.clean /\ ok)
          /\ val'.doc = val.doc /\ val'.code = val.code
      BY <2>1, CheckMade DEF Judging
    <2> QED
      BY <1>9, <2>2 DEF Evidence!ValidateGitAnchors, Evidence!ValKeeps, Upheld, SchemaHolds,
         ReceiptListed, Judging
  <1>10. CASE Evidence!CompareViews
    <2> DEFINE ok == /\ work["json"] = val.doc
                     /\ work["markdown"] = Evidence!render_markdown(val.doc)
                     /\ work["readme"] = Evidence!render_evidence_readme
    <2>1. Evidence!Judge("rebuild", ok) /\ ok \in BOOLEAN
      BY <1>10 DEF Evidence!CompareViews
    <2> HIDE DEF ok
    <2>2. /\ val' \in Validator /\ val'.pc = "rebuild" /\ val'.clean = (val.clean /\ ok)
          /\ val'.doc = val.doc /\ val'.code = val.code
      BY <2>1, CheckMade DEF Judging
    <2> QED
      BY <1>10, <2>2 DEF Evidence!CompareViews, Evidence!ValKeeps, Upheld, SchemaHolds,
         ReceiptListed, Judging
  <1>11. CASE Evidence!Rebuild
    <2> DEFINE ok == Evidence!project_strands_requirement /\ val.doc = Evidence!build_manifest(val.code)
    <2>1. Evidence!Judge("count", ok) /\ ok \in BOOLEAN
      BY <1>11 DEF Evidence!Rebuild
    <2>2. ok => val.doc = val.code
      BY DEF Evidence!build_manifest
    <2> HIDE DEF ok
    <2>3. /\ val' \in Validator /\ val'.pc = "count" /\ val'.clean = (val.clean /\ ok)
          /\ val'.doc = val.doc /\ val'.code = val.code
      BY <2>1, CheckMade DEF Judging
    <2> QED
      BY <1>11, <2>2, <2>3 DEF Evidence!Rebuild, Evidence!ValKeeps, Upheld, SchemaHolds,
         ReceiptListed, Judging
  <1>12. CASE Evidence!CountClaims
    <2>1. val' \in Validator /\ val'.pc = "idle"
      BY <1>12, VerdictGiven DEF Evidence!CountClaims, Evidence!Verdict
    <2> QED
      BY <1>12, <2>1 DEF Evidence!CountClaims, Evidence!ValKeeps, Upheld, Judging
  <1> QED
    BY <1>1, <1>2, <1>3, <1>4, <1>5, <1>6, <1>7, <1>8, <1>9, <1>10, <1>11, <1>12
       DEF Evidence!validate_main

-----------------------------------------------------------------------------
\* An undisturbed check finds of the tree what it claims to find.
LEMMA ChecksAreExact ==
    ASSUME val \in Validator, history \in BOOLEAN, Exact(val), Evidence!validate_main
    PROVE  Exact(val')
  <1>1. CASE Evidence!Validate
    <2>1. val' = [Evidence!IdleValidator EXCEPT !.pc = "paths", !.code = code]
      BY <1>1 DEF Evidence!Validate
    <2>2. val'.pc = "paths" /\ val'.at = 1 /\ val'.clean = TRUE
      BY <2>1 DEF Evidence!IdleValidator
    <2> QED
      BY <2>2 DEF Exact, Judging
  <1>2. CASE Evidence!CheckPaths
    <2> DEFINE ok == val.clean /\ Evidence!worktree_blob(Evidence!Public[val.at])
               Read(n) == \A k \in 1..3 : k < n => Evidence!worktree_blob(Evidence!Public[k])
    <2>1. val.at \in 1..3 /\ val.pc = "paths" /\ (val.clean <=> Read(val.at)) /\ val.clean \in BOOLEAN
      BY <1>2 DEF Evidence!CheckPaths, Validator, Exact
    <2>2. ok \in BOOLEAN /\ (ok <=> Read(val.at + 1))
      <3>1. \A k \in 1..3 : k < val.at + 1 <=> k < val.at \/ k = val.at
        BY <2>1
      <3>2. ok \in BOOLEAN
        OBVIOUS
      <3>3. Read(val.at + 1) <=> Read(val.at) /\ Evidence!worktree_blob(Evidence!Public[val.at])
        BY <2>1, <3>1
      <3> QED
        BY <2>1, <3>2, <3>3
    <2>3. \/ val.at < 3 /\ val' = [val EXCEPT !.at = @ + 1, !.clean = ok]
          \/ val.at = 3 /\ ok /\ val' = [val EXCEPT !.pc = "load"]
          \/ val' = [Evidence!IdleValidator EXCEPT !.status = "FAIL"]
      BY <1>2, <2>1 DEF Evidence!CheckPaths
    <2> HIDE DEF ok
    <2>4. CASE val.at < 3 /\ val' = [val EXCEPT !.at = @ + 1, !.clean = ok]
      <3>1. val.at + 1 \in 1..3 /\ val' = [val EXCEPT !.at = val.at + 1, !.clean = ok]
        BY <2>1, <2>4
      <3>2. val'.pc = "paths" /\ val'.at = val.at + 1 /\ val'.clean = ok
        BY <2>1, <3>1 DEF Validator
      <3> QED
        BY <2>2, <3>2 DEF Exact, Judging
    <2>5. CASE val.at = 3 /\ ok /\ val' = [val EXCEPT !.pc = "load"]
      <3>1. val'.pc = "load" /\ val'.clean = val.clean
        BY <2>5 DEF Validator
      <3>2. val.clean
        BY <2>5 DEF ok
      <3>3. \A k \in 1..3 : Evidence!worktree_blob(Evidence!Public[k])
        BY <2>2, <2>5
      <3>4. \A p \in {"json", "markdown", "readme"} : Evidence!worktree_blob(p)
        <4>1. Evidence!Public[1] = "json" /\ Evidence!Public[2] = "markdown" /\ Evidence!Public[3] = "readme"
          BY DEF Evidence!Public
        <4> HIDE DEF Evidence!worktree_blob
        <4>2. Evidence!worktree_blob("json")
          BY <3>3, <4>1
        <4>3. Evidence!worktree_blob("markdown")
          BY <3>3, <4>1
        <4>4. Evidence!worktree_blob("readme")
          BY <3>3, <4>1
        <4> QED
          BY <4>2, <4>3, <4>4
      <3> QED
        BY <3>1, <3>2, <3>4 DEF Exact, Judging
    <2>6. CASE val' = [Evidence!IdleValidator EXCEPT !.status = "FAIL"]
      BY <2>6, VerdictGiven DEF Exact, Judging
    <2> QED
      BY <2>3, <2>4, <2>5, <2>6
  <1>3. CASE Evidence!load_manifest
    <2>1. val.pc = "load"
      BY <1>3 DEF Evidence!load_manifest
    <2>2. CASE work["json"] \in Evidence!Manifest
      <3>1. val' = [val EXCEPT !.pc = "facts", !.doc = work["json"]]
        BY <1>3, <2>2 DEF Evidence!load_manifest
      <3>2. val'.pc = "facts" /\ val'.doc = work["json"] /\ val'.clean = val.clean
        BY <3>1 DEF Validator
      <3> QED
        BY <2>1, <2>2, <3>2 DEF Exact, Judging
    <2>3. CASE work["json"] \notin Evidence!Manifest
      <3>1. val' = [Evidence!IdleValidator EXCEPT !.status = "FAIL"]
        BY <1>3, <2>3 DEF Evidence!load_manifest
      <3> QED
        BY <3>1, VerdictGiven DEF Exact, Judging
    <2> QED
      BY <2>2, <2>3
  <1>4. CASE Evidence!CollectFacts
    <2>1. val.pc = "facts"
      BY <1>4 DEF Evidence!CollectFacts
    <2>2. CASE Evidence!project_strands_requirement /\ history
      <3>1. Evidence!Judge("manifest", TRUE)
        BY <1>4, <2>2 DEF Evidence!CollectFacts
      <3>2. /\ val'.pc = "manifest" /\ val'.clean = (val.clean /\ TRUE)
            /\ val'.doc = val.doc /\ val'.code = val.code
        BY <3>1, CheckMade
      <3> QED
        BY <2>1, <2>2, <3>2 DEF Exact, Judging, Evidence!project_strands_requirement
    <2>3. CASE ~(Evidence!project_strands_requirement /\ history)
      <3>1. Evidence!Judge("views", FALSE)
        BY <1>4, <2>3 DEF Evidence!CollectFacts
      <3>2. /\ val'.pc = "views" /\ val'.clean = (val.clean /\ FALSE)
            /\ val'.doc = val.doc /\ val'.code = val.code
        BY <3>1, CheckMade
      <3> QED
        BY <2>1, <2>3, <3>2 DEF Exact, Judging, Judgement, Evidence!project_strands_requirement
    <2> QED
      BY <2>2, <2>3
  <1>5. CASE Evidence!ValidateManifest
    <2> DEFINE ok == /\ Evidence!validate_schema(val.doc)
                     /\ ~Evidence!scan_private_material(val.doc)
                     /\ Evidence!validate_snapshot(val.doc, val.code)
                     /\ Evidence!validate_day15_candidate_snapshot(val.doc, val.code)
    <2>1. Evidence!Judge("authority", ok) /\ ok \in BOOLEAN
      BY <1>5 DEF Evidence!ValidateManifest
    <2>2. /\ val'.pc = "authority" /\ val'.clean = (val.clean /\ ok)
          /\ val'.doc = val.doc /\ val'.code = val.code
      BY <2>1, CheckMade DEF Judging
    <2>3. val.pc = "manifest"
      BY <1>5 DEF Evidence!ValidateManifest
    <2> QED
      BY <2>2, <2>3 DEF Exact, Judgement, Judging, SchemaHolds,
         Evidence!validate_day15_candidate_snapshot
  <1>6. CASE Evidence!ValidateAuthoritySource
    <2> DEFINE ok == Evidence!anchored_blob("authority") /\ ~Evidence!misclassified(val.doc)
    <2>1. Evidence!Judge("test", ok) /\ ok \in BOOLEAN
      BY <1>6 DEF Evidence!ValidateAuthoritySource
    <2>2. /\ val'.pc = "test" /\ val'.clean = (val.clean /\ ok)
          /\ val'.doc = val.doc /\ val'.code = val.code
      BY <2>1, CheckMade DEF Judging
    <2>3. val.pc = "authority"
      BY <1>6 DEF Evidence!ValidateAuthoritySource
    <2> QED
      BY <2>2, <2>3 DEF Exact, Judgement, Judging, SchemaHolds
  <1>7. CASE Evidence!ValidateTestNode
    <2> DEFINE ok == Evidence!anchored_blob("test")
    <2>1. Evidence!Judge("receipts", ok) /\ ok \in BOOLEAN
      BY <1>7 DEF Evidence!ValidateTestNode, Evidence!anchored_blob
    <2>2. /\ val'.pc = "receipts" /\ val'.clean = (val.clean /\ ok)
          /\ val'.doc = val.doc /\ val'.code = val.code
      BY <2>1, CheckMade DEF Judging
    <2>3. val.pc = "test"
      BY <1>7 DEF Evidence!ValidateTestNode
    <2> QED
      BY <2>2, <2>3 DEF Exact, Judgement, Judging, SchemaHolds
  <1>8. CASE Evidence!ValidateReceipts
    <2> DEFINE ok == ReceiptHolds(val)
    <2>1. Evidence!Judge("anchors", ok) /\ ok \in BOOLEAN
      BY <1>8 DEF Evidence!ValidateReceipts, ReceiptHolds, Accepted,
         Evidence!accepted_receipt
    <2>2. /\ val'.pc = "anchors" /\ val'.clean = (val.clean /\ ok)
          /\ val'.doc = val.doc /\ val'.code = val.code
      BY <2>1, CheckMade DEF Judging
    <2>3. val.pc = "receipts"
      BY <1>8 DEF Evidence!ValidateReceipts
    <2> QED
      BY <2>2, <2>3 DEF Exact, Judgement, Judging, SchemaHolds, ReceiptHolds, Accepted
  <1>9. CASE Evidence!ValidateGitAnchors
    <2> DEFINE ok == history /\ Evidence!anchored_blob("prior_art")
    <2>1. Evidence!Judge("views", ok) /\ ok \in BOOLEAN
      BY <1>9 DEF Evidence!ValidateGitAnchors
    <2>2. /\ val'.pc = "views" /\ val'.clean = (val.clean /\ ok)
          /\ val'.doc = val.doc /\ val'.code = val.code
      BY <2>1, CheckMade DEF Judging
    <2>3. val.pc = "anchors"
      BY <1>9 DEF Evidence!ValidateGitAnchors
    <2> QED
      BY <2>2, <2>3 DEF Exact, Judgement, Judging, SchemaHolds, ReceiptHolds, Accepted,
         Evidence!anchored_blob
  <1>10. CASE Evidence!CompareViews
    <2> DEFINE ok == /\ work["json"] = val.doc
                     /\ work["markdown"] = Evidence!render_markdown(val.doc)
                     /\ work["readme"] = Evidence!render_evidence_readme
    <2>1. Evidence!Judge("rebuild", ok) /\ ok \in BOOLEAN
      BY <1>10 DEF Evidence!CompareViews
    <2>2. /\ val'.pc = "rebuild" /\ val'.clean = (val.clean /\ ok)
          /\ val'.doc = val.doc /\ val'.code = val.code
      BY <2>1, CheckMade DEF Judging
    <2>3. val.pc = "views"
      BY <1>10 DEF Evidence!CompareViews
    <2> QED
      BY <2>2, <2>3 DEF Exact, Judgement, Judging, SchemaHolds, ReceiptHolds, Accepted, ViewsHold,
         Evidence!render_markdown
  <1>11. CASE Evidence!Rebuild
    <2> DEFINE ok == Evidence!project_strands_requirement /\ val.doc = Evidence!build_manifest(val.code)
    <2>1. Evidence!Judge("count", ok) /\ ok \in BOOLEAN
      BY <1>11 DEF Evidence!Rebuild
    <2>2. /\ val'.pc = "count" /\ val'.clean = (val.clean /\ ok)
          /\ val'.doc = val.doc /\ val'.code = val.code
      BY <2>1, CheckMade DEF Judging
    <2>3. val.pc = "rebuild"
      BY <1>11 DEF Evidence!Rebuild
    <2> QED
      BY <2>2, <2>3 DEF Exact, Judgement, Judging, SchemaHolds, ReceiptHolds, Accepted, ViewsHold,
         Evidence!build_manifest, Evidence!project_strands_requirement
  <1>12. CASE Evidence!CountClaims
    <2>1. val'.pc = "idle"
      BY <1>12, VerdictGiven DEF Evidence!CountClaims, Evidence!Verdict
    <2> QED
      BY <2>1 DEF Exact, Judging
  <1> QED
    BY <1>1, <1>2, <1>3, <1>4, <1>5, <1>6, <1>7,
       <1>8, <1>9, <1>10, <1>11, <1>12 DEF Evidence!validate_main

\* What holds of the tree holds of it while it does not change.
LEMMA ExactStays ==
    ASSUME Exact(val'), UNCHANGED Evidence!tree
    PROVE  Exact(val)'
  <1>1. work' = work /\ index' = index /\ committed' = committed /\ history' = history
    BY DEF Evidence!tree
  <1>2. \A p : Evidence!worktree_blob(p)' <=> Evidence!worktree_blob(p)
    BY <1>1 DEF Evidence!worktree_blob
  <1>3. \A p : Evidence!anchored_blob(p)' <=> Evidence!anchored_blob(p)
    BY <1>1, <1>2 DEF Evidence!anchored_blob
  <1>4. ReceiptHolds(val)' <=> ReceiptHolds(val')
    BY <1>1 DEF ReceiptHolds, Accepted, Evidence!worktree_blob,
       Evidence!asserts_positive_live_mutation
  <1>5. ViewsHold(val)' <=> ViewsHold(val')
    BY <1>1 DEF ViewsHold, Evidence!render_evidence_readme
  <1>6. Judgement(val)' <=> Judgement(val')
    BY <1>1, <1>3, <1>4, <1>5 DEF Judgement, SchemaHolds, Evidence!misclassified,
       Evidence!validate_schema, Evidence!scan_private_material, Evidence!validate_snapshot,
       Evidence!frozen_facts_agree
  <1> QED
    BY <1>1, <1>2, <1>6 DEF Exact

LEMMA EvidenceInit ==
    ASSUME Evidence!Init PROVE EvidenceInv
  <1>1. work \in EvidenceTree /\ index \in EvidenceTree /\ committed \in EvidenceTree
    BY CheckoutFits DEF Evidence!Init
  <1>2. gen \in Generator /\ code \in Evidence!Code /\ changes \in 0..MaxChanges
    BY BoundsAssumption DEF Evidence!Init, Generator, Evidence!IdleGenerator, Evidence!Code
  <1>3. val \in Validator /\ val.pc = "idle" /\ history \in BOOLEAN
    BY IdleValidatorFits DEF Evidence!Init, Evidence!IdleValidator
  <1> QED
    BY <1>1, <1>2, <1>3 DEF EvidenceInv, EvidenceTypes, Upheld, Exact, Judging

LEMMA EvidenceNextKeeps ==
    ASSUME EvidenceInv, Evidence!Next
    PROVE  EvidenceInv'
  <1>1. disturbed' = (val.pc # "idle" /\ (disturbed \/ Evidence!tree' # Evidence!tree))
    BY DEF Evidence!Next
  <1>2. CASE Evidence!validate_main
    <2>1. val' \in Validator /\ Upheld(val') /\ UNCHANGED <<Evidence!tree, gen>>
      BY <1>2, ChecksKeep
    <2>2. EvidenceTypes'
      BY <2>1 DEF EvidenceInv, EvidenceTypes, Evidence!tree
    <2>3. disturbed' \/ Exact(val)'
      <3>1. CASE disturbed /\ val.pc # "idle"
        BY <1>1, <3>1
      <3>2. CASE disturbed /\ val.pc = "idle"
        <4>1. Exact(val)
          BY <3>2 DEF Exact, Judging
        <4> QED
          BY <1>2, <2>1, <4>1, ChecksAreExact, ExactStays DEF EvidenceInv, EvidenceTypes
      <3>3. CASE Exact(val)
        BY <1>2, <2>1, <3>3, ChecksAreExact, ExactStays DEF EvidenceInv, EvidenceTypes
      <3> QED
        BY <3>1, <3>2, <3>3 DEF EvidenceInv
    <2> QED
      BY <2>1, <2>2, <2>3 DEF EvidenceInv, Upheld, SchemaHolds, ReceiptListed,
         Evidence!misclassified, Evidence!validate_schema, Evidence!scan_private_material,
         Evidence!validate_snapshot, Evidence!frozen_facts_agree,
         Evidence!asserts_positive_live_mutation
  <1>3. CASE ~Evidence!validate_main
    <2>1. EvidenceTypes' /\ val' = val
      BY <1>3, GeneratorKeeps, DevelopersKeepEvidence DEF EvidenceInv, Evidence!Next
    <2>2. Upheld(val)'
      BY <2>1 DEF EvidenceInv, Upheld, SchemaHolds, ReceiptListed,
         Evidence!misclassified, Evidence!validate_schema, Evidence!scan_private_material,
         Evidence!validate_snapshot, Evidence!frozen_facts_agree,
         Evidence!asserts_positive_live_mutation
    <2>3. disturbed' \/ Exact(val)'
      <3>1. CASE val.pc = "idle"
        BY <2>1, <3>1 DEF Exact, Judging
      <3>2. CASE val.pc # "idle" /\ ~disturbed /\ Evidence!tree' = Evidence!tree
        <4>1. Exact(val')
          BY <2>1, <3>2 DEF EvidenceInv
        <4> QED
          BY <3>2, <4>1, ExactStays
      <3> QED
        BY <1>1, <3>1, <3>2
    <2> QED
      BY <2>1, <2>2, <2>3 DEF EvidenceInv
  <1> QED
    BY <1>2, <1>3

LEMMA EvidenceUnchanged ==
    ASSUME EvidenceInv, UNCHANGED evidence
    PROVE  EvidenceInv'
  <1>1. UNCHANGED Evidence!tree /\ UNCHANGED <<gen, val, disturbed>>
    BY DEF evidence, Evidence!tree
  <1>2. EvidenceTypes'
    BY <1>1 DEF EvidenceInv, EvidenceTypes, Evidence!tree
  <1>3. Upheld(val)'
    BY <1>1 DEF EvidenceInv, Upheld, SchemaHolds, ReceiptListed,
       Evidence!misclassified, Evidence!validate_schema, Evidence!scan_private_material,
       Evidence!validate_snapshot, Evidence!frozen_facts_agree,
       Evidence!asserts_positive_live_mutation
  <1>4. Exact(val) => Exact(val)'
    <2>1. ASSUME Exact(val) PROVE Exact(val')
      BY <1>1, <2>1
    <2> QED
      BY <1>1, <2>1, ExactStays
  <1> QED
    BY <1>1, <1>2, <1>3, <1>4 DEF EvidenceInv

\* A clean validation at its last check has the reviewed manifest before it.
LEMMA CleanIsReviewed ==
    ASSUME val \in Validator, Upheld(val), val.pc = "count", val.clean
    PROVE  val.doc = "reviewed" /\ val.code = "reviewed"
  BY DEF Validator, Upheld, Judging, SchemaHolds, ReceiptListed, Evidence!misclassified,
     Evidence!validate_snapshot, Evidence!frozen_facts_agree, Evidence!Code,
     Evidence!asserts_positive_live_mutation

\* Undisturbed, that is the tree a reviewer may rely on; and of such a tree every
\* check holds.
LEMMA JudgementIsReview ==
    ASSUME val \in Validator, Exact(val), val.pc = "count",
           val.clean => val.doc = "reviewed" /\ val.code = "reviewed"
    PROVE  val.clean <=> Evidence!Reviewable /\ val.code = "reviewed"
  <1>1. /\ val.clean <=> Judgement(val)
        /\ \A p \in {"json", "markdown", "readme"} : Evidence!worktree_blob(p)
        /\ val.doc = work["json"]
    BY DEF Exact, Judging
  <1>2. ASSUME val.clean PROVE Evidence!Reviewable /\ val.code = "reviewed"
    <2>1. /\ work["pyproject"] = "pinned" /\ history /\ ViewsHold(val)
          /\ \A p \in Evidence!Cited : Evidence!anchored_blob(p)
      BY <1>1, <1>2 DEF Judgement, Evidence!Cited
    <2>2. work["json"] = "reviewed" /\ work["markdown"] = "reviewed" /\ work["readme"] = "rendered"
      BY <1>2, <2>1 DEF ViewsHold, Evidence!render_evidence_readme
    <2>3. /\ \A p \in Evidence!Cited : work[p] = "anchored"
          /\ \A p \in Evidence!Cited \cup {"json", "markdown", "readme"} : index[p] = work[p]
      BY <1>1, <2>1 DEF Evidence!anchored_blob, Evidence!worktree_blob
    <2> QED
      BY <1>2, <2>1, <2>2, <2>3 DEF Evidence!Reviewable
  <1>3. ASSUME Evidence!Reviewable, val.code = "reviewed" PROVE val.clean
    <2>1. val.doc = "reviewed"
      BY <1>1, <1>3 DEF Evidence!Reviewable
    <2>2. \A p \in Evidence!Cited : Evidence!anchored_blob(p)
      BY <1>3 DEF Evidence!Reviewable, Evidence!anchored_blob, Evidence!worktree_blob
    <2>3. SchemaHolds(val) /\ ~Evidence!misclassified(val.doc) /\ ReceiptHolds(val)
      BY <1>3, <2>1 DEF SchemaHolds, ReceiptHolds, Evidence!misclassified,
         Evidence!validate_schema, Evidence!scan_private_material, Evidence!validate_snapshot,
         Evidence!frozen_facts_agree, Evidence!asserts_positive_live_mutation,
         Evidence!Manifest, Evidence!Code
    <2>4. ViewsHold(val) /\ work["pyproject"] = "pinned" /\ history
      BY <1>3, <2>1 DEF Evidence!Reviewable, ViewsHold, Evidence!render_evidence_readme
    <2>5. Judgement(val)
      BY <1>3, <2>1, <2>2, <2>3, <2>4 DEF Judgement, Evidence!Cited
    <2> QED
      BY <1>1, <2>5
  <1> QED
    BY <1>2, <1>3

LEMMA VerdictIsExact ==
    ASSUME EvidenceInv, Evidence!Next
    PROVE  Evidence!ExactVerdict
  <1>1. SUFFICES ASSUME val.pc # "idle", val'.pc = "idle"
        PROVE  /\ ~disturbed => (val'.status = "PASS" <=> Evidence!Reviewable /\ val.code = "reviewed")
               /\ val'.status = "PASS" => val.doc = "reviewed"
    BY DEF Evidence!ExactVerdict
  <1>2. Evidence!validate_main
    BY <1>1, GeneratorKeeps, DevelopersKeepEvidence DEF EvidenceInv, Evidence!Next
  <1>3. val \in Validator /\ Upheld(val) /\ (disturbed \/ Exact(val))
    BY DEF EvidenceInv, EvidenceTypes
  <1>4. CASE val.pc = "count"
    <2> DEFINE s == IF val.clean /\ work["json"] \in Evidence!Manifest THEN "PASS" ELSE "FAIL"
    <2>1. val' = [Evidence!IdleValidator EXCEPT !.status = s] /\ s \in {"PASS", "FAIL"}
      BY <1>2, <1>4 DEF Evidence!validate_main, Evidence!Validate, Evidence!CheckPaths,
         Evidence!load_manifest, Evidence!CollectFacts, Evidence!ValidateManifest,
         Evidence!ValidateAuthoritySource, Evidence!ValidateTestNode, Evidence!ValidateReceipts,
         Evidence!ValidateGitAnchors, Evidence!CompareViews, Evidence!Rebuild,
         Evidence!CountClaims, Evidence!Verdict
    <2> HIDE DEF s
    <2>2. val'.status = s
      BY <2>1, VerdictGiven
    <2>3. val.clean => val.doc = "reviewed" /\ val.code = "reviewed"
      BY <1>3, <1>4, CleanIsReviewed
    <2>4. val'.status = "PASS" => val.clean
      BY <2>2 DEF s
    <2>5. ASSUME ~disturbed
          PROVE  val'.status = "PASS" <=> Evidence!Reviewable /\ val.code = "reviewed"
      <3>1. val.clean <=> Evidence!Reviewable /\ val.code = "reviewed"
        BY <1>3, <1>4, <2>3, <2>5, JudgementIsReview
      <3>2. val.clean => val'.status = "PASS"
        BY <1>3, <1>4, <2>2, <2>5 DEF s, Exact, Judging
      <3> QED
        BY <2>4, <3>1, <3>2
    <2> QED
      BY <2>3, <2>4, <2>5
  <1>5. CASE val.pc # "count"
    <2>1. Evidence!CheckPaths \/ Evidence!load_manifest
      <3>1. \A n, ok : Evidence!Judge(n, ok) => val'.pc = n
        BY <1>3 DEF Evidence!Judge, Validator
      <3> QED
        BY <1>1, <1>2, <1>5, <3>1 DEF Evidence!validate_main, Evidence!Validate,
         Evidence!CollectFacts, Evidence!ValidateManifest,
         Evidence!ValidateAuthoritySource, Evidence!ValidateTestNode, Evidence!ValidateReceipts,
         Evidence!ValidateGitAnchors, Evidence!CompareViews, Evidence!Rebuild,
         Evidence!CountClaims
    <2>2. val' = [Evidence!IdleValidator EXCEPT !.status = "FAIL"]
      BY <1>1, <1>3, <2>1 DEF Evidence!CheckPaths, Evidence!load_manifest, Validator
    <2>3. val'.status = "FAIL"
      BY <2>2, VerdictGiven
    <2>4. ASSUME ~disturbed PROVE ~Evidence!Reviewable
      <3>1. Exact(val)
        BY <1>3, <2>4
      <3>2. CASE Evidence!load_manifest
        <4>1. work["json"] \notin Evidence!Manifest
          BY <1>1, <1>3, <3>2 DEF Evidence!load_manifest, Validator
        <4> QED
          BY <4>1 DEF Evidence!Reviewable, Evidence!Manifest, Evidence!Code
      <3>3. CASE Evidence!CheckPaths
        <4>1. /\ val.pc = "paths" /\ val.at \in 1..3
              /\ ~(val.clean /\ Evidence!worktree_blob(Evidence!Public[val.at]))
          BY <1>1, <1>3, <3>3 DEF Evidence!CheckPaths, Validator
        <4>2. val.clean <=> \A k \in 1..3 : k < val.at => Evidence!worktree_blob(Evidence!Public[k])
          BY <3>1, <4>1 DEF Exact
        <4>3. PICK k \in 1..3 : ~Evidence!worktree_blob(Evidence!Public[k])
          BY <4>1, <4>2
        <4>4. Evidence!Public[k] \in {"json", "markdown", "readme"}
          BY DEF Evidence!Public
        <4> QED
          BY <4>3, <4>4 DEF Evidence!Reviewable, Evidence!worktree_blob
      <3> QED
        BY <2>1, <3>2, <3>3
    <2> QED
      BY <2>3, <2>4
  <1> QED
    BY <1>4, <1>5

\* build_reviewer_evidence_manifest.py and validate_reviewer_evidence_manifest.py: for
\* any edits, commits and rewritten history, wherever the generator is killed, a
\* validation nothing disturbs passes exactly the trees a reviewer may rely on, and a
\* disturbed one passes no manifest but the reviewed one.
THEOREM VerdictOfEvidence == Spec => EvidenceVerdictIsExact
  <1> DEFINE Inv == cast.tool = "evidence" => EvidenceInv
             all == <<bootstrap, preflight, chain, evidence, aliases, gating, cleanup,
                      attesting, cast>>
             Ruled == cast.tool = "evidence" => Evidence!TypeOK /\ Evidence!ExactVerdict
  <1>1. Init => Inv
    BY EvidenceInit DEF Init
  <1>2. Inv /\ [Next]_all => Inv'
    <2>1. SUFFICES ASSUME Inv, [Next]_all PROVE Inv'
      OBVIOUS
    <2>2. cast' = cast
      BY <2>1 DEF Next
    <2>3. cast.tool = "evidence" => Evidence!Next \/ UNCHANGED evidence
      BY <2>1 DEF Next, EvidenceNext
    <2> QED
      BY <2>1, <2>2, <2>3, EvidenceNextKeeps, EvidenceUnchanged
  <1>3. Inv /\ [Next]_all => [Ruled]_evidence
    <2>1. SUFFICES ASSUME Inv, [Next]_all, ~UNCHANGED evidence, cast.tool = "evidence"
                   PROVE  Evidence!TypeOK /\ Evidence!ExactVerdict
      OBVIOUS
    <2>2. EvidenceInv /\ Evidence!Next
      BY <2>1 DEF Next, EvidenceNext
    <2>3. Evidence!TypeOK
      BY <2>2, DocumentsAre DEF EvidenceInv, EvidenceTypes, EvidenceTree, Generator, Validator,
         Evidence!TypeOK
    <2> QED
      BY <2>2, <2>3, VerdictIsExact
  <1>4. Spec => [][Ruled]_evidence
    BY <1>1, <1>2, <1>3, PTL DEF Spec
  <1> QED
    BY <1>4 DEF EvidenceVerdictIsExact
=============================================================================
