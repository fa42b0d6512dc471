---------------------------- MODULE ListingProofs ----------------------------
(***************************************************************************)
(* What the operators of Listing compute, for sequences of any length and  *)
(* amounts of any size: a listing is in the order of time when the text of *)
(* its timestamps is, and a sum of Decimals is off by what was rounded.    *)
(*                                                                         *)
(* The sums are loops.  That the value of a loop is what its rounds make   *)
(* of one another, for any number of rounds, is shown by looking at the    *)
(* first round that would not be: LeastNumber says that there is one.      *)
(***************************************************************************)
EXTENDS Listing, WellFoundedInduction, TLAPS

-----------------------------------------------------------------------------
(* Loops.                                                                  *)

Less == {p \in Nat \X Nat : p[1] < p[2]}

LEMMA LessWellFounded == IsWellFoundedOn(Less, Nat)
<1>1. OpToRel(<, Nat) = Less
  BY DEF OpToRel, Less
<1> QED
  BY <1>1, NatLessThanWellFounded

\* A set of natural numbers that is not empty has a least element.
LEMMA LeastNumber ==
    ASSUME NEW T \in SUBSET Nat, T # {}
    PROVE  \E m \in T : \A k \in T : m <= k
<1>1. PICK m \in T : \A k \in T : <<k, m>> \notin Less
  BY LessWellFounded, WFMin
<1>2. ASSUME NEW k \in T PROVE m <= k
  <2>1. k < m => <<k, m>> \in Less
    BY DEF Less
  <2> QED
    BY <1>1, <2>1
<1> QED
  BY <1>2

\* The value of a loop is given by its start and its rounds.
IsLoop(value, start, step, N) ==
    value = [n \in 0 .. N |-> IF n = 0 THEN start ELSE step[n][value[n - 1]]]

LEMMA LoopExists ==
    ASSUME NEW start, NEW step, NEW N \in Nat
    PROVE  \E value : IsLoop(value, start, step, N)
<1> DEFINE Bad == {M \in Nat : ~ \E value : IsLoop(value, start, step, M)}
<1> SUFFICES ASSUME Bad # {} PROVE FALSE
  OBVIOUS
<1>1. PICK m \in Bad : \A k \in Bad : m <= k
  BY LeastNumber
<1>2. m # 0
  <2>1. IsLoop([n \in 0 .. 0 |-> start], start, step, 0)
    BY DEF IsLoop
  <2> QED
    BY <2>1
<1>3. m - 1 \in Nat /\ m - 1 \notin Bad
  BY <1>1, <1>2
<1>4. PICK value : IsLoop(value, start, step, m - 1)
  BY <1>3
<1> DEFINE longer == [n \in 0 .. m |-> IF n = m THEN step[m][value[m - 1]] ELSE value[n]]
<1>5. ASSUME NEW n \in 0 .. m
      PROVE  longer[n] = IF n = 0 THEN start ELSE step[n][longer[n - 1]]
  <2>1. n # m => n \in 0 .. m - 1 /\ longer[n] = value[n]
    BY <1>5
  <2>2. n # 0 => n - 1 \in 0 .. m - 1 /\ longer[n - 1] = value[n - 1]
    BY <1>5
  <2>3. n # m => value[n] = IF n = 0 THEN start ELSE step[n][value[n - 1]]
    BY <1>4, <2>1 DEF IsLoop
  <2> QED
    BY <1>2, <2>1, <2>2, <2>3
<1>6. IsLoop(longer, start, step, m)
  BY <1>5 DEF IsLoop
<1> QED
  BY <1>6

\* Iterate is a loop: it starts at start, and round n makes step[n] of the last value.
LEMMA IterateUnfolds ==
    ASSUME NEW start, NEW step, NEW N \in Nat
    PROVE  /\ Iterate(start, step, N)[0] = start
           /\ \A n \in 1 .. N : Iterate(start, step, N)[n] = step[n][Iterate(start, step, N)[n - 1]]
<1> DEFINE value == Iterate(start, step, N)
<1>1. IsLoop(value, start, step, N)
  <2>1. PICK loop : IsLoop(loop, start, step, N)
    BY LoopExists
  <2>2. loop = [n \in 0 .. N |-> IF n = 0 THEN start ELSE step[n][loop[n - 1]]]
    BY <2>1 DEF IsLoop
  <2> QED
    BY <2>2 DEF Iterate, IsLoop
<1> HIDE DEF value
<1>2. value[0] = start
  BY <1>1 DEF IsLoop
<1>3. \A n \in 1 .. N : value[n] = step[n][value[n - 1]]
  BY <1>1 DEF IsLoop
<1> QED
  BY <1>2, <1>3 DEF value

\* A loop whose rounds stay in a set stays in it.
LEMMA IterateStays ==
    ASSUME NEW S, NEW start \in S, NEW step, NEW N \in Nat,
           \A n \in 1 .. N : \A v \in S : step[n][v] \in S
    PROVE  \A n \in 0 .. N : Iterate(start, step, N)[n] \in S
<1> DEFINE value == Iterate(start, step, N)
           Bad == {n \in 0 .. N : value[n] \notin S}
<1>1. value[0] = start /\ \A n \in 1 .. N : value[n] = step[n][value[n - 1]]
  BY IterateUnfolds
<1> HIDE DEF value
<1> SUFFICES ASSUME Bad # {} PROVE FALSE
  BY DEF value
<1>2. PICK m \in Bad : \A k \in Bad : m <= k
  <2>1. Bad \in SUBSET Nat
    OBVIOUS
  <2> QED
    BY <2>1, LeastNumber
<1>3. m \in 1 .. N
  BY <1>1
<1>4. m - 1 \in 0 .. N /\ m - 1 \notin Bad
  BY <1>2, <1>3
<1> QED
  BY <1>1, <1>3, <1>4

-----------------------------------------------------------------------------
(* Rounding.                                                               *)

USE ListingAssumption

LEMMA QuantumIsPositive ==
    ASSUME NEW x \in Int
    PROVE  Quantum(x) \in Nat \ {0}
<1> DEFINE coarser == [q \in Nat |-> IF Magnitude(x) < q * 10 ^ Precision THEN q ELSE 10 * q]
           rounds == [d \in 1 .. MaxDigits |-> coarser]
           Quanta == Nat \ {0}
<1>1. \A d \in 1 .. MaxDigits : \A q \in Quanta : rounds[d][q] \in Quanta
  OBVIOUS
<1>2. 1 \in Quanta
  OBVIOUS
<1>3. Quantum(x) = Iterate(1, rounds, MaxDigits)[MaxDigits]
  BY DEF Quantum
<1> HIDE DEF rounds, Quanta
<1>4. \A n \in 0 .. MaxDigits : Iterate(1, rounds, MaxDigits)[n] \in Quanta
  BY <1>1, <1>2, IterateStays
<1> QED
  BY <1>3, <1>4 DEF Quanta

\* The quantum does not depend on the sign.
LEMMA QuantumOfOpposite ==
    ASSUME NEW x \in Int
    PROVE  Quantum(-x) = Quantum(x)
<1>1. Magnitude(-x) = Magnitude(x)
  BY DEF Magnitude
<1> QED
  BY <1>1 DEF Quantum

LEMMA DivideWithRest ==
    ASSUME NEW m \in Nat, NEW q \in Nat \ {0}
    PROVE  /\ m \div q \in Nat /\ m % q \in 0 .. q - 1
           /\ m = (m \div q) * q + (m % q)
  OBVIOUS

\* A rounded number is off by at most half a unit of the last digit kept, and by
\* nothing when all digits are kept.
THEOREM RoundingError ==
    ASSUME NEW x \in Int
    PROVE  Round(x) \in Int /\ 2 * Magnitude(Round(x) - x) <= Slack(x)
<1> DEFINE m == Magnitude(x)
           q == Quantum(x)
           n == m \div q
           rest == m % q
           kept == IF 2 * rest > q \/ (2 * rest = q /\ n % 2 = 1) THEN n + 1 ELSE n
<1>1. m \in Nat /\ x \in {m, -m} /\ (x < 0 => x = -m) /\ (~(x < 0) => x = m)
  BY DEF Magnitude
<1>2. q \in Nat \ {0}
  BY QuantumIsPositive
<1>3. Round(x) = IF x < 0 THEN -(kept * q) ELSE kept * q
  BY DEF Round
<1> HIDE DEF m, q
<1>4. n \in Nat /\ rest \in 0 .. q - 1 /\ m = n * q + rest
  BY <1>1, <1>2, DivideWithRest
<1>5. /\ n * q \in Int /\ kept * q \in Int /\ 1 * q = q
      /\ kept = n => kept * q = n * q
      /\ kept = n + 1 => kept * q = n * q + q
  BY <1>2, <1>4
<1>6. kept \in {n, n + 1} /\ (kept = n => 2 * rest <= q) /\ (kept # n => 2 * rest >= q)
  BY <1>2, <1>4
<1> DEFINE r == kept * q
<1>7. r \in Int /\ r - m \in Int /\ 2 * Magnitude(r - m) <= q /\ (q = 1 => r = m)
  <2>1. CASE kept = n
    <3>1. r - m = -rest
      BY <1>1, <1>4, <1>5, <2>1
    <3> QED
      BY <1>1, <1>2, <1>4, <1>5, <1>6, <2>1, <3>1 DEF Magnitude
  <2>2. CASE kept = n + 1
    <3>1. r - m = q - rest /\ 2 * rest >= q
      BY <1>1, <1>2, <1>4, <1>5, <1>6, <2>2
    <3>2. q # 1
      BY <1>2, <1>4, <3>1
    <3> QED
      BY <1>1, <1>2, <1>4, <1>5, <3>1, <3>2 DEF Magnitude
  <2> QED
    BY <1>6, <2>1, <2>2
<1>8. Round(x) = IF x < 0 THEN -r ELSE r
  BY <1>3
<1> HIDE DEF r
<1>9. Round(x) \in Int /\ Round(x) - x \in {r - m, -(r - m)}
  BY <1>1, <1>7, <1>8
<1>10. Magnitude(Round(x) - x) = Magnitude(r - m) /\ Magnitude(r - m) \in Nat
  BY <1>7, <1>9 DEF Magnitude
<1>11. Slack(x) = IF q = 1 THEN 0 ELSE q
  BY DEF Slack, q
<1>12. q = 1 => Magnitude(r - m) = 0
  BY <1>1, <1>7 DEF Magnitude
<1> QED
  BY <1>7, <1>9, <1>10, <1>11, <1>12

-----------------------------------------------------------------------------
(* Sums.                                                                   *)

LEMMA SlackType ==
    ASSUME NEW x \in Int
    PROVE  Slack(x) \in Nat
  BY QuantumIsPositive DEF Slack

\* The loop of SumOf adds one number in each round.
LEMMA SumOfUnfolds ==
    ASSUME NEW N \in Nat, NEW numbers, \A n \in 1 .. N : numbers[n] \in Int
    PROVE  \E sums : /\ sums \in [0 .. N -> Int]
                     /\ sums[0] = 0
                     /\ \A n \in 1 .. N : sums[n] = sums[n - 1] + numbers[n]
                     /\ SumOf(numbers, N) = sums[N]
<1> DEFINE step == [n \in 1 .. N |-> [t \in Int |-> t + numbers[n]]]
           value == Iterate(0, step, N)
<1>1. \A n \in 1 .. N : \A t \in Int : step[n][t] = t + numbers[n]
  OBVIOUS
<1>2. SumOf(numbers, N) = value[N]
  BY DEF SumOf
<1> HIDE DEF step
<1>3. value[0] = 0 /\ \A n \in 1 .. N : value[n] = step[n][value[n - 1]]
  BY IterateUnfolds
<1>4. \A n \in 0 .. N : value[n] \in Int
  <2> DEFINE Values == Int
  <2>1. 0 \in Values /\ \A n \in 1 .. N : \A t \in Values : step[n][t] \in Values
    BY <1>1
  <2> HIDE DEF Values
  <2>2. \A n \in 0 .. N : value[n] \in Values
    BY <2>1, IterateStays
  <2> QED
    BY <2>2 DEF Values
<1> HIDE DEF value
<1> DEFINE sums == [n \in 0 .. N |-> value[n]]
<1>5. ASSUME NEW n \in 1 .. N PROVE sums[n] = sums[n - 1] + numbers[n]
  <2>1. n \in 0 .. N /\ n - 1 \in 0 .. N
    OBVIOUS
  <2>2. value[n] = value[n - 1] + numbers[n]
    BY <1>1, <1>3, <1>4, <2>1
  <2> QED
    BY <2>1, <2>2
<1>6. sums \in [0 .. N -> Int] /\ sums[0] = 0 /\ sums[N] = value[N]
  BY <1>3, <1>4
<1> QED
  BY <1>2, <1>5, <1>6

\* The loop of Total rounds after each addition.
LEMMA TotalsUnfold ==
    ASSUME NEW s, Len(s) \in Nat, NEW amountOf, \A n \in 1 .. Len(s) : amountOf[s[n]] \in Int
    PROVE  /\ \A n \in 0 .. Len(s) : Totals(s, amountOf)[n] \in Int
           /\ Totals(s, amountOf)[0] = 0
           /\ \A n \in 1 .. Len(s) :
                Totals(s, amountOf)[n] = Round(Totals(s, amountOf)[n - 1] + amountOf[s[n]])
<1> DEFINE N == Len(s)
           step == [n \in 1 .. N |-> [t \in Int |-> Round(t + amountOf[s[n]])]]
           value == Totals(s, amountOf)
<1>1. \A n \in 1 .. N : \A t \in Int : step[n][t] = Round(t + amountOf[s[n]])
  OBVIOUS
<1>2. value = Iterate(0, step, N)
  BY DEF Totals
<1> HIDE DEF step, value, N
<1>3. N \in Nat /\ \A n \in 1 .. N : amountOf[s[n]] \in Int
  BY DEF N
<1>4. value[0] = 0 /\ \A n \in 1 .. N : value[n] = step[n][value[n - 1]]
  BY <1>2, <1>3, IterateUnfolds
<1>5. \A n \in 0 .. N : value[n] \in Int
  <2> DEFINE Values == Int
  <2>1. ASSUME NEW n \in 1 .. N, NEW t \in Values PROVE step[n][t] \in Values
    <3>1. t + amountOf[s[n]] \in Int
      BY <1>3
    <3> QED
      BY <1>1, <3>1, RoundingError
  <2>2. 0 \in Values
    OBVIOUS
  <2> HIDE DEF Values
  <2>3. \A n \in 0 .. N : value[n] \in Values
    BY <1>2, <1>3, <2>1, <2>2, IterateStays
  <2> QED
    BY <2>3 DEF Values
<1>6. ASSUME NEW n \in 1 .. N PROVE value[n] = Round(value[n - 1] + amountOf[s[n]])
  <2>1. n - 1 \in 0 .. N
    BY <1>3
  <2> QED
    BY <1>1, <1>4, <1>5, <2>1
<1> QED
  BY <1>4, <1>5, <1>6 DEF N, value

\* The error of a sum is at most that of the sum so far, that of the amount and that
\* of rounding their sum.
LEMMA ErrorsAdd ==
    ASSUME NEW total \in Int, NEW before \in Int, NEW amount \in Int,
           NEW exactBefore \in Int, NEW exact \in Int,
           NEW bound \in Int, NEW slackOfAmount \in Int, NEW slackOfSum \in Int,
           2 * Magnitude(before - exactBefore) <= bound,
           2 * Magnitude(amount - exact) <= slackOfAmount,
           2 * Magnitude(total - (before + amount)) <= slackOfSum
    PROVE  2 * Magnitude(total - (exactBefore + exact)) <= bound + (slackOfSum + slackOfAmount)
  BY DEF Magnitude

\* A balance is off by at most what the rounding of its amounts and of its partial
\* sums allows, for listings of any length.
THEOREM AccumulatedError ==
    ASSUME NEW s, Len(s) \in Nat, NEW amountOf, NEW exact,
           \A n \in 1 .. Len(s) :
               /\ amountOf[s[n]] \in Int /\ exact[n] \in Int
               /\ 2 * Magnitude(amountOf[s[n]] - exact[n]) <= Slack(exact[n])
    PROVE  2 * Magnitude(Total(s, amountOf) - SumOf(exact, Len(s)))
             <= SumOf([n \in 1 .. Len(s) |->
                    Slack(Totals(s, amountOf)[n - 1] + amountOf[s[n]]) + Slack(exact[n])], Len(s))
<1> DEFINE N == Len(s)
           total == Totals(s, amountOf)
           step(n) == total[n - 1] + amountOf[s[n]]
           slacks == [n \in 1 .. N |-> Slack(step(n)) + Slack(exact[n])]
<1>1. /\ \A n \in 0 .. N : total[n] \in Int
      /\ total[0] = 0
      /\ \A n \in 1 .. N : total[n] = Round(step(n))
  BY TotalsUnfold
<1>2. Total(s, amountOf) = total[N]
  BY DEF Total
<1> HIDE DEF N, total
<1>3. /\ N \in Nat
      /\ \A n \in 1 .. N : amountOf[s[n]] \in Int /\ exact[n] \in Int
      /\ \A n \in 1 .. N : 2 * Magnitude(amountOf[s[n]] - exact[n]) <= Slack(exact[n])
  BY DEF N
<1>4. \A n \in 1 .. N : n - 1 \in 0 .. N /\ step(n) \in Int
  BY <1>1, <1>3
<1>5. ASSUME NEW n \in 1 .. N PROVE slacks[n] = Slack(step(n)) + Slack(exact[n]) /\ slacks[n] \in Int
  <2>1. Slack(step(n)) \in Nat /\ Slack(exact[n]) \in Nat
    BY <1>3, <1>4, SlackType
  <2> QED
    BY <2>1
<1> HIDE DEF slacks
<1>6. PICK sums : /\ sums \in [0 .. N -> Int]
                  /\ sums[0] = 0
                  /\ \A n \in 1 .. N : sums[n] = sums[n - 1] + exact[n]
                  /\ SumOf(exact, N) = sums[N]
  BY <1>3, SumOfUnfolds
<1>7. PICK bounds : /\ bounds \in [0 .. N -> Int]
                    /\ bounds[0] = 0
                    /\ \A n \in 1 .. N : bounds[n] = bounds[n - 1] + slacks[n]
                    /\ SumOf(slacks, N) = bounds[N]
  BY <1>3, <1>5, SumOfUnfolds
<1> DEFINE Bad == {n \in 0 .. N : ~(2 * Magnitude(total[n] - sums[n]) <= bounds[n])}
<1>8. Bad = {}
  <2> SUFFICES ASSUME Bad # {} PROVE FALSE
    OBVIOUS
  <2>1. PICK m \in Bad : \A k \in Bad : m <= k
    <3>1. Bad \in SUBSET Nat
      BY <1>3
    <3> QED
      BY <3>1, LeastNumber
  <2>2. m # 0
    BY <1>1, <1>6, <1>7 DEF Magnitude
  <2>3. m \in 1 .. N /\ m - 1 \in 0 .. N /\ m - 1 \notin Bad
    BY <1>3, <2>1, <2>2
  <2>4. /\ total[m] \in Int /\ total[m - 1] \in Int /\ sums[m - 1] \in Int
        /\ amountOf[s[m]] \in Int /\ exact[m] \in Int
    BY <1>1, <1>3, <1>6, <2>3
  <2>5. 2 * Magnitude(total[m - 1] - sums[m - 1]) <= bounds[m - 1]
    BY <2>3
  <2>6. /\ 2 * Magnitude(amountOf[s[m]] - exact[m]) <= Slack(exact[m])
        /\ 2 * Magnitude(total[m] - step(m)) <= Slack(step(m))
    BY <1>1, <1>3, <1>4, <2>3, RoundingError
  <2>7. bounds[m - 1] \in Int /\ Slack(step(m)) \in Int /\ Slack(exact[m]) \in Int
    <3>1. Slack(step(m)) \in Nat /\ Slack(exact[m]) \in Nat
      BY <1>3, <1>4, <2>3, SlackType
    <3> QED
      BY <1>7, <2>3, <3>1
  <2>8. sums[m] = sums[m - 1] + exact[m] /\ bounds[m] = bounds[m - 1] + (Slack(step(m)) + Slack(exact[m]))
    BY <1>5, <1>6, <1>7, <2>3
  <2>9. ~(2 * Magnitude(total[m] - sums[m]) <= bounds[m])
    BY <2>1
  <2>10. 2 * Magnitude(total[m] - (sums[m - 1] + exact[m]))
            <= bounds[m - 1] + (Slack(step(m)) + Slack(exact[m]))
    BY <2>4, <2>5, <2>6, <2>7, ErrorsAdd
  <2> QED
    BY <2>8, <2>9, <2>10
<1>9. 2 * Magnitude(total[N] - sums[N]) <= bounds[N]
  <2>1. N \in 0 .. N
    BY <1>3
  <2> QED
    BY <1>8, <2>1
<1> QED
  BY <1>2, <1>6, <1>7, <1>9 DEF N, total, slacks

\* As long as every amount and every partial sum fits the precision, the balance
\* is the sum of the CREDITs minus the sum of the DEBITs.
THEOREM ExactWhenItFits ==
    ASSUME NEW s, Len(s) \in Nat, NEW amountOf, NEW exact,
           \A n \in 1 .. Len(s) :
               /\ amountOf[s[n]] \in Int /\ exact[n] \in Int
               /\ 2 * Magnitude(amountOf[s[n]] - exact[n]) <= Slack(exact[n])
               /\ Slack(exact[n]) = 0
               /\ Slack(Totals(s, amountOf)[n - 1] + amountOf[s[n]]) = 0
    PROVE  Total(s, amountOf) = SumOf(exact, Len(s))
<1> DEFINE N == Len(s)
           total == Totals(s, amountOf)
           slacks == [n \in 1 .. N |-> Slack(total[n - 1] + amountOf[s[n]]) + Slack(exact[n])]
<1>1. 2 * Magnitude(Total(s, amountOf) - SumOf(exact, N)) <= SumOf(slacks, N)
  BY AccumulatedError
<1>2. \A n \in 1 .. N : slacks[n] = 0
  OBVIOUS
<1>3. Total(s, amountOf) \in Int
  BY TotalsUnfold DEF Total
<1> HIDE DEF N, slacks
<1>4. N \in Nat /\ \A n \in 1 .. N : exact[n] \in Int /\ slacks[n] \in Int
  BY <1>2 DEF N
<1>5. SumOf(exact, N) \in Int
  BY <1>4, SumOfUnfolds
<1>6. PICK sums : /\ sums \in [0 .. N -> Int]
                  /\ sums[0] = 0
                  /\ \A n \in 1 .. N : sums[n] = sums[n - 1] + slacks[n]
                  /\ SumOf(slacks, N) = sums[N]
  BY <1>4, SumOfUnfolds
<1> DEFINE Bad == {n \in 0 .. N : sums[n] # 0}
<1>7. Bad = {}
  <2> SUFFICES ASSUME Bad # {} PROVE FALSE
    OBVIOUS
  <2>1. PICK m \in Bad : \A k \in Bad : m <= k
    <3>1. Bad \in SUBSET Nat
      BY <1>4
    <3> QED
      BY <3>1, LeastNumber
  <2>2. m \in 1 .. N /\ m - 1 \in 0 .. N /\ m - 1 \notin Bad
    BY <1>4, <1>6, <2>1
  <2> QED
    BY <1>2, <1>6, <2>1, <2>2
<1>8. sums[N] = 0
  BY <1>4, <1>7
<1> QED
  BY <1>1, <1>3, <1>5, <1>6, <1>8 DEF Magnitude, N

-----------------------------------------------------------------------------
(* Order.                                                                  *)

\* Among timestamps of one offset the order of the text is the order of time.
LEMMA TextTellsTime ==
    ASSUME NEW t \in [local : Int, offset : Int], NEW u \in [local : Int, offset : Int],
           t.offset = u.offset, TextLeq(t, u)
    PROVE  Instant(t) <= Instant(u)
  BY DEF TextLeq, Instant

\* Of a listing in the order of time, RecentOf takes the latest, latest first.
LEMMA RecentAreLatest ==
    ASSUME NEW Rows, NEW s \in Seq(Rows), NEW at, \A r \in Rows : at[r] \in Int,
           \A i, j \in 1 .. Len(s) : i < j => at[s[i]] <= at[s[j]]
    PROVE  LET recent == RecentOf(s)
           IN  /\ \A i \in 1 .. Len(recent) : recent[i] \in Rows
               /\ \A i, j \in 1 .. Len(recent) : i < j => at[recent[i]] >= at[recent[j]]
               /\ \A r \in ToSet(s) \ ToSet(recent), i \in 1 .. Len(recent) : at[r] <= at[recent[i]]
<1> DEFINE L == Len(s)
           n == IF L < RecentLimit THEN L ELSE RecentLimit
           recent == RecentOf(s)
<1>1. L \in Nat /\ n \in 0 .. L /\ \A i \in 1 .. L : at[s[i]] \in Int
  OBVIOUS
<1>2. recent = [i \in 1 .. n |-> s[L + 1 - i]]
  BY DEF RecentOf
<1>3. Len(recent) = n /\ DOMAIN recent = 1 .. n
  BY <1>1, <1>2
<1> HIDE DEF L, n, recent
<1>4. \A i \in 1 .. n : recent[i] = s[L + 1 - i] /\ L + 1 - i \in 1 .. L
  BY <1>1, <1>2
<1>5. ASSUME NEW i \in 1 .. n, NEW j \in 1 .. n, i < j PROVE at[recent[i]] >= at[recent[j]]
  <2>1. /\ L + 1 - j \in 1 .. L /\ L + 1 - i \in 1 .. L /\ L + 1 - j < L + 1 - i
    BY <1>1, <1>4, <1>5
  <2>2. at[s[L + 1 - j]] <= at[s[L + 1 - i]]
    BY <2>1 DEF L
  <2> QED
    BY <1>1, <1>4, <2>1, <2>2
<1>6. ASSUME NEW r \in ToSet(s) \ ToSet(recent), NEW i \in 1 .. n PROVE at[r] <= at[recent[i]]
  <2>1. PICK k \in 1 .. L : r = s[k]
    BY DEF ToSet, L
  <2>2. k < L + 1 - n
    <3> SUFFICES ASSUME k >= L + 1 - n PROVE FALSE
      BY <1>1
    <3>1. L + 1 - k \in 1 .. n /\ L + 1 - (L + 1 - k) = k
      BY <1>1
    <3>2. recent[L + 1 - k] = s[k]
      BY <1>2, <3>1
    <3> QED
      BY <1>3, <2>1, <3>1, <3>2 DEF ToSet
  <2>3. L + 1 - i \in 1 .. L /\ k < L + 1 - i
    BY <1>1, <1>4, <2>2
  <2>4. at[s[k]] <= at[s[L + 1 - i]]
    BY <2>3 DEF L
  <2> QED
    BY <1>4, <2>1, <2>4
<1>7. ASSUME NEW i \in 1 .. n PROVE recent[i] \in Rows
  BY <1>4 DEF L
<1> QED
  BY <1>3, <1>5, <1>6, <1>7 DEF recent
=============================================================================
