------------------------------- MODULE Listing -------------------------------
(***************************************************************************)
(* The pure part of what both services answer from their tables: rows in   *)
(* the order of their event_timestamp, which is stored and compared as     *)
(* text, and amounts added up with decimal.Decimal, whose context rounds   *)
(* every result to a fixed number of digits.                               *)
(***************************************************************************)
EXTENDS Integers, SequencesExt

CONSTANTS
    Precision,   \* digits of the Decimal context: 28 unless configured
    MaxDigits,   \* bound on the digits of a sum beyond the precision
    RecentLimit  \* how many transactions get_account returns: 10

ASSUME ListingAssumption ==
    /\ Precision \in Nat \ {0}
    /\ MaxDigits \in Nat \ {0}
    /\ RecentLimit \in Nat \ {0}

-----------------------------------------------------------------------------
(* Timestamps: a wall clock reading and its offset from UTC.  A timestamp  *)
(* without an offset has no place on the time line and is left out.        *)

Instant(t) == t.local - t.offset

\* isoformat() ends in the offset, "+" sorts before "-", and either by size.
OffsetRank(o) == IF o >= 0 THEN <<0, o>> ELSE <<1, -o>>

LexLeq(x, y) == x[1] < y[1] \/ (x[1] = y[1] /\ x[2] <= y[2])

\* Mutant: rows come back in the order of their arrival, or any other.
TextLeqAny(t, u) == TRUE

\* event_timestamp compared as text: first the wall clock, then the offset.
TextLeq(t, u) ==
    \/ t.local < u.local
    \/ t.local = u.local /\ LexLeq(OffsetRank(t.offset), OffsetRank(u.offset))

\* The listings SELECT ... ORDER BY event_timestamp may return for a set of
\* rows.  The second key, created_at or received_at, only breaks ties.
ListingsOf(rows, timeOf) ==
    {s \in SetToSeqs(rows) : \A i, j \in 1 .. Len(s) :
        i < j => TextLeq(timeOf[s[i]], timeOf[s[j]])}

\* The last RecentLimit transactions of a listing, latest first.
RecentOf(s) ==
    LET n == IF Len(s) < RecentLimit THEN Len(s) ELSE RecentLimit
    IN  [i \in 1 .. n |-> s[Len(s) + 1 - i]]

-----------------------------------------------------------------------------
(* Decimals: values in units of the smallest amount in use.                *)

\* The values of a loop of N rounds, before the first and after each: a fold,
\* written as a recursive function so that proofs can reason about it.
Iterate(start, step, N) ==
    LET value[n \in 0 .. N] == IF n = 0 THEN start ELSE step[n][value[n - 1]]
    IN  value

Magnitude(x) == IF x < 0 THEN -x ELSE x

\* The unit of the last digit that the context keeps of x: the first power of ten
\* of which x is less than 10 ^ Precision.
Quantum(x) ==
    LET coarser == [q \in Nat |-> IF Magnitude(x) < q * 10 ^ Precision THEN q ELSE 10 * q]
    IN  Iterate(1, [d \in 1 .. MaxDigits |-> coarser], MaxDigits)[MaxDigits]

\* Mutant: digits beyond the precision are cut off.
RoundDown(x) ==
    LET q == Quantum(x)
        r == (Magnitude(x) \div q) * q
    IN  IF x < 0 THEN -r ELSE r

\* ROUND_HALF_EVEN, the default of the context.
Round(x) ==
    LET q == Quantum(x)
        n == Magnitude(x) \div q
        twice == 2 * (Magnitude(x) % q)
        r == (IF twice > q \/ (twice = q /\ n % 2 = 1) THEN n + 1 ELSE n) * q
    IN  IF x < 0 THEN -r ELSE r

\* The canonical string of an amount holds its value after normalize().
Canonical(amount) == Round(amount)

\* CREDITs are added and DEBITs subtracted in the order of the listing; every
\* step rounds.
Totals(s, signedAmountOf) ==
    Iterate(0, [n \in 1 .. Len(s) |-> [t \in Int |-> Round(t + signedAmountOf[s[n]])]], Len(s))
Total(s, signedAmountOf) == Totals(s, signedAmountOf)[Len(s)]

\* What a rounding of x may be off by, twice; and the sum of N numbers, exactly.
Slack(x) == IF Quantum(x) = 1 THEN 0 ELSE Quantum(x)
SumOf(numbers, N) == Iterate(0, [n \in 1 .. N |-> [t \in Int |-> t + numbers[n]]], N)[N]
=============================================================================
