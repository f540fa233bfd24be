------------------------------- MODULE Money -------------------------------
(***************************************************************************)
(* shared/src/money.ts: amounts are whole paise.  A factor is a fraction   *)
(* num / den; the code's factors (0.05, 0.18, mult - 1, bps / 10 000) are  *)
(* doubles so near to it that halves still round the way written here.     *)
(* Every operation of the code ends in paise(), which throws outside       *)
(* -MaxPaise .. MaxPaise; who uses these operators states that it does not.*)
(***************************************************************************)
EXTENDS Integers, Sequences, SequencesExt

CONSTANT MaxPaise    \* the cap of paise(), MAX_PAISE

ASSUME MoneyAssumption == MaxPaise \in Nat

Paise == -MaxPaise .. MaxPaise

\* toPaise of a whole number of rupees.
ToPaise(rupees) == 100 * rupees

\* n / den to the nearest integer, halves away from zero on either side.
RoundHalfUp(n, den) ==
    LET Up(m) == m \div den + (IF 2 * (m % den) >= den THEN 1 ELSE 0)
    IN  IF n < 0 THEN -Up(-n) ELSE Up(n)

MulPaise(p, num, den) == RoundHalfUp(p * num, den)

\* sumPaise.
SumPaise(amounts) == FoldLeft(+, 0, amounts)

\* Integer division that cuts towards zero, as Math.trunc does.
Trunc(p, n) == IF p < 0 THEN -((-p) \div n) ELSE p \div n

\* splitPaise: equal shares, the paise left over to the earliest of them.
SplitPaise(p, parts) ==
    LET base == Trunc(p, parts)
        remainder == p - base * parts
        Extra(i) == IF remainder < 0 THEN (IF i <= -remainder THEN -1 ELSE 0)
                                     ELSE (IF i <= remainder THEN 1 ELSE 0)
    IN  [i \in 1 .. parts |-> base + Extra(i)]
=============================================================================
