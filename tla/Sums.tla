-------------------------------- MODULE Sums --------------------------------
(***************************************************************************)
(* Arithmetic of money: SUM of SQL and sum() of iterators, over amounts in *)
(* a sequence, and Decimal::round_dp.                                      *)
(***************************************************************************)
EXTENDS Integers, Sequences, SequencesExt

Summed(amounts) == FoldLeft(LAMBDA x, y : x + y, 0, amounts)

(* Decimal::round_dp: to the nearest, and to the even one of two. *)
RoundHalfEven(n, unit) ==
    LET down == n \div unit
        rest == 2 * (n % unit)
    IN  IF rest > unit \/ (rest = unit /\ down % 2 = 1) THEN down + 1 ELSE down
=============================================================================
