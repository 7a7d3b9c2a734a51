------------------------------ MODULE MCLedger ------------------------------
(***************************************************************************)
(* LedgerSystem for TLC: two years of one date each, one year of two       *)
(* dates, or a single date for the runs that are not about time.           *)
(***************************************************************************)
EXTENDS LedgerClaims, TLC

MCTwoYears == <<1, 2>>
MCOneDay == <<1>>
MCOneYear == <<1, 1>>
MCOneYearEnd == <<2>>

TxnSymmetry == Permutations(TxnId) \cup Permutations(Req)
=============================================================================
