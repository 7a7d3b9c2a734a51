---------------------------- MODULE LedgerClaims ----------------------------
(***************************************************************************)
(* Statements of the repository's documents and comments about the write   *)
(* side of a ledger that LedgerSystem does not keep.  Each is checked by a *)
(* run that expects a counterexample.                                      *)
(***************************************************************************)
EXTENDS LedgerSystem

(* The schema's double-entry invariant: what is in the journal balances.   *)
(* edit does not compare debits with credits; only the trigger does.       *)
JournalBalances == \A t \in TxnId : txns[t] # NoRow => txns[t].shape # "skew"

(* "Every write path SHALL reject dates <= closed_through": whatever puts  *)
(* a row into the reports does so on an open date.                         *)
EveryPathRespectsHardClose ==
    [][\A t \in TxnId : ~Posted(txns[t]) /\ Posted(txns'[t]) =>
          txns'[t].kind = "closing" \/ ~IsClosed(txns'[t].date)]_vars
=============================================================================
