-------------------------------- MODULE Legs --------------------------------
(***************************************************************************)
(* The postings a handler writes itself, one INSERT per leg, without       *)
(* domain/posting_service.rs: reimbursements, transfers, fixed assets and  *)
(* templates do.  migrations/0001_init.sql puts a CHECK and a row trigger  *)
(* in their way.                                                           *)
(***************************************************************************)
EXTENDS Sums

VARIABLE balanceTrigger     \* trg_posting_balance is enabled on postings

Leg(account, dir, amount) == [account |-> account, dir |-> dir, amount |-> amount]
Debit(account, amount) == Leg(account, "DEBIT", amount)
Credit(account, amount) == Leg(account, "CREDIT", amount)

Total(legs, dir) ==
    Summed([i \in DOMAIN legs |-> IF legs[i].dir = dir THEN legs[i].amount ELSE 0])

Balanced(legs) == Total(legs, "DEBIT") = Total(legs, "CREDIT")

(* What a leg puts on an account, debits positive, and what legs leave on  *)
(* it together.                                                            *)
Signed(leg, account) ==
    IF leg.account # account THEN 0
    ELSE IF leg.dir = "DEBIT" THEN leg.amount ELSE -leg.amount

Net(legs, account) == Summed([i \in DOMAIN legs |-> Signed(legs[i], account)])

(* CHECK (amount > 0), and check_posting_balance after each row: from the  *)
(* second leg on, the legs so far must balance while the trigger is on.    *)
InsertsPass(legs, trigger) ==
    /\ \A i \in DOMAIN legs : legs[i].amount > 0
    /\ trigger => \A k \in 2..Len(legs) : Balanced(SubSeq(legs, 1, k))
=============================================================================
