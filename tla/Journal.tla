------------------------------ MODULE Journal ------------------------------
(***************************************************************************)
(* What the write side of a ledger promises about its journal, without     *)
(* requests, locks or tables: entries are drafts, held or posted; a posted *)
(* entry never changes; a held entry is let go only by a user other than   *)
(* its maker, who is on record for it.                                     *)
(***************************************************************************)
CONSTANTS Id, User, NoUser, Nothing

VARIABLES
    book,       \* the entry under each id: its phase, its maker, its text
    checker     \* who decided the entry

journal == <<book, checker>>

Init ==
    /\ book = [i \in Id |-> Nothing]
    /\ checker = [i \in Id |-> NoUser]

(* New entries, each in any phase, under ids not used before. *)
Record(S) ==
    /\ S # {}
    /\ \A i \in S : book[i] = Nothing /\ book'[i] # Nothing
    /\ \A i \in Id \ S : book'[i] = book[i]
    /\ UNCHANGED checker

Promote(i) ==
    /\ book[i] # Nothing
    /\ book[i].phase = "draft"
    /\ book' = [book EXCEPT ![i].phase = "posted"]
    /\ UNCHANGED checker

Discard(i) ==
    /\ book[i] # Nothing
    /\ book[i].phase = "draft"
    /\ book' = [book EXCEPT ![i] = Nothing]
    /\ checker' = [checker EXCEPT ![i] = NoUser]

Decide(i, u, phase) ==
    /\ book[i] # Nothing
    /\ book[i].phase = "held"
    /\ u # book[i].maker
    /\ book' = [book EXCEPT ![i].phase = phase]
    /\ checker' = [checker EXCEPT ![i] = u]

Next ==
    \/ \E S \in SUBSET Id : Record(S)
    \/ \E i \in Id : \/ Promote(i)
                     \/ Discard(i)
                     \/ \E u \in User, phase \in {"draft", "posted"} :
                           Decide(i, u, phase)

Spec == Init /\ [][Next]_journal
=============================================================================
