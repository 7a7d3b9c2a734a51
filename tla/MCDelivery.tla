----------------------------- MODULE MCDelivery -----------------------------
EXTENDS DeliveryClaims, TLC

MCTarget == Delivery \cup {Scan}
MCBackoff == <<1, 2>>
WorkerSymmetry == Permutations(Worker)
=============================================================================
