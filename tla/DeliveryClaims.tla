--------------------------- MODULE DeliveryClaims ---------------------------
(***************************************************************************)
(* What the repository's documents say of the event deliveries and the     *)
(* code does not keep.                                                     *)
(***************************************************************************)
EXTENDS EventDelivery

(* docs/event-catalog.md: "All events are delivered at-least-once.         *)
(* Webhook deliveries retry ... up to 5 attempts, then the delivery is     *)
(* marked dead."  A job whose instance dies stays 'running', and no code   *)
(* claims it again; an attempt row whose request dies before enqueue has   *)
(* no job at all.                                                          *)
EveryEventDelivered ==
    \A e \in Event : rows[<<e, 0>>] # "none" ~>
        \/ \E d \in Delivery : d[1] = e /\ rows[d] = "ok"
        \/ rows[<<e, MaxTries - 1>>] = "failed"
=============================================================================
