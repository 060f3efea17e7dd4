---------------------------- MODULE EventDelivery ----------------------------
(***************************************************************************)
(* What the outbox promises: an event recorded by a financial commit       *)
(* reaches the output queue at least once, is marked published only after  *)
(* it did, and in the end is.  Copies are not counted: consumers           *)
(* deduplicate by event id.                                                *)
(***************************************************************************)
CONSTANT Events
VARIABLES recorded, delivered, published

vars == <<recorded, delivered, published>>

Init == recorded = {} /\ delivered = {} /\ published = {}

Record(e) ==
    /\ recorded' = recorded \cup {e}
    /\ UNCHANGED <<delivered, published>>

Deliver(e) ==
    /\ e \in recorded
    /\ delivered' = delivered \cup {e}
    /\ UNCHANGED <<recorded, published>>

Publish(e) ==
    /\ e \in delivered
    /\ published' = published \cup {e}
    /\ UNCHANGED <<recorded, delivered>>

Next == \E e \in Events : Record(e) \/ Deliver(e) \/ Publish(e)

Spec == Init /\ [][Next]_vars

FairSpec == Spec /\ \A e \in Events : WF_vars(Deliver(e)) /\ WF_vars(Publish(e))
=============================================================================
