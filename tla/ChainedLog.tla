----------------------------- MODULE ChainedLog -----------------------------
(***************************************************************************)
(* What the audit log promises: a single append-only chain, in which every *)
(* event is linked to all the events before it.                            *)
(***************************************************************************)
EXTENDS Sequences

CONSTANT Entities  \* what the events are about

VARIABLES
    events,  \* the events, oldest first
    tip      \* the hash of the newest one: it stands for the whole chain

Init == events = <<>> /\ tip = <<>>

Record(e) ==
    /\ events' = Append(events, e)
    /\ tip' = Append(tip, e)

Next == \E e \in Entities : Record(e)

Spec == Init /\ [][Next]_<<events, tip>>
=============================================================================
