------------------------------ MODULE PacketFifo ------------------------------
(***************************************************************************)
(* What a tenant queue promises: packets leave in the order they arrived,  *)
(* each once, and at most Capacity of them wait.  A packet is its arrival  *)
(* number.                                                                 *)
(***************************************************************************)
EXTENDS Integers, Sequences

CONSTANT Capacity

VARIABLES
    pending,   \* packets received and not yet forwarded, oldest first
    arrived,   \* number of packets received so far
    out        \* the packet forwarded last, -1 before the first

Init ==
    /\ pending = <<>>
    /\ arrived = 0
    /\ out = -1

Arrive ==
    /\ Len(pending) < Capacity
    /\ pending' = Append(pending, arrived)
    /\ arrived' = arrived + 1
    /\ UNCHANGED out

Forward ==
    /\ pending # <<>>
    /\ out' = Head(pending)
    /\ pending' = Tail(pending)
    /\ UNCHANGED arrived

Next == Arrive \/ Forward

Spec == Init /\ [][Next]_<<pending, arrived, out>>
=============================================================================
