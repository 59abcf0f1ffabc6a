----------------------------- MODULE QueueService -----------------------------
(***************************************************************************)
(* What a scheduler and its handlers promise of their queues together:     *)
(* once the queues are open, each packet is served once and charged once,  *)
(* in either order but one packet at a time, and a bill covers everything  *)
(* charged so far.                                                         *)
(***************************************************************************)
EXTENDS Integers

CONSTANTS
    Queue,
    Capacity     \* packets that may wait in a queue

VARIABLES
    open,        \* have the queues been set up?
    arrived,     \* packets of each queue so far
    served,      \* those of them whose entry was given back
    charged,     \* the cycles used on them, one each
    billed       \* the cycles reported

Zero == [q \in Queue |-> 0]

Init ==
    /\ open = FALSE
    /\ arrived = Zero /\ served = Zero /\ charged = Zero /\ billed = Zero

Arrive(q) ==
    /\ arrived[q] - served[q] < Capacity
    /\ arrived' = [arrived EXCEPT ![q] = @ + 1]
    /\ UNCHANGED <<open, served, charged, billed>>

Open ==
    /\ ~open /\ open' = TRUE
    /\ UNCHANGED <<arrived, served, charged, billed>>

Serve(q) ==
    /\ open /\ served[q] < arrived[q] /\ served[q] <= charged[q]
    /\ served' = [served EXCEPT ![q] = @ + 1]
    /\ UNCHANGED <<open, arrived, charged, billed>>

Charge(q) ==
    /\ open /\ charged[q] < arrived[q] /\ charged[q] <= served[q]
    /\ charged' = [charged EXCEPT ![q] = @ + 1]
    /\ UNCHANGED <<open, arrived, served, billed>>

Bill(q) ==
    /\ open /\ billed' = [billed EXCEPT ![q] = charged[q]]
    /\ UNCHANGED <<open, arrived, served, charged>>

Next == Open \/ \E q \in Queue : Arrive(q) \/ Serve(q) \/ Charge(q) \/ Bill(q)

Spec == Init /\ [][Next]_<<open, arrived, served, charged, billed>>
=============================================================================
