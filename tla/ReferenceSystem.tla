---------------------------- MODULE ReferenceSystem ----------------------------
(***************************************************************************)
(* The reference system the comment above main's clean-up speaks of, as    *)
(* its well-behaved client sees it: nothing is created before what it      *)
(* refers to, nothing is destroyed while something refers to it, and a     *)
(* creation that failed is not tried again.                                *)
(***************************************************************************)
CONSTANTS
    Resource,
    Refs         \* of each resource, those it refers to

VARIABLES
    held,        \* the resources that exist
    lost         \* those whose creation failed

Init == held = {} /\ lost = {}

(* A lost resource is passed as NULL, or as garbage.                       *)
Met(r)  == Refs[r] \subseteq held \cup lost
Free(s) == \A r \in held : s \notin Refs[r]

Acquire(r) ==
    /\ r \notin held \cup lost
    /\ held' = held \cup {r} /\ UNCHANGED lost
    /\ Met(r)

(* A failed creation may leave an unfinished part of it behind.            *)
FallShort(r) ==
    /\ r \notin held \cup lost
    /\ lost' = lost \cup {r}
    /\ \/ UNCHANGED held
       \/ \E part \in Resource : held' = held \cup {part} /\ Met(part)

Release(r) ==
    /\ r \in held
    /\ held' = held \ {r} /\ UNCHANGED lost
    /\ Free(r)

Next == \E r \in Resource : Acquire(r) \/ FallShort(r) \/ Release(r)

Spec == Init /\ [][Next]_<<held, lost>>
=============================================================================
