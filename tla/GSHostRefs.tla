----------------------------- MODULE GSHostRefs -----------------------------
(***************************************************************************)
(* What GS_addref, GS_release and GS_getrefcount promise to a host: every  *)
(* object has a count of its own, and is not freed while that is not 0.    *)
(***************************************************************************)
EXTENDS Integers

CONSTANT Objs
VARIABLES count, alive

Init == count = [o \in Objs |-> 0] /\ alive = {}

AddRef(o) == o \in alive /\ count' = [count EXCEPT ![o] = @ + 1] /\ alive' = alive

Release(o) ==
    /\ count[o] > 0
    /\ count' = [count EXCEPT ![o] = @ - 1]
    /\ \/ alive' = alive
       \/ count[o] = 1 /\ alive' = alive \ {o}

\* The scripts make objects and drop those they have.
Scripts ==
    /\ count' = count
    /\ \E o \in Objs : \/ alive' = alive \cup {o}
                       \/ count[o] = 0 /\ alive' = alive \ {o}

Next == Scripts \/ \E o \in Objs : AddRef(o) \/ Release(o)
Spec == Init /\ [][Next]_<<count, alive>>
=============================================================================
