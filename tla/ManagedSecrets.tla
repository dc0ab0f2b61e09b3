--------------------------- MODULE ManagedSecrets ---------------------------
(***************************************************************************)
(* What the operator promises of the objects it manages in each namespace, *)
(* without caches, queues, rounds or finalizer lists: an ExternalSecret is *)
(* created only while its source still exists, it is held before a Secret  *)
(* is written for it, and it goes away only after that Secret was removed: *)
(* one that is left was not shown to the operator at that time.            *)
(***************************************************************************)
CONSTANT Namespaces

VARIABLES
    open,    \* may ExternalSecrets still be created?
    child,   \* [Namespaces -> state of the ExternalSecret there]
    data,    \* the namespaces that have its Secret
    shown,   \* those where the operator is shown one
    overlooked \* those where the last removal left one that it was not shown

vars == <<open, child, data, shown, overlooked>>

ChildStates == {"none", "new", "held", "leaving"}

Init ==
    /\ open = TRUE
    /\ child = [n \in Namespaces |-> "none"]
    /\ data = {} /\ shown = {} /\ overlooked = {}

Create(n) ==
    /\ open /\ child[n] = "none"
    /\ child' = [child EXCEPT ![n] = "new"]
    /\ UNCHANGED <<open, data, shown, overlooked>>

Hold(n) ==
    /\ child[n] = "new"
    /\ child' = [child EXCEPT ![n] = "held"]
    /\ overlooked' = overlooked \ {n}
    /\ UNCHANGED <<open, data, shown>>

Write(n) ==
    /\ child[n] \in {"held", "leaving"}
    /\ data' = data \cup {n}
    /\ UNCHANGED <<open, child, shown, overlooked>>

\* The operator removes the Secret that it is shown, maybe once more for a
\* child that has gone.
Remove(n) ==
    /\ child[n] # "held"
    /\ data' = data \ (shown \cap {n})
    /\ overlooked' = (overlooked \ {n}) \cup ((data \ shown) \cap {n})
    /\ UNCHANGED <<open, child, shown>>

\* Somebody else does.
Erase(n) ==
    /\ data' = data \ {n} /\ overlooked' = overlooked \ {n}
    /\ UNCHANGED <<open, child, shown>>

\* Nothing holds a new child back.
Leave(n) ==
    /\ child[n] \in {"new", "held"}
    /\ child' = [child EXCEPT ![n] = IF @ = "new" THEN "none" ELSE "leaving"]
    /\ UNCHANGED <<open, data, shown, overlooked>>

Release(n) ==
    /\ child[n] = "leaving"
    /\ n \in data => n \in overlooked
    /\ child' = [child EXCEPT ![n] = "none"]
    /\ UNCHANGED <<open, data, shown, overlooked>>

Show(n) ==
    /\ shown' = (shown \ {n}) \cup (data \cap {n})
    /\ UNCHANGED <<open, child, data, overlooked>>

\* The operator starts again and is shown what there is where it may look.
Restart ==
    /\ shown' \in SUBSET data
    /\ UNCHANGED <<open, child, data, overlooked>>

Close ==
    /\ open' = FALSE
    /\ UNCHANGED <<child, data, shown, overlooked>>

Next ==
    \/ \E n \in Namespaces :
          \/ Create(n) \/ Hold(n) \/ Write(n) \/ Remove(n) \/ Erase(n)
          \/ Leave(n) \/ Release(n) \/ Show(n)
    \/ Restart \/ Close

Spec == Init /\ [][Next]_vars
=============================================================================
