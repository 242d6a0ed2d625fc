---------------------------- MODULE RouteHolding ----------------------------
(***************************************************************************)
(* What the LS client promises (ls/client/README.md): a route is registered*)
(* with the broker connection exactly while some local subscriber holds    *)
(* it, every step taken at once. When the realtime service shuts down the  *)
(* registrations are gone; calls under way then may still end either way.  *)
(***************************************************************************)
EXTENDS Naturals, FiniteSets

CONSTANTS Keys, Ids

VARIABLES
    open,       \* the realtime service accepts calls
    held,       \* per route: the subscribers holding it
    registered  \* routes placed on a connection

vars == <<open, held, registered>>

Init ==
    /\ open = TRUE
    /\ held = [k \in Keys |-> {}]
    /\ registered = {}

\* Nobody gets an identifier that is in use.
Acquire(k, id) ==
    /\ \A l \in Keys : id \notin held[l]
    /\ held' = [held EXCEPT ![k] = @ \union {id}]
    /\ registered' = IF open THEN registered \union {k} ELSE registered
    /\ UNCHANGED open

Release(k, id) ==
    /\ id \in held[k]
    /\ held' = [held EXCEPT ![k] = @ \ {id}]
    /\ registered' = IF held[k] = {id} THEN registered \ {k} ELSE registered
    /\ UNCHANGED open

CloseRoute(k) ==
    /\ held[k] # {}
    /\ held' = [held EXCEPT ![k] = {}]
    /\ registered' = registered \ {k}
    /\ UNCHANGED open

Shutdown ==
    /\ open
    /\ open' = FALSE
    /\ registered' = {}
    /\ UNCHANGED held

Next ==
    \/ \E k \in Keys, id \in Ids : Acquire(k, id) \/ Release(k, id)
    \/ \E k \in Keys : CloseRoute(k)
    \/ Shutdown

Spec == Init /\ [][Next]_vars

=============================================================================
