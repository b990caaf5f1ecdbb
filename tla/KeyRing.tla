------------------------------- MODULE KeyRing -------------------------------
(***************************************************************************)
(* What the key store promises: keys are added or replaced, never taken    *)
(* away, and the active key is always one of them.  Every operation is one *)
(* atomic step.                                                            *)
(***************************************************************************)
CONSTANTS Kids, Keys, NoKey, NoKid

VARIABLES
  store,      \* the key, or NoKey, of every key id
  activeKey   \* the key id new tokens are signed with, or NoKid

vars == <<store, activeKey>>

Init ==
  /\ store = [kid \in Kids |-> NoKey]
  /\ activeKey = NoKid

Put ==
  \E kid \in Kids, key \in Keys :
    /\ store' = [store EXCEPT ![kid] = key]
    /\ activeKey' = activeKey

Activate ==
  \E kid \in Kids :
    /\ store[kid] # NoKey
    /\ activeKey' = kid
    /\ store' = store

Next == Put \/ Activate

Spec == Init /\ [][Next]_vars
==============================================================================
