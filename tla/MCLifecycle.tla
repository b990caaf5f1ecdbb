----------------------------- MODULE MCLifecycle -----------------------------
(***************************************************************************)
(* A process with a few connections and a queue that one span fills.       *)
(***************************************************************************)
EXTENDS Lifecycle
==============================================================================
