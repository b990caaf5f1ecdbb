-------------------------- MODULE MCRequestPipeline --------------------------
(***************************************************************************)
(* Two concurrent requests through the service's chains or the tests'.     *)
(***************************************************************************)
EXTENDS RequestPipeline
==============================================================================
