---------------------------- MODULE MCUserHandlers ---------------------------
(***************************************************************************)
(* A small instance of UserHandlers: two users, two addresses, the three   *)
(* role lists, a password that can be hashed and one that cannot, and two  *)
(* concurrent request slots.                                               *)
(***************************************************************************)
EXTENDS UserHandlers, TLC

MCRoleSets == {{"user"}, {"admin"}, {"admin", "user"}}

\* Ids, addresses, profiles and slots are interchangeable: no definition names one.
MCSymmetry ==
  Permutations(UserIDs) \cup Permutations(Emails)
  \cup Permutations(Profiles) \cup Permutations(Requests)
==============================================================================
