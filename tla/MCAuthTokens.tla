---------------------------- MODULE MCAuthTokens -----------------------------
(***************************************************************************)
(* A process that starts, serves and dies again and again under a secret   *)
(* whose versions rotate the active key, add an older one, hold two files  *)
(* of one id, lose the active key, or carry a file that does not parse.    *)
(* The paths are ..data/a.pem, "a .pem", a.pem, b.pem and notes.txt.       *)
(***************************************************************************)
EXTENDS AuthTokens

CONSTANTS ka, kb, rsa1, rsa2, rsa3

At(k, key, content) == [kid |-> k, key |-> key, content |-> content, hidden |-> FALSE]

Absent(k) == At(k, rsa1, "absent")

\* The files "a .pem", a.pem and b.pem of a version, between the other two.
Version(a1, a2, b) ==
  <<[kid |-> ka, key |-> rsa3, content |-> "rsa", hidden |-> TRUE],
    a1, a2, b, At(kb, rsa3, "other")>>

MCDirs ==
  {Version(Absent(ka), At(ka, rsa1, "rsa"), Absent(kb)),
   Version(Absent(ka), At(ka, rsa2, "rsa"), At(kb, rsa1, "rsa")),
   Version(At(ka, rsa2, "rsa"), At(ka, rsa3, "rsa"), Absent(kb)),
   Version(Absent(ka), Absent(ka), At(kb, rsa2, "rsa")),
   Version(Absent(ka), At(ka, rsa1, "rsa"), At(kb, rsa2, "garbage"))}
==============================================================================
