----------------------------- MODULE MCUserList ------------------------------
(***************************************************************************)
(* Three users with rows of four e-mail addresses, two profiles and three  *)
(* times, whose three orders differ; integers of five bits, so that pages  *)
(* of 8 and of 11 rows overflow, the one to a negative offset and the      *)
(* other to a wrong one; at most four pages and two writes during a walk.  *)
(***************************************************************************)
EXTENDS UserList

MCRolesOf == 1 :> <<"user">> @@ 2 :> <<"admin", "user">> @@ 3 :> <<"user", "user", "admin">>

MCRows ==
  {[email |-> c[1], profile |-> c[2], createdAt |-> c[3]] : c \in
     {<<1, 1, 1>>, <<1, 2, 1>>, <<4, 1, 1>>, <<2, 1, 2>>, <<2, 2, 2>>, <<3, 1, 2>>,
      <<3, 1, 3>>, <<1, 2, 3>>, <<4, 2, 3>>}}

Ask(page, rows, order, roles, profiles) ==
  [page |-> page, rows |-> rows, order |-> order, roles |-> roles,
   profiles |-> profiles]

MCRequests ==
  {Ask(Absent, 1, <<>>, Absent, Absent),
   Ask(1, 1, <<"email", "desc">>, Absent, {1}),
   Ask(Absent, 2, <<"email">>, {"admin"}, Absent),
   Ask(Absent, Absent, <<"name">>, Absent, Absent),
   Ask(2, 1, <<"name", "asc">>, {"user"}, {2}),
   Ask(3, 8, <<"updatedAt", "desc">>, Absent, Absent),
   Ask(4, 11, <<"createdAt", "desc">>, Absent, Absent),
   Ask(0, 1, <<>>, Absent, Absent),
   Ask(6, 1, <<>>, Absent, Absent),
   Ask(1, NotANumber, <<>>, Absent, Absent),
   Ask(1, 1, <<"email", " desc">>, Absent, Absent)}
==============================================================================
