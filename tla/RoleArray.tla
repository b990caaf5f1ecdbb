------------------------------ MODULE RoleArray ------------------------------
(***************************************************************************)
(* bus/roles.go: roles on their way into and out of a TEXT[] column.  The  *)
(* literal of an array is a sequence of tokens: braces, commas, quotes and *)
(* words.  A parse yields a sequence of roles, or Invalid.                 *)
(***************************************************************************)
EXTENDS Integers, Sequences, FiniteSets, FiniteSetsExt, SequencesExt

CONSTANT Invalid   \* an error in place of a sequence of roles

\* What newRole registers.
ValidRoles == {"admin", "user"}

Quote == "quote"

\* RoleSlice.Value: the roles between braces, with commas and without quotes.
Value(roles) ==
  <<"open">> \o [i \in 1 .. 2 * Len(roles) - 1 |->
                  IF i % 2 = 0 THEN "comma" ELSE roles[(i + 1) \div 2]] \o <<"close">>

\* What PostgreSQL sends back for a stored literal: its words quoted or not.
Quoted(literal) ==
  FlattenSeq([i \in DOMAIN literal |->
                IF literal[i] \in {"open", "close", "comma"} THEN <<literal[i]>>
                ELSE <<Quote, literal[i], Quote>>])

PostgresForm(literal, quoted) == IF quoted THEN Quoted(literal) ELSE literal

\* strings.Trim: the tokens of a cut set fall off at both ends.
Trim(s, cutset) ==
  LET kept == {i \in DOMAIN s : s[i] \notin cutset}
  IN IF kept = {} THEN <<>> ELSE SubSeq(s, Min(kept), Max(kept))

\* strings.Split at the commas.
Split(s) ==
  LET cuts   == {0, Len(s) + 1} \cup {i \in DOMAIN s : s[i] = "comma"}
      Cut(k) == CHOOSE c \in cuts : Cardinality({d \in cuts : d < c}) = k
  IN [k \in 1 .. Cardinality(cuts) - 1 |-> SubSeq(s, Cut(k - 1) + 1, Cut(k) - 1)]

\* parseRole over all elements, as in ParseManyRoles: one invalid element makes
\* the whole list invalid.
ParseManyRoles(elems) ==
  IF \A i \in DOMAIN elems : \E role \in ValidRoles : elems[i] = <<role>>
  THEN [i \in DOMAIN elems |-> elems[i][1]]
  ELSE Invalid

\* Mutant of ParsePostgresArray: the quotes stay.
ParseUnquoted(literal) ==
  LET s == Trim(literal, {"open", "close"})
  IN IF s = <<>> THEN <<>> ELSE ParseManyRoles(Split(s))

\* RoleSlice.Scan of a string or of bytes.
ParsePostgresArray(literal) ==
  LET s == Trim(literal, {"open", "close"})
  IN IF s = <<>> THEN <<>>
     ELSE ParseManyRoles([i \in DOMAIN Split(s) |-> Trim(Split(s)[i], {Quote})])
==============================================================================
