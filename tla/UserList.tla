------------------------------ MODULE UserList -------------------------------
(***************************************************************************)
(* GET /v1/users: a client walks through the pages of a listing while      *)
(* other requests insert, update and delete rows.  A page is two           *)
(* statements, the SELECT of its rows and the SELECT COUNT of its total,   *)
(* and no transaction spans them or the pages of a walk.                   *)
(*                                                                         *)
(* Names and departments are a profile; e-mail addresses, profiles and the *)
(* times of created_at are ranks, and users are numbered as they are       *)
(* inserted.  page.Page is made of integers that wrap around.              *)
(***************************************************************************)
EXTENDS Integers, FiniteSets, RoleArray

CONSTANTS
  MaxId,        \* bound: how many users are ever created
  Emails,       \* ranks of e-mail addresses
  Profiles,     \* names with departments, as ranks
  Times,        \* microseconds in which users are created, as ranks
  Rows,         \* bound: the rows that occur in the table
  RolesOf,      \* the roles a user was created with; no route changes them
  Requests,     \* the parameters of the requests a walk may begin with
  Half,         \* an int is one of -Half .. Half - 1 (2^63)
  MaxNumber,    \* the largest page number page.Parse lets through (100)
  DefaultRows,  \* rows per page without a parameter (10)
  MaxWrites,    \* bound: writes of others during one walk
  NoRow, Absent, NotANumber

\* A request: page and rows as Atoi reads them (NotANumber where it fails) or
\* Absent, order_by split at its commas, and the filters.
Request ==
  [page : Int \cup {Absent, NotANumber}, rows : Int \cup {Absent, NotANumber},
   order : Seq(STRING), roles : (SUBSET {"admin", "user"}) \cup {Absent},
   profiles : (SUBSET Profiles) \cup {Absent}]

Ids == 1 .. MaxId

Row == [email : Emails, profile : Profiles, createdAt : Times]

ASSUME ListAssumption ==
  /\ MaxId \in Nat /\ Emails \cup Profiles \cup Times \subseteq Nat
  /\ Rows \subseteq Row
  /\ Requests \subseteq Request
  /\ RolesOf \in [Ids -> Seq(ValidRoles)]
  /\ {Half, MaxNumber, DefaultRows} \subseteq Nat \ {0}
  /\ Absent \notin Int /\ NoRow \notin Row /\ Invalid \notin Seq(ValidRoles)

VARIABLES
  users,   \* the table
  nextId,  \* the next user to be created
  walk     \* the client's walk and the request it waits for

vars == <<users, nextId, walk>>

Present == {id \in Ids : users[id] # NoRow}

\* pc "asking": the next request is on its way; "counting": between its two
\* statements; "end": the last page was not full; "failed": no 200.
\* The history of a walk: seen are the users of the pages so far, steady the
\* ones that matched from the beginning; tied says whether two matching rows
\* ever had the same place in the order, moved whether the place of one changed,
\* cameAhead whether one came to match ahead of another or back behind its page,
\* leftAhead whether one ceased to match ahead of another; drift is how many
\* rows came or went between the two statements.
NoWalk ==
  [pc |-> "idle", req |-> Absent, page |-> [Number |-> 1, Rows |-> 1],
   rows |-> <<>>, total |-> 0, seen |-> <<>>, steady |-> {}, tied |-> FALSE,
   moved |-> FALSE, cameAhead |-> FALSE, leftAhead |-> FALSE, drift |-> 0, writes |-> 0]

TypeOK ==
  /\ users \in [Ids -> Row \cup {NoRow}]
  /\ nextId \in 1 .. MaxId + 1
  /\ walk.pc \in {"idle", "asking", "counting", "end", "failed"}
  /\ walk.req \in Requests \cup {Absent}
  /\ walk.page.Number \in 1 .. MaxNumber + 1 /\ walk.page.Rows >= 1
  /\ \A i \in DOMAIN walk.rows :
       walk.rows[i] \in [id : Ids, roles : Seq(ValidRoles)]
  /\ walk.total \in 0 .. Cardinality(Ids)
  /\ walk.seen \in Seq(Ids) /\ walk.steady \subseteq Ids

\* Any table the program can have made.
Init ==
  /\ nextId \in 1 .. MaxId + 1
  /\ users \in {t \in [Ids -> Rows \cup {NoRow}] :
       /\ \A id \in nextId .. MaxId : t[id] = NoRow
       /\ \A a, b \in Ids : a # b /\ NoRow \notin {t[a], t[b]} => t[a].email # t[b].email}
  /\ walk = NoWalk

(***************************************************************************)
(* The parameters of a request.                                            *)
(***************************************************************************)
\* Mutant of ParsePage: the page number is not bounded.
ParsePageUnbounded(req) ==
  LET number == IF req.page = Absent THEN 1 ELSE req.page
      rows   == IF req.rows = Absent THEN DefaultRows ELSE req.rows
  IN IF NotANumber \in {number, rows} \/ number <= 0 \/ rows <= 0 THEN Invalid
     ELSE [Number |-> number, Rows |-> rows]

\* page.Parse: only the number has an upper bound.
ParsePage(req) ==
  LET number == IF req.page = Absent THEN 1 ELSE req.page
      rows   == IF req.rows = Absent THEN DefaultRows ELSE req.rows
  IN IF \/ NotANumber \in {number, rows}
        \/ number <= 0 \/ rows <= 0 \/ number > MaxNumber
     THEN Invalid
     ELSE [Number |-> number, Rows |-> rows]

\* bus.ParseOrderBy: the name of the field is trimmed, the direction is not.
ParseOrderBy(parts) ==
  CASE parts = <<>> -> [Name |-> "createdAt", Dir |-> "asc"]
    [] /\ Len(parts) \in 1 .. 2
       /\ parts[1] \in {"name", "email", "createdAt", "updatedAt"}
       /\ Len(parts) = 2 => parts[2] \in {"asc", "desc"}
         -> [Name |-> parts[1], Dir |-> IF Len(parts) = 2 THEN parts[2] ELSE "asc"]
    [] OTHER -> Invalid

(***************************************************************************)
(* The store's two statements.                                             *)
(***************************************************************************)
\* applyFilters: the clauses of the filters that are given, joined with AND.
Matches(id, row, req) ==
  /\ req.roles # Absent => \E i \in DOMAIN RolesOf[id] : RolesOf[id][i] \in req.roles
  /\ req.profiles # Absent => row.profile \in req.profiles

Matching(table, req) == {id \in Ids : table[id] # NoRow /\ Matches(id, table[id], req)}

\* The column of orderByClause; of the four only the address is unique.  Updates
\* move updated_at about, and the model does not keep it: any order will do.
SortKey(row, field) ==
  CASE field.Name = "email"     -> row.email
    [] field.Name = "createdAt" -> row.createdAt
    [] field.Name = "name"      -> row.profile
    [] field.Name = "updatedAt" -> 0

\* Row a of a table has its place before row b.
Before(table, a, b, field) ==
  IF field.Dir = "asc" THEN SortKey(table[a], field) < SortKey(table[b], field)
  ELSE SortKey(table[b], field) < SortKey(table[a], field)

\* ORDER BY: rows with equal keys come in any order, another one every time.
Orderings(ids, field) ==
  {s \in SetToSeqs(ids) : \A i, j \in DOMAIN s : i < j => ~Before(users, s[j], s[i], field)}

Tied(table, ids, field) ==
  \E a, b \in ids : a # b /\ SortKey(table[a], field) = SortKey(table[b], field)

\* Arithmetic of signed integers.
Wrap(n) == ((n + Half) % (2 * Half)) - Half

\* Mutant of Offset: the page numbers count from zero.
OffsetFromZero(page) == Wrap(page.Number * page.Rows)

\* Mutant of Offset: consecutive pages overlap by a row.
OffsetOverlapping(page) == Wrap((page.Number - 1) * (page.Rows - 1))

Offset(page) == Wrap((page.Number - 1) * page.Rows)

\* OFFSET and FETCH NEXT: the part of an ordering that is sent.
Slice(s, offset, n) ==
  SubSeq(s, offset + 1, IF Len(s) - offset < n THEN Len(s) ELSE offset + n)

\* The rows as they come back, each with its roles scanned.
Scanned(ids, quoted) ==
  [i \in DOMAIN ids |->
     [id |-> ids[i],
      roles |-> ParsePostgresArray(PostgresForm(Value(RolesOf[ids[i]]), quoted))]]

(***************************************************************************)
(* handler.Query, in two actions around the gap between the statements.    *)
(***************************************************************************)
Fail == walk' = [walk EXCEPT !.pc = "failed", !.rows = <<>>]

\* The client asks for a first page; what it sees afterwards counts as its walk.
Begin ==
  /\ walk.pc = "idle"
  /\ \E q \in Requests :
       LET ids == Matching(users, q)
           field == ParseOrderBy(q.order)
       IN walk' = [NoWalk EXCEPT
                     !.pc = "asking", !.req = q, !.steady = ids,
                     !.tied = field # Invalid /\ Tied(users, ids, field)]
  /\ UNCHANGED <<users, nextId>>

\* The parameters of the page the walk is at.
Parameters == IF walk.seen = <<>> THEN walk.req
              ELSE [walk.req EXCEPT !.page = walk.page.Number]

ListQuery ==
  /\ walk.pc = "asking"
  /\ LET page  == ParsePage(Parameters)
         field == ParseOrderBy(walk.req.order)
     IN IF Invalid \in {page, field} THEN Fail              \* 400
        ELSE \/ Fail                                        \* 500
             \/ /\ Offset(page) >= 0
                /\ \E s \in Orderings(Matching(users, walk.req), field) :
                   \E quoted \in BOOLEAN :
                     LET rows == Scanned(Slice(s, Offset(page), page.Rows), quoted)
                     IN IF \E i \in DOMAIN rows : rows[i].roles = Invalid
                        THEN walk' = [walk EXCEPT !.pc = "failed", !.rows = rows]
                        ELSE walk' = [walk EXCEPT !.pc = "counting", !.page = page,
                                                  !.rows = rows, !.drift = 0]
  /\ UNCHANGED <<users, nextId>>

\* Mutant of CountStatement: the filters are not applied to the total.
CountUnfiltered(req) == Cardinality(Present)

CountStatement(req) == Cardinality(Matching(users, req))

\* The total is counted and the page answered.  A full page makes the client
\* ask for the next one.
ListCount ==
  /\ walk.pc = "counting"
  /\ \/ Fail
     \/ walk' = [walk EXCEPT
          !.total = CountStatement(walk.req),
          !.seen = @ \o [i \in DOMAIN walk.rows |-> walk.rows[i].id],
          !.pc = IF Len(walk.rows) < walk.page.Rows THEN "end" ELSE "asking",
          !.page.Number = IF Len(walk.rows) < walk.page.Rows THEN @ ELSE @ + 1]
  /\ UNCHANGED <<users, nextId>>

(***************************************************************************)
(* Writes of other requests: what UserHandlers does to the table.          *)
(***************************************************************************)
Shown == ToSet(walk.seen) \cup {walk.rows[i].id : i \in DOMAIN walk.rows}

\* The effect of the new table on the history of the walk.  The writes before
\* and behind it are in Init, which knows every table.
Observe ==
  LET was   == Matching(users, walk.req)
      is    == Matching(users', walk.req)
      field == ParseOrderBy(walk.req.order)
      valid == field # Invalid
  IN /\ walk.pc \in {"asking", "counting"} /\ walk.writes < MaxWrites
     /\ walk' = [walk EXCEPT
          !.writes = @ + 1,
          !.steady = @ \cap is,
          !.tied = @ \/ (valid /\ Tied(users', is, field)),
          !.moved = @ \/ (valid /\ \E id \in was \cap is :
                        SortKey(users'[id], field) # SortKey(users[id], field)),
          !.cameAhead = @ \/ (valid /\ \E id \in is \ was :
                        id \in Shown \/ \E b \in is : Before(users', id, b, field)),
          !.leftAhead = @ \/ (valid /\ \E id \in was \ is :
                        \E b \in was : Before(users, id, b, field)),
          !.drift = IF walk.pc = "counting"
                    THEN @ + Cardinality(SymDiff(was, is)) ELSE @]

FreeEmails == Emails \ {users[id].email : id \in Present}

\* bus.Create takes the time, in whole microseconds, before the INSERT: users
\* created at once can have the same, and they can be inserted out of order.
Insert ==
  /\ nextId <= MaxId
  /\ \E row \in Rows :
       /\ row.email \in FreeEmails
       /\ users' = [users EXCEPT ![nextId] = row]
  /\ nextId' = nextId + 1
  /\ Observe

\* The UPDATE writes the address and the profile, never created_at.
Update ==
  /\ \E id \in Present, row \in Rows :
       /\ row.email \in FreeEmails \cup {users[id].email}
       /\ row.createdAt = users[id].createdAt
       /\ row # users[id]
       /\ users' = [users EXCEPT ![id] = row]
  /\ UNCHANGED nextId
  /\ Observe

Delete ==
  /\ \E id \in Present : users' = [users EXCEPT ![id] = NoRow]
  /\ UNCHANGED nextId
  /\ Observe

Finished == walk.pc \in {"end", "failed"} /\ UNCHANGED vars

Next ==
  \/ Begin \/ ListQuery \/ ListCount \/ Finished
  \/ Insert \/ Update \/ Delete

Spec == Init /\ [][Next]_vars

(***************************************************************************)
(* Properties.                                                             *)
(***************************************************************************)
Order == ParseOrderBy(walk.req.order)

\* No page of so many rows makes Offset overflow.
Fits(rows) == rows * (MaxNumber - 1) < Half

FromTheStart == walk.req.page \in {Absent, 1} /\ Fits(walk.page.Rows)

\* Page after page over a table that changes: a walk to the end shows every row
\* that matched all along, however many came, as long as no row left the listing
\* ahead of another, none moved and no two were tied.  The default order is by
\* created_at, whose microseconds do tie.
WalkMissesNothing ==
  walk.pc = "end" /\ FromTheStart /\ ~walk.tied /\ ~walk.moved /\ ~walk.leftAhead
    => walk.steady \subseteq ToSet(walk.seen)

\* No row is shown twice, however many left, as long as no row came into the
\* listing ahead of another or came back to it, none moved and no two were tied.
\* Two creations that are inserted in the other order than their created_at put
\* a new row ahead of an old one even in the default order.
WalkRepeatsNothing ==
  walk.seen # <<>> /\ FromTheStart /\ ~walk.tied /\ ~walk.moved /\ ~walk.cameAhead
    => IsInjective(walk.seen)

\* The total is counted by a second statement: on the last page it differs from
\* the rows shown and skipped by no more than came and went in between.
TotalWithinDrift ==
  walk.pc = "end" /\ Fits(walk.page.Rows) =>
    LET shown == Offset(walk.page) + Len(walk.rows)
    IN /\ walk.total <= shown + walk.drift
       /\ walk.rows # <<>> => walk.total >= shown - walk.drift

\* Roles come out of the column as they went in, quoted by PostgreSQL or not,
\* in their order and as often as they were given.
RolesSurvive ==
  \A i \in DOMAIN walk.rows : walk.rows[i].roles = RolesOf[walk.rows[i].id]

Precedes(a, b) == Before(users, a, b, Order)

InPlace ==
  walk.pc = "asking" /\ walk'.pc = "counting" /\ Fits(walk'.page.Rows) =>
    LET ids == Matching(users, walk.req)
    IN \A i \in DOMAIN walk'.rows :
         LET id    == walk'.rows[i].id
             place == (walk'.page.Number - 1) * walk'.page.Rows + i
         IN /\ Cardinality({b \in ids : Precedes(b, id)}) < place
            /\ place <= Cardinality({b \in ids : ~Precedes(id, b)})

\* The rows per page are not bounded and the offset is a product: as long as it
\* cannot overflow, row i of page n has exactly the place it is asked for in
\* the order, up to ties.
PageInPlace == [][InPlace]_vars
==============================================================================
