---------------------------- MODULE UserListProofs ----------------------------
(***************************************************************************)
(* Proofs about the listing of users, for any table, any number of pages   *)
(* and writes, and any lists of roles.                                     *)
(***************************************************************************)
EXTENDS UserList, FiniteSetTheorems, SequenceTheorems, TLAPS

------------------------------------------------------------------------------
(***************************************************************************)
(* Roles on their way through a TEXT[] column.                             *)
(***************************************************************************)
\* Induction, as the absence of a least counterexample.
LEMMA LeastNat ==
  ASSUME NEW T \in SUBSET Nat, T # {}
  PROVE  \E n \in T : \A m \in T : n <= m
<1> DEFINE R == {ss \in Nat \X Nat : ss[1] < ss[2]}
<1>1. IsWellFoundedOn(R, Nat)
  BY NatLessThanWellFounded, Zenon DEF OpToRel
<1> HIDE DEF R
<1>2. PICK x \in T : \A y \in T : ~ (<<y, x>> \in R)
  BY <1>1, WFMin
<1>3. ASSUME NEW y \in T PROVE x <= y
  <2>1. x \in Nat /\ y \in Nat
    OBVIOUS
  <2>2. <<y, x>> \notin R
    BY <1>2
  <2>3. ~(y < x)
    BY <2>1, <2>2 DEF R
  <2>4. QED
    BY <2>1, <2>3
<1>4. QED
  BY <1>3

\* A sequence with one token of the cut set at each end.
LEMMA TrimEnds ==
  ASSUME NEW s, NEW cutset, NEW n \in Nat, n >= 3, DOMAIN s = 1 .. n,
         s[1] \in cutset, s[n] \in cutset, s[2] \notin cutset, s[n - 1] \notin cutset
  PROVE  Trim(s, cutset) = SubSeq(s, 2, n - 1)
<1> DEFINE kept == {i \in DOMAIN s : s[i] \notin cutset}
<1>1. 2 \in kept /\ n - 1 \in kept /\ \A i \in kept : i \in Nat /\ 2 <= i /\ i <= n - 1
  OBVIOUS
<1>2. Min(kept) = 2
  <2>1. \E x \in kept : \A y \in kept : x =< y
    BY <1>1
  <2>2. Min(kept) \in kept /\ \A y \in kept : Min(kept) =< y
    BY <2>1 DEF Min
  <2>3. PICK m : m = Min(kept)
    OBVIOUS
  <2>4. m \in kept /\ m =< 2
    BY <1>1, <2>2, <2>3
  <2>5. QED
    BY <1>1, <2>3, <2>4
<1>3. Max(kept) = n - 1
  <2>1. \E x \in kept : \A y \in kept : x >= y
    BY <1>1
  <2>2. Max(kept) \in kept /\ \A y \in kept : Max(kept) >= y
    BY <2>1 DEF Max
  <2>3. PICK m : m = Max(kept)
    OBVIOUS
  <2>4. m \in kept /\ m >= n - 1
    BY <1>1, <2>2, <2>3
  <2>5. QED
    BY <1>1, <2>3, <2>4
<1>4. kept # {}
  BY <1>1
<1>5. QED
  BY <1>2, <1>3, <1>4 DEF Trim

LEMMA TrimOne == ASSUME NEW w, NEW cutset, w \notin cutset PROVE Trim(<<w>>, cutset) = <<w>>
<1> DEFINE kept == {i \in DOMAIN <<w>> : <<w>>[i] \notin cutset}
<1>1. kept = {1}
  OBVIOUS
<1>2. Min(kept) = 1 /\ Max(kept) = 1
  BY <1>1 DEF Min, Max
<1>3. SubSeq(<<w>>, 1, 1) = <<w>>
  <2>1. <<w>> \in Seq({w}) /\ Len(<<w>>) = 1
    OBVIOUS
  <2>2. SubSeq(<<w>>, 1, Len(<<w>>)) = <<w>>
    BY <2>1, SubSeqFull
  <2>3. QED
    BY <2>1, <2>2
<1>4. QED
  BY <1>1, <1>2, <1>3 DEF Trim

\* Strings.Split cuts at the commas, in their order.
LEMMA SplitAt ==
  ASSUME NEW s, Len(s) \in Nat, DOMAIN s = 1 .. Len(s),
         NEW n \in Nat \ {0}, NEW c \in [0 .. n -> Nat],
         c[0] = 0, c[n] = Len(s) + 1,
         \A i, j \in 0 .. n : i < j => c[i] < c[j],
         {i \in DOMAIN s : s[i] = "comma"} = {c[j] : j \in 1 .. n - 1}
  PROVE  Split(s) = [k \in 1 .. n |-> SubSeq(s, c[k - 1] + 1, c[k] - 1)]
<1> DEFINE cuts   == {0, Len(s) + 1} \cup {i \in DOMAIN s : s[i] = "comma"}
           Cut(k) == CHOOSE x \in cuts : Cardinality({d \in cuts : d < x}) = k
<1>1. cuts = {c[j] : j \in 0 .. n}
  <2>1. ASSUME NEW x \in cuts PROVE \E j \in 0 .. n : x = c[j]
    OBVIOUS
  <2>2. ASSUME NEW j \in 0 .. n PROVE c[j] \in cuts
    <3>1. j = 0 \/ j = n \/ j \in 1 .. n - 1
      OBVIOUS
    <3>2. QED
      BY <3>1
  <2>3. QED
    BY <2>1, <2>2
<1>2. ASSUME NEW k \in 0 .. n + 1
      PROVE  Cardinality({c[j] : j \in 0 .. k - 1}) = k
  <2> DEFINE S == {c[j] : j \in 0 .. k - 1}
             g == [i \in 1 .. k |-> c[i - 1]]
  <2>1. \A i \in 1 .. k : i - 1 \in 0 .. n /\ i - 1 \in 0 .. k - 1 /\ g[i] = c[i - 1]
    OBVIOUS
  <2>2. g \in [1 .. k -> S]
    BY <2>1
  <2>3. \A a, b \in 1 .. k : g[a] = g[b] => a = b
    <3>1. SUFFICES ASSUME NEW a \in 1 .. k, NEW b \in 1 .. k, a < b PROVE g[a] # g[b]
      OBVIOUS
    <3>2. c[a - 1] < c[b - 1] /\ c[a - 1] \in Nat /\ c[b - 1] \in Nat
      BY <2>1, <3>1
    <3>3. QED
      BY <2>1, <3>2
  <2>4. \A x \in S : \E i \in 1 .. k : g[i] = x
    <3>1. SUFFICES ASSUME NEW j \in 0 .. k - 1 PROVE \E i \in 1 .. k : g[i] = c[j]
      OBVIOUS
    <3>2. j + 1 \in 1 .. k /\ (j + 1) - 1 = j
      OBVIOUS
    <3>3. QED
      BY <3>2
  <2>5. g \in Bijection(1 .. k, S)
    BY <2>2, <2>3, <2>4 DEF Bijection, Injection, Surjection, IsInjective
  <2>6. QED
    BY <2>5, FS_CountingElements DEF ExistsBijection
<1>3. Cardinality(cuts) = n + 1
  BY <1>1, <1>2, SMTT(30)
<1>4. ASSUME NEW k \in 0 .. n PROVE Cardinality({d \in cuts : d < c[k]}) = k
  <2>1. {d \in cuts : d < c[k]} = {c[j] : j \in 0 .. k - 1}
    <3>1. ASSUME NEW j \in 0 .. n PROVE c[j] < c[k] <=> j \in 0 .. k - 1
      <4>1. j < k \/ j = k \/ k < j
        OBVIOUS
      <4>2. c[j] \in Nat /\ c[k] \in Nat
        OBVIOUS
      <4>3. QED
        BY <4>1, <4>2
    <3>2. QED
      BY <1>1, <3>1
  <2>2. QED
    BY <1>2, <2>1, SMTT(30)
<1>5. ASSUME NEW k \in 0 .. n PROVE Cut(k) = c[k]
  <2>1. c[k] \in cuts /\ Cardinality({d \in cuts : d < c[k]}) = k
    BY <1>1, <1>4
  <2>2. Cut(k) \in cuts /\ Cardinality({d \in cuts : d < Cut(k)}) = k
    BY <2>1
  <2>3. PICK j \in 0 .. n : Cut(k) = c[j]
    BY <1>1, <2>2
  <2>4. j = k
    BY <1>4, <2>2, <2>3, ZenonT(60)
  <2>5. QED
    BY <2>3, <2>4
<1> HIDE DEF cuts, Cut
<1>6. Split(s) = [k \in 1 .. Cardinality(cuts) - 1 |-> SubSeq(s, Cut(k - 1) + 1, Cut(k) - 1)]
  BY DEF Split, cuts, Cut
<1>7. Cardinality(cuts) - 1 = n
  BY <1>3
<1>8. ASSUME NEW k \in 1 .. n PROVE Cut(k - 1) = c[k - 1] /\ Cut(k) = c[k]
  BY <1>5
<1>9. QED
  BY <1>6, <1>7, <1>8

Tokens == ValidRoles \cup {"open", "close", "comma", Quote}

LEMMA ValueShape ==
  ASSUME NEW roles \in Seq(ValidRoles), NEW n \in Nat, n # 0, n = Len(roles),
         NEW lit, lit = Value(roles)
  PROVE  /\ lit \in Seq(Tokens) /\ Len(lit) = 2 * n + 1
         /\ lit[1] = "open" /\ lit[2 * n + 1] = "close"
         /\ \A j \in 1 .. n : lit[2 * j] = roles[j]
         /\ \A j \in 1 .. n - 1 : lit[2 * j + 1] = "comma"
<1>1. PICK mid : mid = [i \in 1 .. 2 * n - 1 |->
                          IF i % 2 = 0 THEN "comma" ELSE roles[(i + 1) \div 2]]
  OBVIOUS
<1>2. ASSUME NEW i \in 1 .. 2 * n - 1 PROVE mid[i] \in Tokens
  <2>1. CASE i % 2 = 0
    BY <1>1, <2>1 DEF Tokens
  <2>2. CASE i % 2 # 0
    <3>1. (i + 1) \div 2 \in 1 .. n
      OBVIOUS
    <3>2. roles[(i + 1) \div 2] \in ValidRoles
      BY <3>1
    <3>3. QED
      BY <1>1, <2>2, <3>2 DEF Tokens
  <2>3. QED
    BY <2>1, <2>2
<1>3. mid \in Seq(Tokens) /\ Len(mid) = 2 * n - 1
  BY <1>1, <1>2
<1>4. <<"open">> \in Seq(Tokens) /\ <<"close">> \in Seq(Tokens)
  BY DEF Tokens
<1>5. lit = <<"open">> \o mid \o <<"close">>
  BY <1>1 DEF Value
<1>6. PICK front : front = <<"open">> \o mid
  OBVIOUS
<1>7. /\ front \in Seq(Tokens) /\ Len(front) = 2 * n /\ front[1] = "open"
      /\ \A i \in 2 .. 2 * n : front[i] = mid[i - 1]
  <2>1. /\ front \in Seq(Tokens) /\ Len(front) = Len(<<"open">>) + Len(mid)
        /\ \A i \in 1 .. Len(<<"open">>) + Len(mid) : front[i] =
             IF i <= Len(<<"open">>) THEN <<"open">>[i] ELSE mid[i - Len(<<"open">>)]
    BY <1>3, <1>4, <1>6, ConcatProperties
  <2>2. Len(<<"open">>) = 1 /\ <<"open">>[1] = "open"
    OBVIOUS
  <2>3. QED
    BY <1>3, <2>1, <2>2
<1>8. /\ lit \in Seq(Tokens) /\ Len(lit) = 2 * n + 1 /\ lit[2 * n + 1] = "close"
      /\ \A i \in 1 .. 2 * n : lit[i] = front[i]
  <2>1. /\ lit \in Seq(Tokens) /\ Len(lit) = Len(front) + Len(<<"close">>)
        /\ \A i \in 1 .. Len(front) + Len(<<"close">>) : lit[i] =
             IF i <= Len(front) THEN front[i] ELSE <<"close">>[i - Len(front)]
    BY <1>4, <1>5, <1>6, <1>7, ConcatProperties
  <2>2. Len(<<"close">>) = 1 /\ <<"close">>[1] = "close"
    OBVIOUS
  <2>3. \A i \in 1 .. 2 * n + 1 : lit[i] = IF i <= 2 * n THEN front[i] ELSE <<"close">>[i - 2 * n]
    BY <1>7, <2>1, <2>2
  <2>4. 2 * n + 1 \in 1 .. 2 * n + 1 /\ ~(2 * n + 1 <= 2 * n) /\ (2 * n + 1) - 2 * n = 1
    OBVIOUS
  <2>5. lit[2 * n + 1] = "close"
    BY <2>2, <2>3, <2>4
  <2>6. QED
    BY <1>7, <2>1, <2>2, <2>3, <2>5
<1>9. ASSUME NEW j \in 1 .. n PROVE lit[2 * j] = roles[j]
  <2>1. 2 * j \in 2 .. 2 * n /\ 2 * j - 1 \in 1 .. 2 * n - 1
    OBVIOUS
  <2>2. (2 * j - 1) % 2 # 0 /\ ((2 * j - 1) + 1) \div 2 = j
    OBVIOUS
  <2>3. lit[2 * j] = mid[2 * j - 1]
    BY <1>7, <1>8, <2>1
  <2>4. mid[2 * j - 1] = roles[((2 * j - 1) + 1) \div 2]
    BY <1>1, <2>1, <2>2
  <2>5. QED
    BY <2>2, <2>3, <2>4
<1>10. ASSUME NEW j \in 1 .. n - 1 PROVE lit[2 * j + 1] = "comma"
  <2>1. 2 * j + 1 \in 2 .. 2 * n /\ 2 * j \in 1 .. 2 * n - 1 /\ (2 * j + 1) - 1 = 2 * j
    OBVIOUS
  <2>2. (2 * j) % 2 = 0
    OBVIOUS
  <2>3. lit[2 * j + 1] = mid[2 * j]
    BY <1>7, <1>8, <2>1
  <2>4. QED
    BY <1>1, <2>1, <2>2, <2>3
<1>11. QED
  BY <1>7, <1>8, <1>9, <1>10

\* FlattenSeq computes the one function that satisfies its equation.
LEMMA Flattened ==
  ASSUME NEW seqs, NEW n \in Nat, n # 0, n = Len(seqs), NEW S, NEW w \in [1 .. n -> S],
         \A i \in 1 .. n : w[i] = IF i = 1 THEN seqs[i] ELSE w[i - 1] \o seqs[i]
  PROVE  FlattenSeq(seqs) = w[n]
<1> w = [i \in 1 .. n |-> IF i = 1 THEN seqs[i] ELSE w[i - 1] \o seqs[i]]
  BY Zenon
<1>1. PICK g : /\ g = [i \in 1 .. n |-> IF i = 1 THEN seqs[i] ELSE g[i - 1] \o seqs[i]]
               /\ FlattenSeq(seqs) = g[n]
  <2> DEFINE Chosen == CHOOSE g : g = [i \in 1 .. Len(seqs) |->
                                         IF i = 1 THEN seqs[i] ELSE g[i - 1] \o seqs[i]]
  <2>1. w = [i \in 1 .. Len(seqs) |-> IF i = 1 THEN seqs[i] ELSE w[i - 1] \o seqs[i]]
    BY Zenon
  <2>2. Chosen = [i \in 1 .. Len(seqs) |->
                    IF i = 1 THEN seqs[i] ELSE Chosen[i - 1] \o seqs[i]]
    BY <2>1, Zenon
  <2>3. FlattenSeq(seqs) = IF Len(seqs) = 0 THEN seqs ELSE Chosen[Len(seqs)]
    BY Zenon DEF FlattenSeq
  <2>4. PICK g : g = Chosen
    OBVIOUS
  <2>5. g = [i \in 1 .. Len(seqs) |-> IF i = 1 THEN seqs[i] ELSE g[i - 1] \o seqs[i]]
    BY <2>2, <2>4, Zenon
  <2>6. g = [i \in 1 .. n |-> IF i = 1 THEN seqs[i] ELSE g[i - 1] \o seqs[i]]
    BY <2>5, Zenon
  <2>7. FlattenSeq(seqs) = g[n]
    BY <2>3, <2>4, Zenon
  <2>8. QED
    BY <2>6, <2>7, Zenon
<1>2. ASSUME NEW i \in 1 .. n, i # 1 PROVE g[i] = g[i - 1] \o seqs[i] /\ w[i] = w[i - 1] \o seqs[i]
  BY <1>1, <1>2
<1>3. g[1] = w[1]
  BY <1>1
<1>4. ASSUME {i \in 1 .. n : g[i] # w[i]} # {} PROVE FALSE
  <2>1. PICK i \in {k \in 1 .. n : g[k] # w[k]} : \A m \in {k \in 1 .. n : g[k] # w[k]} : i <= m
    <3>1. {k \in 1 .. n : g[k] # w[k]} \in SUBSET Nat
      OBVIOUS
    <3>2. QED
      BY <1>4, <3>1, LeastNat
  <2>2. i # 1
    BY <1>3, <2>1
  <2>3. i - 1 \in 1 .. n /\ ~(i <= i - 1)
    BY <2>1, <2>2
  <2>4. g[i - 1] = w[i - 1]
    BY <2>1, <2>3
  <2>5. i \in 1 .. n
    OBVIOUS
  <2>6. g[i] = g[i - 1] \o seqs[i] /\ w[i] = w[i - 1] \o seqs[i]
    BY <1>2, <2>2, <2>5, Zenon
  <2>7. g[i] = w[i]
    BY <2>4, <2>6, Zenon
  <2>8. QED
    BY <2>7
<1>5. n \in 1 .. n
  OBVIOUS
<1>6. g[n] = w[n]
  BY <1>4, <1>5, Zenon
<1>7. QED
  BY <1>1, <1>6, Zenon

\* A literal with its words quoted: behind every token but the last, and before
\* every token but the first, a quote has its place.
LEMMA QuotedShape ==
  ASSUME NEW roles \in Seq(ValidRoles), NEW n \in Nat, n # 0, n = Len(roles),
         NEW lit, lit = Value(roles), NEW sent, sent = Quoted(lit)
  PROVE  /\ sent \in Seq(Tokens) /\ Len(sent) = 4 * n + 1
         /\ \A j \in 1 .. 2 * n : sent[2 * j] = Quote
         /\ \A j \in 1 .. 2 * n + 1 : sent[2 * j - 1] = lit[j]
<1> DEFINE N == 2 * n + 1
<1>1. /\ lit \in Seq(Tokens) /\ Len(lit) = N /\ DOMAIN lit = 1 .. N
      /\ lit[1] = "open" /\ lit[N] = "close"
      /\ \A j \in 1 .. n : lit[2 * j] = roles[j]
      /\ \A j \in 1 .. n - 1 : lit[2 * j + 1] = "comma"
  <2>1. /\ lit \in Seq(Tokens) /\ Len(lit) = N
        /\ lit[1] = "open" /\ lit[N] = "close"
        /\ \A j \in 1 .. n : lit[2 * j] = roles[j]
        /\ \A j \in 1 .. n - 1 : lit[2 * j + 1] = "comma"
    BY ValueShape, SMTT(60)
  <2>2. DOMAIN lit = 1 .. N
    BY <2>1, SMTT(30)
  <2>3. QED
    BY <2>1, <2>2, ZenonT(30)
<1>2. PICK seqs : seqs = [i \in DOMAIN lit |->
                            IF lit[i] \in {"open", "close", "comma"} THEN <<lit[i]>>
                            ELSE <<Quote, lit[i], Quote>>]
  OBVIOUS
<1>3. ASSUME NEW i \in 1 .. N
      PROVE  /\ i % 2 = 0 => seqs[i] = <<Quote, lit[i], Quote>>
             /\ i % 2 # 0 => seqs[i] = <<lit[i]>>
             /\ lit[i] \in Tokens
  <2>1. CASE i % 2 = 0
    <3>1. PICK j \in 1 .. n : i = 2 * j
      BY <2>1
    <3>2. lit[i] \in ValidRoles
      BY <1>1, <3>1
    <3>3. QED
      BY <1>1, <1>2, <2>1, <3>2 DEF ValidRoles, Tokens
  <2>2. CASE i % 2 # 0
    <3>1. i = 1 \/ i = N \/ \E j \in 1 .. n - 1 : i = 2 * j + 1
      <4>1. PICK j \in Nat : i = 2 * j + 1
        <5>1. (i - 1) \div 2 \in Nat /\ i = 2 * ((i - 1) \div 2) + 1
          BY <2>2
        <5>2. QED
          BY <5>1
      <4>2. QED
        BY <4>1, SMTT(30)
    <3>2. lit[i] \in {"open", "close", "comma"}
      BY <1>1, <3>1
    <3>3. QED
      BY <1>1, <1>2, <2>2, <3>2 DEF Tokens
  <2>3. QED
    BY <2>1, <2>2
<1>4. seqs \in Seq(Seq(Tokens)) /\ Len(seqs) = N
  <2>1. ASSUME NEW i \in 1 .. N PROVE seqs[i] \in Seq(Tokens)
    <3>1. PICK t \in Tokens : t = lit[i]
      BY <1>3
    <3>2. <<t>> \in Seq(Tokens) /\ <<Quote, t, Quote>> \in Seq(Tokens)
      BY DEF Tokens
    <3>3. QED
      BY <1>3, <3>1, <3>2
  <2>2. QED
    BY <1>1, <1>2, <2>1
<1>5. PICK Width \in [1 .. N -> Nat] :
        \A i \in 1 .. N : Width[i] = IF i % 2 = 0 THEN 2 * i ELSE 2 * i - 1
  <2>1. \A i \in 1 .. N : (IF i % 2 = 0 THEN 2 * i ELSE 2 * i - 1) \in Nat
    OBVIOUS
  <2>2. [i \in 1 .. N |-> IF i % 2 = 0 THEN 2 * i ELSE 2 * i - 1] \in [1 .. N -> Nat]
    BY <2>1
  <2>3. QED
    BY <2>2
<1>6. PICK all \in [1 .. 2 * N - 1 -> Tokens] :
        /\ \A j \in 1 .. N - 1 : all[2 * j] = Quote
        /\ \A j \in 1 .. N : all[2 * j - 1] = lit[j]
  <2> DEFINE all == [i \in 1 .. 2 * N - 1 |-> IF i % 2 = 0 THEN Quote ELSE lit[(i + 1) \div 2]]
  <2>1. ASSUME NEW i \in 1 .. 2 * N - 1 PROVE all[i] \in Tokens
    <3>1. CASE i % 2 = 0
      BY <3>1 DEF Tokens
    <3>2. CASE i % 2 # 0
      <4>1. (i + 1) \div 2 \in 1 .. N
        OBVIOUS
      <4>2. QED
        BY <1>3, <3>2, <4>1
    <3>3. QED
      BY <3>1, <3>2
  <2>2. ASSUME NEW j \in 1 .. N - 1 PROVE all[2 * j] = Quote
    <3>1. 2 * j \in 1 .. 2 * N - 1 /\ (2 * j) % 2 = 0
      OBVIOUS
    <3>2. QED
      BY <3>1
  <2>3. ASSUME NEW j \in 1 .. N PROVE all[2 * j - 1] = lit[j]
    <3>1. 2 * j - 1 \in 1 .. 2 * N - 1 /\ (2 * j - 1) % 2 # 0 /\ ((2 * j - 1) + 1) \div 2 = j
      OBVIOUS
    <3>2. QED
      BY <3>1
  <2>4. all \in [1 .. 2 * N - 1 -> Tokens]
    BY <2>1
  <2> HIDE DEF all
  <2>5. QED
    BY <2>2, <2>3, <2>4
<1>7. N \in Nat /\ N >= 3 /\ N % 2 # 0
  OBVIOUS
<1>8. 2 * N - 1 = 4 * n + 1 /\ N - 1 = 2 * n
  OBVIOUS
<1> HIDE DEF N
<1>9. PICK w : \A i \in 1 .. N : w[i] = [k \in 1 .. Width[i] |-> all[k]]
  <2> DEFINE v == [i \in 1 .. N |-> [k \in 1 .. Width[i] |-> all[k]]]
  <2>1. \A i \in 1 .. N : v[i] = [k \in 1 .. Width[i] |-> all[k]]
    BY Zenon
  <2>2. QED
    BY <2>1, Zenon
<1>10. ASSUME NEW i \in 1 .. N
       PROVE  /\ w[i] \in Seq(Tokens) /\ Len(w[i]) = Width[i]
              /\ \A k \in 1 .. Width[i] : w[i][k] = all[k]
  <2>1. Width[i] \in Nat /\ Width[i] <= 2 * N - 1
    <3>1. Width[i] \in Nat
      BY <1>5
    <3>2. Width[i] = IF i % 2 = 0 THEN 2 * i ELSE 2 * i - 1
      BY <1>5
    <3>3. i \in Nat /\ i <= N /\ (i % 2 = 0 => i # N)
      BY <1>7
    <3>4. CASE i % 2 = 0
      BY <1>7, <3>1, <3>2, <3>3, <3>4, SMTT(30)
    <3>5. CASE i % 2 # 0
      BY <1>7, <3>1, <3>2, <3>3, <3>5, SMTT(30)
    <3>6. QED
      BY <3>4, <3>5
  <2>2. \A k \in 1 .. Width[i] : all[k] \in Tokens
    BY <1>6, <1>7, <2>1, SMTT(30)
  <2>3. PICK h : h = [k \in 1 .. Width[i] |-> all[k]]
    OBVIOUS
  <2>4. h \in Seq(Tokens) /\ Len(h) = Width[i] /\ \A k \in 1 .. Width[i] : h[k] = all[k]
    BY <2>1, <2>2, <2>3
  <2>5. w[i] = h
    BY <1>9, <2>3
  <2>6. QED
    BY <2>4, <2>5
<1>11. w[1] = seqs[1]
  <2>1. 1 \in 1 .. N /\ 1 % 2 # 0 /\ 2 * 1 - 1 = 1
    BY <1>7
  <2>2. Width[1] = 1 /\ all[1] = lit[1] /\ seqs[1] = <<lit[1]>> /\ lit[1] \in Tokens
    BY <1>3, <1>5, <1>6, <2>1
  <2>3. PICK h \in Seq(Tokens) : /\ h = w[1] /\ Len(h) = Width[1]
                                 /\ \A k \in 1 .. Width[1] : h[k] = all[k]
    BY <1>10, <2>1
  <2>4. Len(h) = 1 /\ h[1] = lit[1]
    BY <2>2, <2>3
  <2>5. h = <<lit[1]>>
    BY <2>3, <2>4
  <2>6. QED
    BY <2>2, <2>3, <2>5
<1>12. ASSUME NEW i \in 1 .. N, i # 1 PROVE w[i] = w[i - 1] \o seqs[i]
  <2>1. i - 1 \in 1 .. N /\ i \in Nat /\ 2 * i - 1 \in Nat
    BY <1>7, <1>12
  <2>2. PICK a \in Nat : a = Width[i - 1]
    BY <1>5, <2>1
  <2>3. PICK f \in Seq(Tokens) : f = w[i - 1]
    BY <1>10, <2>1
  <2>4. Len(f) = a /\ \A k \in 1 .. a : f[k] = all[k]
    BY <1>10, <2>1, <2>2, <2>3
  <2>5. /\ seqs[i] \in Seq(Tokens) /\ Len(seqs[i]) \in Nat /\ Width[i] = a + Len(seqs[i])
        /\ \A k \in 1 .. Len(seqs[i]) : all[a + k] = seqs[i][k]
    <3>1. CASE i % 2 = 0
      <4>1. (i - 1) % 2 # 0 /\ i # N
        <5>1. (i - 1) % 2 # 0
          BY <2>1, <3>1, SMTT(30)
        <5>2. QED
          BY <1>7, <3>1, <5>1
      <4>2. a = 2 * i - 3 /\ Width[i] = 2 * i
        <5>1. Width[i - 1] = 2 * (i - 1) - 1 /\ Width[i] = 2 * i
          BY <1>5, <2>1, <3>1, <4>1
        <5>2. 2 * (i - 1) - 1 = 2 * i - 3
          BY <2>1
        <5>3. QED
          BY <2>2, <5>1, <5>2
      <4>3. seqs[i] = <<Quote, lit[i], Quote>> /\ lit[i] \in Tokens
        BY <1>3, <3>1
      <4>4. i - 1 \in 1 .. N - 1 /\ i \in 1 .. N - 1
        BY <1>7, <2>1, <4>1
      <4>5. all[2 * (i - 1)] = Quote /\ all[2 * i - 1] = lit[i] /\ all[2 * i] = Quote
        BY <1>6, <4>4
      <4>6. a + 1 = 2 * (i - 1) /\ a + 2 = 2 * i - 1 /\ a + 3 = 2 * i
        BY <2>1, <4>2
      <4>7. Len(seqs[i]) = 3 /\ seqs[i] \in Seq(Tokens)
        BY <4>3 DEF Tokens
      <4>8. seqs[i][1] = Quote /\ seqs[i][2] = lit[i] /\ seqs[i][3] = Quote
        BY <4>3
      <4>9. ASSUME NEW k \in 1 .. 3 PROVE all[a + k] = seqs[i][k]
        <5>1. k = 1 \/ k = 2 \/ k = 3
          OBVIOUS
        <5>2. QED
          BY <4>5, <4>6, <4>8, <5>1
      <4>10. Width[i] = a + 3
        BY <4>2, <4>6
      <4>11. QED
        BY <4>7, <4>9, <4>10
    <3>2. CASE i % 2 # 0
      <4>1. (i - 1) % 2 = 0
        BY <2>1, <3>2, SMTT(30)
      <4>2. a = 2 * i - 2 /\ Width[i] = 2 * i - 1
        <5>1. Width[i - 1] = 2 * (i - 1) /\ Width[i] = 2 * i - 1
          BY <1>5, <2>1, <3>2, <4>1
        <5>2. 2 * (i - 1) = 2 * i - 2
          BY <2>1
        <5>3. QED
          BY <2>2, <5>1, <5>2
      <4>3. seqs[i] = <<lit[i]>> /\ lit[i] \in Tokens
        BY <1>3, <3>2
      <4>4. all[2 * i - 1] = lit[i]
        BY <1>6
      <4>5. a + 1 = 2 * i - 1
        BY <2>1, <4>2
      <4>6. Len(seqs[i]) = 1 /\ seqs[i] \in Seq(Tokens) /\ seqs[i][1] = lit[i]
        BY <4>3
      <4>7. QED
        BY <4>2, <4>4, <4>5, <4>6
    <3>3. QED
      BY <3>1, <3>2
  <2>6. PICK b \in Seq(Tokens) : b = seqs[i] /\ Len(b) \in Nat
    BY <2>5
  <2>7. /\ f \o b \in Seq(Tokens) /\ Len(f \o b) = a + Len(b)
        /\ \A k \in 1 .. a + Len(b) : (f \o b)[k] = IF k <= a THEN f[k] ELSE b[k - a]
    <3>1. /\ f \o b \in Seq(Tokens) /\ Len(f \o b) = Len(f) + Len(b)
          /\ \A k \in 1 .. Len(f) + Len(b) :
               (f \o b)[k] = IF k <= Len(f) THEN f[k] ELSE b[k - Len(f)]
      BY ConcatProperties
    <3>2. Len(f) = a
      BY <2>4
    <3>3. QED
      BY <3>1, <3>2, Zenon
  <2>8. ASSUME NEW k \in 1 .. a + Len(b) PROVE (f \o b)[k] = all[k]
    <3>1. CASE k <= a
      BY <2>4, <2>7, <3>1
    <3>2. CASE ~(k <= a)
      <4>1. k - a \in 1 .. Len(b) /\ a + (k - a) = k
        BY <2>6, <3>2
      <4>2. QED
        BY <2>5, <2>6, <2>7, <3>2, <4>1
    <3>3. QED
      BY <3>1, <3>2
  <2>9. Width[i] = a + Len(b)
    BY <2>5, <2>6
  <2>10. PICK h \in Seq(Tokens) : h = w[i]
    BY <1>10
  <2>11. Len(h) = a + Len(b) /\ \A k \in 1 .. a + Len(b) : h[k] = all[k]
    BY <1>10, <2>9, <2>10
  <2>12. h = f \o b
    BY <2>7, <2>8, <2>11, SeqEqual
  <2>13. QED
    BY <2>3, <2>6, <2>10, <2>12
<1>13. PICK u \in [1 .. N -> Seq(Tokens)] : \A i \in 1 .. N : u[i] = w[i]
  <2>1. [i \in 1 .. N |-> w[i]] \in [1 .. N -> Seq(Tokens)]
    BY <1>10
  <2>2. QED
    BY <2>1
<1>14. sent = w[N]
  <2>1. sent = FlattenSeq(seqs)
    BY <1>2 DEF Quoted
  <2>2. N # 0 /\ N \in Nat /\ N = Len(seqs) /\ N \in 1 .. N
    BY <1>4, <1>7
  <2>3. ASSUME NEW i \in 1 .. N
        PROVE  u[i] = IF i = 1 THEN seqs[i] ELSE u[i - 1] \o seqs[i]
    <3>1. i # 1 => i - 1 \in 1 .. N
      BY <1>7
    <3>2. QED
      BY <1>11, <1>12, <1>13, <3>1
  <2>4. FlattenSeq(seqs) = u[N]
    <3>1. PICK m \in Nat : m = N
      BY <2>2
    <3>2. m # 0 /\ m = Len(seqs)
      BY <2>2, <3>1
    <3>3. \A i \in 1 .. m : u[i] = IF i = 1 THEN seqs[i] ELSE u[i - 1] \o seqs[i]
      BY <2>3, <3>1
    <3>4. u \in [1 .. m -> Seq(Tokens)]
      BY <3>1
    <3>5. FlattenSeq(seqs) = u[m]
      BY <3>2, <3>3, <3>4, Flattened, ZenonT(120)
    <3>6. QED
      BY <3>1, <3>5
  <2>5. QED
    BY <1>13, <2>1, <2>2, <2>4
<1>15. sent \in Seq(Tokens) /\ Len(sent) = 2 * N - 1 /\ \A k \in 1 .. 2 * N - 1 : sent[k] = all[k]
  <2>1. N \in 1 .. N
    BY <1>7
  <2>2. Width[N] = 2 * N - 1
    <3>1. Width[N] = IF N % 2 = 0 THEN 2 * N ELSE 2 * N - 1
      BY <1>5, <2>1
    <3>2. QED
      BY <1>7, <3>1
  <2>3. QED
    BY <1>10, <1>14, <2>1, <2>2
<1>16. QED
  <2>1. ASSUME NEW j \in 1 .. 2 * n PROVE sent[2 * j] = Quote
    <3>1. j \in 1 .. N - 1 /\ 2 * j \in 1 .. 2 * N - 1
      BY <1>8
    <3>2. QED
      BY <1>6, <1>15, <3>1
  <2>2. ASSUME NEW j \in 1 .. 2 * n + 1 PROVE sent[2 * j - 1] = lit[j]
    <3>1. j \in 1 .. N /\ 2 * j - 1 \in 1 .. 2 * N - 1
      BY <1>7, <1>8
    <3>2. QED
      BY <1>6, <1>15, <3>1
  <2>3. QED
    BY <1>8, <1>15, <2>1, <2>2

\* The literal of n roles, with its commas at the places c[j] + 1.
Laid(lit, roles, n, c) ==
  /\ c[0] = 0 /\ \A i, j \in 0 .. n : i < j => c[i] + 2 <= c[j]
  /\ lit \in Seq(Tokens) /\ Len(lit) = c[n] + 1
  /\ lit[1] = "open" /\ lit[c[n] + 1] = "close"
  /\ \A k \in 2 .. c[n] :
       /\ lit[k] \notin {"open", "close"}
       /\ lit[k] = "comma" <=> \E j \in 1 .. n - 1 : k = c[j] + 1
  /\ \A j \in 1 .. n : Trim(SubSeq(lit, c[j - 1] + 2, c[j]), {Quote}) = <<roles[j]>>

\* Scan gives back the roles of such a literal.
LEMMA ParseLaid ==
  ASSUME NEW roles \in Seq(ValidRoles), NEW n \in Nat, n # 0, n = Len(roles),
         NEW c \in [0 .. n -> Nat], NEW lit, Laid(lit, roles, n, c)
  PROVE  ParsePostgresArray(lit) = roles
<1>c. c[0] = 0 /\ \A i, j \in 0 .. n : i < j => c[i] + 2 <= c[j]
  BY DEF Laid
<1>e. /\ lit \in Seq(Tokens) /\ Len(lit) = c[n] + 1
      /\ lit[1] = "open" /\ lit[c[n] + 1] = "close"
  BY DEF Laid
<1>b. \A k \in 2 .. c[n] : lit[k] \notin {"open", "close"}
  BY DEF Laid
<1>m. \A k \in 2 .. c[n] : lit[k] = "comma" <=> \E j \in 1 .. n - 1 : k = c[j] + 1
  BY DEF Laid
<1>t. \A j \in 1 .. n : Trim(SubSeq(lit, c[j - 1] + 2, c[j]), {Quote}) = <<roles[j]>>
  BY DEF Laid
<1>1. PICK L \in Nat : L = c[n]
  OBVIOUS
<1>2. L >= 2
  <2>1. 0 \in 0 .. n /\ n \in 0 .. n /\ 0 < n
    OBVIOUS
  <2>2. c[0] + 2 <= c[n]
    BY <1>c, <2>1
  <2>3. QED
    BY <1>c, <1>1, <2>2
<1>3. PICK s : s = SubSeq(lit, 2, L)
  OBVIOUS
<1>4. Trim(lit, {"open", "close"}) = s
  <2>1. PICK m \in Nat : m = L + 1
    OBVIOUS
  <2>2. m >= 3 /\ m - 1 = L /\ 2 \in 2 .. L /\ L \in 2 .. L
    BY <1>2, <2>1
  <2>3. DOMAIN lit = 1 .. m /\ lit[m] = "close"
    BY <1>e, <1>1, <2>1
  <2>4. PICK braces : braces = {"open", "close"}
    OBVIOUS
  <2>5. lit[2] \notin braces /\ lit[m - 1] \notin braces
    BY <1>b, <1>1, <2>2, <2>4
  <2>6. lit[1] \in braces /\ lit[m] \in braces
    BY <1>e, <2>3, <2>4
  <2>7. Trim(lit, braces) = SubSeq(lit, 2, m - 1)
    BY <2>2, <2>3, <2>5, <2>6, TrimEnds
  <2>8. QED
    BY <1>3, <2>2, <2>4, <2>7
<1>5. s \in Seq(Tokens) /\ Len(s) = L - 1 /\ \A i \in 1 .. L - 1 : s[i] = lit[i + 1]
  <2>1. \A i \in 2 .. L : lit[i] \in Tokens
    BY <1>e, <1>1, <1>2
  <2>2. /\ s \in Seq(Tokens) /\ Len(s) = IF 2 <= L THEN L - 2 + 1 ELSE 0
        /\ \A i \in 1 .. L - 2 + 1 : s[i] = lit[2 + i - 1]
    BY <1>3, <2>1, SubSeqProperties
  <2>3. \A i \in 1 .. L - 1 : i \in 1 .. L - 2 + 1 /\ 2 + i - 1 = i + 1
    OBVIOUS
  <2>4. QED
    BY <1>2, <2>2, <2>3
<1>6. Split(s) = [k \in 1 .. n |-> SubSeq(s, c[k - 1] + 1, c[k] - 1)]
  <2>1. {i \in DOMAIN s : s[i] = "comma"} = {c[j] : j \in 1 .. n - 1}
    <3>1. DOMAIN s = 1 .. L - 1
      BY <1>2, <1>5
    <3>2. ASSUME NEW j \in 1 .. n - 1 PROVE c[j] \in 1 .. L - 1 /\ s[c[j]] = "comma"
      <4>1. c[j] \in Nat /\ c[0] + 2 <= c[j] /\ c[j] + 2 <= c[n]
        <5>1. 0 \in 0 .. n /\ j \in 0 .. n /\ n \in 0 .. n /\ 0 < j /\ j < n
          OBVIOUS
        <5>2. QED
          BY <1>c, <5>1
      <4>2. c[j] \in 1 .. L - 1 /\ c[j] + 1 \in 2 .. L
        BY <1>c, <1>1, <4>1
      <4>3. QED
        BY <1>m, <1>1, <1>5, <4>2
    <3>3. ASSUME NEW i \in 1 .. L - 1, s[i] = "comma" PROVE \E j \in 1 .. n - 1 : i = c[j]
      <4>1. i + 1 \in 2 .. L /\ lit[i + 1] = "comma"
        BY <1>5, <3>3
      <4>2. PICK j \in 1 .. n - 1 : i + 1 = c[j] + 1
        BY <1>m, <1>1, <4>1
      <4>3. c[j] \in Nat
        OBVIOUS
      <4>4. QED
        BY <4>2, <4>3
    <3>4. QED
      BY <3>1, <3>2, <3>3
  <2>2. \A i, j \in 0 .. n : i < j => c[i] < c[j]
    <3>1. SUFFICES ASSUME NEW i \in 0 .. n, NEW j \in 0 .. n, i < j PROVE c[i] < c[j]
      OBVIOUS
    <3>2. c[i] \in Nat /\ c[j] \in Nat /\ c[i] + 2 <= c[j]
      BY <1>c, <3>1
    <3>3. QED
      BY <3>2
  <2>3. Len(s) \in Nat /\ DOMAIN s = 1 .. Len(s) /\ c[n] = Len(s) + 1
    BY <1>1, <1>2, <1>5
  <2>4. QED
    BY <1>c, <2>1, <2>2, <2>3, SplitAt
<1>7. ASSUME NEW k \in 1 .. n PROVE Split(s)[k] = SubSeq(lit, c[k - 1] + 2, c[k])
  <2>1. k - 1 \in 0 .. n /\ k \in 0 .. n /\ k - 1 < k
    OBVIOUS
  <2>2. PICK a \in Nat : a = c[k - 1]
    BY <2>1
  <2>3. PICK b \in Nat : b = c[k]
    BY <2>1
  <2>4. a + 2 <= b /\ b <= L
    <3>1. a + 2 <= b
      BY <1>c, <2>1, <2>2, <2>3
    <3>2. k = n \/ c[k] + 2 <= c[n]
      BY <1>c
    <3>3. QED
      BY <1>1, <2>3, <3>1, <3>2
  <2>5. Split(s)[k] = SubSeq(s, a + 1, b - 1)
    BY <1>6, <2>2, <2>3
  <2>6. /\ 2 \in 1 .. Len(lit) /\ L \in 1 .. Len(lit)
        /\ a + 1 \in 1 .. L - 2 + 1 /\ b - 1 \in 1 .. L - 2 + 1
    BY <1>e, <1>1, <1>2, <2>4
  <2>7. SubSeq(SubSeq(lit, 2, L), a + 1, b - 1) = SubSeq(lit, 2 + (a + 1) - 1, 2 + (b - 1) - 1)
    BY <1>e, <2>6, SubSeqOfSubSeq
  <2>8. 2 + (a + 1) - 1 = a + 2 /\ 2 + (b - 1) - 1 = b
    OBVIOUS
  <2>9. QED
    BY <1>3, <2>2, <2>3, <2>5, <2>7, <2>8
<1>8. PICK elems : elems = [i \in DOMAIN Split(s) |-> Trim(Split(s)[i], {Quote})]
  OBVIOUS
<1>9. DOMAIN elems = 1 .. n /\ \A i \in 1 .. n : elems[i] = <<roles[i]>>
  <2>1. DOMAIN Split(s) = 1 .. n
    BY <1>6
  <2>2. QED
    BY <1>t, <1>7, <1>8, <2>1
<1>10. ParseManyRoles(elems) = roles
  <2>1. \A i \in 1 .. n : roles[i] \in ValidRoles /\ <<roles[i]>>[1] = roles[i]
    OBVIOUS
  <2>2. \A i \in DOMAIN elems : \E role \in ValidRoles : elems[i] = <<role>>
    BY <1>9, <2>1
  <2>3. ParseManyRoles(elems) = [i \in DOMAIN elems |-> elems[i][1]]
    BY <2>2 DEF ParseManyRoles
  <2>4. [i \in DOMAIN elems |-> elems[i][1]] = [i \in 1 .. n |-> roles[i]]
    BY <1>9, <2>1
  <2>5. roles = [i \in 1 .. n |-> roles[i]]
    OBVIOUS
  <2>6. QED
    BY <2>3, <2>4, <2>5
<1>11. s # <<>>
  BY <1>2, <1>5
<1>12. QED
  BY <1>4, <1>8, <1>10, <1>11 DEF ParsePostgresArray

LEMMA PairOf == ASSUME NEW a \in Tokens, NEW b \in Tokens PROVE <<a>> \o <<b>> = <<a, b>>
<1>1. PICK s : s = <<a>>
  OBVIOUS
<1>2. PICK t : t = <<b>>
  OBVIOUS
<1>3. PICK u : u = <<a, b>>
  OBVIOUS
<1>4. s \in Seq(Tokens) /\ Len(s) = 1 /\ s[1] = a
  BY <1>1
<1>5. t \in Seq(Tokens) /\ Len(t) = 1 /\ t[1] = b
  BY <1>2
<1>6. u \in Seq(Tokens) /\ Len(u) = 2 /\ u[1] = a /\ u[2] = b
  BY <1>3
<1>7. /\ s \o t \in Seq(Tokens) /\ Len(s \o t) = 1 + 1
      /\ \A i \in 1 .. 1 + 1 : (s \o t)[i] = IF i <= 1 THEN s[i] ELSE t[i - 1]
  BY <1>4, <1>5, ConcatProperties
<1>8. (s \o t)[1] = a /\ (s \o t)[2] = b
  BY <1>4, <1>5, <1>7
<1>9. PICK v : v = s \o t
  OBVIOUS
<1>10. v \in Seq(Tokens) /\ Len(v) = 2 /\ v[1] = a /\ v[2] = b
  BY <1>7, <1>8, <1>9
<1>11. v = u
  BY <1>6, <1>10, SeqEqual
<1>12. QED
  BY <1>1, <1>2, <1>3, <1>9, <1>11

\* Whatever roles a user is given, in whatever order and how often, Scan reads
\* back what Value wrote, whether PostgreSQL sends the words quoted or not.
THEOREM RoundTrip ==
  ASSUME NEW roles \in Seq(ValidRoles), NEW quoted \in BOOLEAN
  PROVE  ParsePostgresArray(PostgresForm(Value(roles), quoted)) = roles
<1>1. PICK n \in Nat : n = Len(roles)
  OBVIOUS
<1>2. PICK lit : lit = Value(roles)
  OBVIOUS
<1>3. ASSUME n # 0, ~quoted PROVE ParsePostgresArray(PostgresForm(lit, quoted)) = roles
  <2>1. /\ lit \in Seq(Tokens) /\ Len(lit) = 2 * n + 1 /\ lit[1] = "open"
        /\ lit[2 * n + 1] = "close" /\ \A j \in 1 .. n : lit[2 * j] = roles[j]
        /\ \A j \in 1 .. n - 1 : lit[2 * j + 1] = "comma"
    BY <1>1, <1>2, <1>3, ValueShape, SMTT(60)
  <2>2. PICK c \in [0 .. n -> Nat] : \A j \in 0 .. n : c[j] = 2 * j
    <3>1. [j \in 0 .. n |-> 2 * j] \in [0 .. n -> Nat]
      OBVIOUS
    <3>2. QED
      BY <3>1
  <2>3. c[0] = 0 /\ c[n] = 2 * n /\ \A i, j \in 0 .. n : i < j => c[i] + 2 <= c[j]
    BY <2>2
  <2>4. ASSUME NEW k \in 2 .. 2 * n
        PROVE  /\ lit[k] \notin {"open", "close"}
               /\ lit[k] = "comma" <=> \E j \in 1 .. n - 1 : k = 2 * j + 1
    <3>1. CASE k % 2 = 0
      <4>1. PICK j \in 1 .. n : k = 2 * j
        BY <3>1
      <4>2. lit[k] \in ValidRoles
        BY <1>1, <2>1, <4>1
      <4>3. \A i \in 1 .. n - 1 : k # 2 * i + 1
        BY <3>1
      <4>4. QED
        BY <4>2, <4>3 DEF ValidRoles
    <3>2. CASE k % 2 # 0
      <4>1. PICK j \in Nat : k = 2 * j + 1
        <5>1. (k - 1) \div 2 \in Nat /\ k = 2 * ((k - 1) \div 2) + 1
          BY <3>2
        <5>2. QED
          BY <5>1
      <4>2. j \in 1 .. n - 1
        BY <4>1
      <4>3. QED
        BY <2>1, <4>1, <4>2
    <3>3. QED
      BY <3>1, <3>2
  <2>5. \A k \in 2 .. 2 * n : lit[k] = "comma" <=> \E j \in 1 .. n - 1 : k = c[j] + 1
    <3>1. \A j \in 1 .. n - 1 : c[j] + 1 = 2 * j + 1
      BY <2>2
    <3>2. QED
      BY <2>4, <3>1
  <2>6. ASSUME NEW j \in 1 .. n
        PROVE  Trim(SubSeq(lit, c[j - 1] + 2, c[j]), {Quote}) = <<roles[j]>>
    <3>1. c[j - 1] + 2 = 2 * j /\ c[j] = 2 * j
      <4>1. j - 1 \in 0 .. n /\ j \in 0 .. n /\ 2 * (j - 1) + 2 = 2 * j
        OBVIOUS
      <4>2. QED
        BY <2>2, <4>1
    <3>2. PICK m \in Nat : m = 2 * j
      OBVIOUS
    <3>3. lit[m] = roles[j] /\ roles[j] \in ValidRoles
      BY <1>1, <2>1, <3>2
    <3>4. \A i \in m .. m : lit[i] \in ValidRoles
      BY <3>3
    <3>5. /\ SubSeq(lit, m, m) \in Seq(ValidRoles)
          /\ Len(SubSeq(lit, m, m)) = IF m <= m THEN m - m + 1 ELSE 0
          /\ \A i \in 1 .. m - m + 1 : SubSeq(lit, m, m)[i] = lit[m + i - 1]
      BY <3>4, SubSeqProperties
    <3>6. Len(SubSeq(lit, m, m)) = 1 /\ SubSeq(lit, m, m)[1] = roles[j]
      <4>1. m - m + 1 = 1 /\ m + 1 - 1 = m /\ 1 \in 1 .. 1
        OBVIOUS
      <4>2. QED
        BY <3>3, <3>5, <4>1
    <3>7. SubSeq(lit, m, m) = <<roles[j]>>
      BY <3>5, <3>6, SMTT(30)
    <3>8. roles[j] \notin {Quote}
      BY <3>3 DEF ValidRoles, Quote
    <3>9. QED
      BY <3>1, <3>2, <3>7, <3>8, TrimOne
  <2>7. PostgresForm(lit, quoted) = lit
    BY <1>3 DEF PostgresForm
  <2>8. Laid(lit, roles, n, c)
    BY <2>1, <2>3, <2>4, <2>5, <2>6 DEF Laid
  <2>9. ParsePostgresArray(lit) = roles
    BY <1>1, <1>3, <2>8, ParseLaid
  <2>10. QED
    BY <2>7, <2>9

<1>4. ASSUME n # 0, quoted PROVE ParsePostgresArray(PostgresForm(lit, quoted)) = roles
  <2>1. /\ lit[1] = "open" /\ lit[2 * n + 1] = "close"
        /\ \A j \in 1 .. n : lit[2 * j] = roles[j]
        /\ \A j \in 1 .. n - 1 : lit[2 * j + 1] = "comma"
    BY <1>1, <1>2, <1>4, ValueShape, SMTT(30)
  <2>2. PICK sent : sent = Quoted(lit)
    OBVIOUS
  <2>3. /\ sent \in Seq(Tokens) /\ Len(sent) = 4 * n + 1
        /\ \A j \in 1 .. 2 * n : sent[2 * j] = Quote
        /\ \A j \in 1 .. 2 * n + 1 : sent[2 * j - 1] = lit[j]
    <3>1. n # 0
      BY <1>4
    <3>2. QED
      BY <1>1, <1>2, <2>2, <3>1, QuotedShape, SMTT(30)
  <2>4. sent[1] = "open" /\ sent[4 * n + 1] = "close"
    <3>1. /\ 1 \in 1 .. 2 * n + 1 /\ 2 * 1 - 1 = 1
          /\ 2 * n + 1 \in 1 .. 2 * n + 1 /\ 2 * (2 * n + 1) - 1 = 4 * n + 1
      OBVIOUS
    <3>2. sent[2 * 1 - 1] = lit[1] /\ sent[2 * (2 * n + 1) - 1] = lit[2 * n + 1]
      BY <2>3, <3>1
    <3>3. QED
      BY <2>1, <3>1, <3>2
  <2>5. ASSUME NEW j \in 1 .. n
        PROVE  sent[4 * j - 2] = Quote /\ sent[4 * j - 1] = roles[j] /\ sent[4 * j] = Quote
    <3>1. /\ 2 * j - 1 \in 1 .. 2 * n /\ 2 * j \in 1 .. 2 * n /\ 2 * j \in 1 .. 2 * n + 1
          /\ 2 * (2 * j - 1) = 4 * j - 2 /\ 2 * (2 * j) = 4 * j
      OBVIOUS
    <3>2. /\ sent[2 * (2 * j - 1)] = Quote /\ sent[2 * (2 * j)] = Quote
          /\ sent[2 * (2 * j) - 1] = lit[2 * j]
      BY <2>3, <3>1
    <3>3. QED
      BY <2>1, <3>1, <3>2
  <2>6. ASSUME NEW j \in 1 .. n - 1 PROVE sent[4 * j + 1] = "comma"
    <3>1. 2 * j + 1 \in 1 .. 2 * n + 1 /\ 2 * (2 * j + 1) - 1 = 4 * j + 1
      OBVIOUS
    <3>2. sent[2 * (2 * j + 1) - 1] = lit[2 * j + 1]
      BY <2>3, <3>1
    <3>3. QED
      BY <2>1, <3>1, <3>2
  <2>7. PICK c \in [0 .. n -> Nat] : \A j \in 0 .. n : c[j] = 4 * j
    <3>1. [j \in 0 .. n |-> 4 * j] \in [0 .. n -> Nat]
      OBVIOUS
    <3>2. QED
      BY <3>1
  <2>8. c[0] = 0 /\ c[n] = 4 * n /\ \A i, j \in 0 .. n : i < j => c[i] + 2 <= c[j]
    BY <2>7
  <2>9. ASSUME NEW k \in 2 .. 4 * n
        PROVE  /\ sent[k] \notin {"open", "close"}
               /\ sent[k] = "comma" <=> \E j \in 1 .. n - 1 : k = 4 * j + 1
    <3>1. PICK j \in Nat : k = 4 * j + 1 \/ k = 4 * j - 2 \/ k = 4 * j - 1 \/ k = 4 * j
      <4>1. PICK i \in Nat : k = 4 * i \/ k = 4 * i + 1 \/ k = 4 * i + 2 \/ k = 4 * i + 3
        <5>1. PICK i \in Nat, r \in 0 .. 3 : k = 4 * i + r
          <6>1. k \in Nat
            OBVIOUS
          <6>2. k \div 4 \in Nat /\ k % 4 \in 0 .. 3
            BY <6>1
          <6>3. k = 4 * (k \div 4) + (k % 4)
            BY <6>1
          <6>4. QED
            BY <6>2, <6>3
        <5>2. QED
          BY <5>1
      <4>2. i + 1 \in Nat /\ 4 * (i + 1) - 2 = 4 * i + 2 /\ 4 * (i + 1) - 1 = 4 * i + 3
        OBVIOUS
      <4>3. QED
        BY <4>1, <4>2
    <3>2. CASE k = 4 * j + 1
      <4>1. j \in 1 .. n - 1
        BY <3>2
      <4>2. QED
        BY <2>6, <3>2, <4>1
    <3>3. CASE k = 4 * j - 2 \/ k = 4 * j - 1 \/ k = 4 * j
      <4>1. j \in 1 .. n /\ \A i \in 1 .. n - 1 : k # 4 * i + 1
        BY <3>3
      <4>2. sent[k] \in ValidRoles \cup {Quote}
        <5>1. roles[j] \in ValidRoles
          BY <1>1, <4>1
        <5>2. QED
          BY <2>5, <3>3, <4>1, <5>1
      <4>3. QED
        BY <4>1, <4>2 DEF ValidRoles, Quote
    <3>4. QED
      BY <3>1, <3>2, <3>3
  <2>10. ASSUME NEW j \in 1 .. n
         PROVE  Trim(SubSeq(sent, c[j - 1] + 2, c[j]), {Quote}) = <<roles[j]>>
    <3>1. c[j - 1] + 2 = 4 * j - 2 /\ c[j] = 4 * j
      <4>1. j - 1 \in 0 .. n /\ j \in 0 .. n /\ 4 * (j - 1) + 2 = 4 * j - 2
        OBVIOUS
      <4>2. QED
        BY <2>7, <4>1
    <3>2. PICK m \in Nat : m = 4 * j - 2
      OBVIOUS
    <3>3. /\ sent[m] = Quote /\ sent[m + 1] = roles[j] /\ sent[m + 2] = Quote
          /\ m + 2 = 4 * j /\ roles[j] \in ValidRoles
      <4>1. m + 1 = 4 * j - 1 /\ m + 2 = 4 * j
        BY <3>2
      <4>2. QED
        BY <1>1, <2>5, <3>2, <4>1
    <3>4. \A i \in m .. m + 2 : sent[i] \in ValidRoles \cup {Quote}
      <4>1. \A i \in m .. m + 2 : i = m \/ i = m + 1 \/ i = m + 2
        OBVIOUS
      <4>2. QED
        BY <3>3, <4>1
    <3>5. PICK e : e = SubSeq(sent, m, m + 2)
      OBVIOUS
    <3>6. /\ e \in Seq(ValidRoles \cup {Quote})
          /\ Len(e) = IF m <= m + 2 THEN (m + 2) - m + 1 ELSE 0
          /\ \A i \in 1 .. (m + 2) - m + 1 : e[i] = sent[m + i - 1]
      BY <3>4, <3>5, SubSeqProperties
    <3>7. Len(e) = 3 /\ e[1] = Quote /\ e[2] = roles[j] /\ e[3] = Quote /\ DOMAIN e = 1 .. 3
      <4>1. /\ (m + 2) - m + 1 = 3 /\ m + 1 - 1 = m /\ m + 2 - 1 = m + 1 /\ m + 3 - 1 = m + 2
            /\ 1 \in 1 .. 3 /\ 2 \in 1 .. 3 /\ 3 \in 1 .. 3 /\ m <= m + 2
        OBVIOUS
      <4>2. Len(e) = 3 /\ \A i \in 1 .. 3 : e[i] = sent[m + i - 1]
        BY <3>6, <4>1
      <4>3. e[1] = sent[m] /\ e[2] = sent[m + 1] /\ e[3] = sent[m + 2]
        BY <4>1, <4>2
      <4>4. QED
        BY <3>3, <3>6, <4>2, <4>3
    <3>8. roles[j] \notin {Quote}
      BY <3>3 DEF ValidRoles, Quote
    <3>9. Trim(e, {Quote}) = SubSeq(e, 2, 3 - 1)
      <4>1. 3 \in Nat /\ 3 >= 3 /\ 3 - 1 = 2
        OBVIOUS
      <4>2. e[1] \in {Quote} /\ e[3] \in {Quote} /\ e[2] \notin {Quote} /\ e[3 - 1] \notin {Quote}
        BY <3>7, <3>8, <4>1
      <4>3. QED
        BY <3>7, <4>1, <4>2, TrimEnds
    <3>10. SubSeq(e, 2, 2) = <<roles[j]>>
      <4>1. \A i \in 2 .. 2 : e[i] \in ValidRoles
        BY <3>3, <3>7
      <4>2. /\ SubSeq(e, 2, 2) \in Seq(ValidRoles)
            /\ Len(SubSeq(e, 2, 2)) = IF 2 <= 2 THEN 2 - 2 + 1 ELSE 0
            /\ \A i \in 1 .. 2 - 2 + 1 : SubSeq(e, 2, 2)[i] = e[2 + i - 1]
        BY <4>1, SubSeqProperties
      <4>3. Len(SubSeq(e, 2, 2)) = 1 /\ SubSeq(e, 2, 2)[1] = roles[j]
        BY <3>7, <4>2
      <4>4. QED
        BY <4>2, <4>3
    <3>11. QED
      BY <3>1, <3>2, <3>3, <3>5, <3>9, <3>10
  <2>11. Laid(sent, roles, n, c)
    <3>1. \A j \in 1 .. n - 1 : c[j] + 1 = 4 * j + 1
      BY <2>7
    <3>2. \A k \in 2 .. 4 * n : sent[k] = "comma" <=> \E j \in 1 .. n - 1 : k = c[j] + 1
      BY <2>9, <3>1
    <3>3. QED
      BY <2>3, <2>4, <2>8, <2>9, <2>10, <3>2 DEF Laid
  <2>12. ParsePostgresArray(sent) = roles
    BY <1>1, <1>4, <2>11, ParseLaid
  <2>13. PostgresForm(lit, quoted) = sent
    BY <1>4, <2>2 DEF PostgresForm
  <2>14. QED
    BY <2>12, <2>13
<1>5. ASSUME n = 0 PROVE ParsePostgresArray(PostgresForm(lit, quoted)) = roles
  <2>1. roles = <<>>
    BY <1>1, <1>5, EmptySeq
  <2>2. lit = <<"open", "close">>
    <3>1. [i \in 1 .. 2 * n - 1 |->
             IF i % 2 = 0 THEN "comma" ELSE roles[(i + 1) \div 2]] = <<>>
      BY <1>5
    <3>2. lit = <<"open">> \o <<>> \o <<"close">>
      BY <1>1, <1>2, <3>1 DEF Value
    <3>3. <<"open">> \o <<>> = <<"open">>
      BY ConcatEmptySeq
    <3>4. QED
      BY <3>2, <3>3, PairOf DEF Tokens
  <2>3. PICK sent : sent = PostgresForm(lit, quoted)
    OBVIOUS
  <2>4. sent = <<"open", "close">>
    <3>1. CASE ~quoted
      BY <2>2, <2>3, <3>1 DEF PostgresForm
    <3>2. CASE quoted
      <4>1. PICK seqs : seqs = [i \in DOMAIN lit |->
                                  IF lit[i] \in {"open", "close", "comma"} THEN <<lit[i]>>
                                  ELSE <<Quote, lit[i], Quote>>]
        OBVIOUS
      <4>2. seqs = <<<<"open">>, <<"close">>>>
        BY <2>2, <4>1
      <4>3. PICK w : w = [i \in 1 .. 2 |-> IF i = 1 THEN <<"open">> ELSE <<"open", "close">>]
        OBVIOUS
      <4>4. w \in [1 .. 2 -> Seq(Tokens)]
        BY <4>3 DEF Tokens
      <4>5. ASSUME NEW i \in 1 .. 2
            PROVE  w[i] = IF i = 1 THEN seqs[i] ELSE w[i - 1] \o seqs[i]
        <5>1. CASE i = 1
          BY <4>2, <4>3, <5>1
        <5>2. CASE i = 2
          <6>1. <<"open">> \o <<"close">> = <<"open", "close">>
            BY PairOf DEF Tokens
          <6>2. QED
            BY <4>2, <4>3, <5>2, <6>1
        <5>3. QED
          BY <5>1, <5>2
      <4>6. PICK m \in Nat : m = 2
        OBVIOUS
      <4>7. FlattenSeq(seqs) = w[2]
        <5>1. m # 0 /\ m = Len(seqs)
          BY <4>2, <4>6
        <5>2. \A i \in 1 .. m : w[i] = IF i = 1 THEN seqs[i] ELSE w[i - 1] \o seqs[i]
          BY <4>5, <4>6
        <5>3. w \in [1 .. m -> Seq(Tokens)]
          BY <4>4, <4>6
        <5>4. FlattenSeq(seqs) = w[m]
          BY <5>1, <5>2, <5>3, Flattened, ZenonT(120)
        <5>5. QED
          BY <4>6, <5>4
      <4>8. sent = FlattenSeq(seqs)
        BY <2>3, <3>2, <4>1 DEF PostgresForm, Quoted
      <4>9. QED
        BY <4>3, <4>7, <4>8
    <3>3. QED
      BY <3>1, <3>2
  <2>5. Trim(sent, {"open", "close"}) = <<>>
    <3>1. {i \in DOMAIN sent : sent[i] \notin {"open", "close"}} = {}
      BY <2>4
    <3>2. QED
      BY <3>1 DEF Trim
  <2>6. QED
    BY <2>1, <2>3, <2>5 DEF ParsePostgresArray
<1>6. QED
  BY <1>2, <1>3, <1>4, <1>5

------------------------------------------------------------------------------
(***************************************************************************)
(* The inductive invariant, in named parts.                                *)
(***************************************************************************)
States == {"idle", "asking", "counting", "end", "failed"}

Shape ==
  walk \in [pc : States, req : Requests \cup {Absent},
            page : [Number : 1 .. MaxNumber + 1, Rows : Nat \ {0}],
            rows : Seq([id : Ids, roles : Seq(ValidRoles)]),
            total : 0 .. MaxId, seen : Seq(Ids), steady : SUBSET Ids,
            tied : BOOLEAN, moved : BOOLEAN, cameAhead : BOOLEAN, leftAhead : BOOLEAN,
            drift : Nat, writes : Nat]

\* What UserHandlers keeps true of the table: ids are given in order, and no
\* two users have one address.
Table ==
  /\ users \in [Ids -> Row \cup {NoRow}]
  /\ nextId \in 1 .. MaxId + 1
  /\ \A id \in nextId .. MaxId : users[id] = NoRow
  /\ \A a, b \in Present : a # b => users[a].email # users[b].email

RowsOf(req) == IF req.rows = Absent THEN DefaultRows ELSE req.rows

\* A request is pending, and a walk that began with the first page has shown
\* as many rows as the offset of its page.
Progress ==
  /\ walk.pc # "idle" => walk.req \in Requests
  /\ walk.pc = "idle" => walk.seen = <<>>
  /\ walk.pc \in {"counting", "end"} \/ walk.seen # <<>> =>
       walk.page.Rows = RowsOf(walk.req) /\ Order # Invalid
  /\ walk.pc = "counting" =>
       walk.page.Number <= MaxNumber /\ Len(walk.rows) <= walk.page.Rows
  /\ walk.pc \in {"asking", "counting"} /\ walk.req.page \in {Absent, 1} =>
       Len(walk.seen) = (walk.page.Number - 1) * walk.page.Rows
  /\ walk.pc \in {"asking", "counting"} => walk.steady \subseteq Matching(users, walk.req)

\* Between the statements the table has drifted by no more than the drift says.
Counted ==
  LET shown == Offset(walk.page) + Len(walk.rows)
      count == Cardinality(Matching(users, walk.req))
  IN walk.pc = "counting" =>
       /\ Offset(walk.page) >= 0
       /\ Len(walk.rows) < walk.page.Rows => count <= shown + walk.drift
       /\ walk.rows # <<>> => count >= shown - walk.drift

\* A walk without ties has none now.
Untied ==
  walk.pc \in {"asking", "counting"} /\ Order # Invalid /\ ~walk.tied =>
    ~Tied(users, Matching(users, walk.req), Order)

\* The rows of the page and of the pages before it.
PageIds == [i \in DOMAIN walk.rows |-> walk.rows[i].id]
ShownSeq == IF walk.pc = "counting" THEN walk.seen \o PageIds ELSE walk.seen

\* The rows of the listing before a row.
Earlier(id) == {b \in Matching(users, walk.req) : Precedes(b, id)}

Running == walk.pc \in {"asking", "counting"}
Started ==
  /\ walk.pc # "idle" /\ Order # Invalid /\ walk.req.page \in {Absent, 1}
  /\ RowsOf(walk.req) \in Nat /\ Fits(RowsOf(walk.req))

NothingCameBefore == ~walk.tied /\ ~walk.moved /\ ~walk.cameAhead
NothingLeft == ~walk.tied /\ ~walk.moved /\ ~walk.leftAhead

\* What has been shown is still among the first rows, as many as were shown.
Repeats ==
  Started /\ NothingCameBefore =>
    /\ IsInjective(ShownSeq)
    /\ Running => \A id \in ToSet(ShownSeq) \cap Matching(users, walk.req) :
                    Cardinality(Earlier(id)) < Len(ShownSeq)

\* What has not been shown is not among the first rows, and all has been shown
\* once a page was not full.
Misses ==
  Started /\ NothingLeft =>
    /\ Running => \A id \in walk.steady \ ToSet(ShownSeq) : Cardinality(Earlier(id)) >= Len(ShownSeq)
    /\ walk.pc = "end" \/ (walk.pc = "counting" /\ Len(walk.rows) < walk.page.Rows) =>
         walk.steady \subseteq ToSet(ShownSeq)

ListInv ==
  /\ Shape /\ Table /\ Progress /\ Counted /\ TotalWithinDrift /\ RolesSurvive
  /\ Untied /\ Repeats /\ Misses

------------------------------------------------------------------------------
(***************************************************************************)
(* Orderings of a set of rows and the slices of them.                      *)
(***************************************************************************)
Lists(s, S, n) == s \in [1 .. n -> S] /\ \A i, j \in 1 .. n : i # j => s[i] # s[j]
First(s, k) == {s[j] : j \in 1 .. k}

\* A list without repetitions has k elements in its first k places.
LEMMA FirstPlaces ==
  ASSUME NEW S, NEW n \in Nat, NEW s, Lists(s, S, n), NEW k \in 0 .. n
  PROVE  IsFiniteSet(First(s, k)) /\ Cardinality(First(s, k)) = k
<1>0. s \in [1 .. n -> S] /\ \A i, j \in 1 .. n : i # j => s[i] # s[j]
  BY DEF Lists
<1>t. PICK T : T = {s[j] : j \in 1 .. k}
  OBVIOUS
<1> DEFINE g == [i \in 1 .. k |-> s[i]]
<1>1. \A i \in 1 .. k : i \in 1 .. n
  OBVIOUS
<1>2. g \in [1 .. k -> T]
  BY <1>t
<1>3. \A a, b \in 1 .. k : g[a] = g[b] => a = b
  BY <1>0, <1>1
<1>4. \A x \in T : \E i \in 1 .. k : g[i] = x
  BY <1>t
<1>5. g \in Bijection(1 .. k, T)
  BY <1>2, <1>3, <1>4 DEF Bijection, Injection, Surjection, IsInjective
<1>6. ExistsBijection(1 .. k, T)
  BY <1>5 DEF ExistsBijection
<1>7. k \in Nat /\ First(s, k) = T
  BY <1>t DEF First
<1>8. QED
  BY <1>6, <1>7, FS_CountingElements, FS_NatBijection

\* s lists the n elements of ids, and never one behind a later one.
Sorts(s, ids, n) ==
  /\ n = Cardinality(ids) /\ Lists(s, ids, n)
  /\ \A x \in ids : \E p \in 1 .. n : s[p] = x
  /\ \A i, j \in 1 .. n : i < j => ~Precedes(s[j], s[i])

LEMMA OrderingSorts ==
  ASSUME NEW ids, IsFiniteSet(ids), NEW s \in Orderings(ids, Order)
  PROVE  Cardinality(ids) \in Nat /\ Sorts(s, ids, Cardinality(ids))
<1>1. PICK n \in Nat : n = Cardinality(ids)
  BY FS_CardinalityType
<1>2. s \in [1 .. n -> ids] /\ \A i, j \in 1 .. n : i # j => s[i] # s[j]
  BY <1>1 DEF Orderings, SetToSeqs
<1>3. \A x \in ids : \E p \in 1 .. n : s[p] = x
  <2>1. s \in Injection(1 .. n, ids)
    BY <1>2 DEF Injection, IsInjective
  <2>2. Cardinality(1 .. n) = n
    <3>1. 1 \in Int /\ n \in Int
      OBVIOUS
    <3>2. Cardinality(1 .. n) = IF 1 > n THEN 0 ELSE n - 1 + 1
      BY <3>1, FS_Interval
    <3>3. QED
      BY <3>2
  <2>3. s \in Surjection(1 .. n, ids)
    BY <1>1, <2>1, <2>2, FS_Injection
  <2>4. QED
    BY <2>3 DEF Surjection
<1>4. ASSUME NEW i \in 1 .. n, NEW j \in 1 .. n, i < j PROVE ~Precedes(s[j], s[i])
  <2>1. DOMAIN s = 1 .. n
    BY <1>2
  <2>2. QED
    BY <1>4, <2>1 DEF Orderings, Precedes
<1>5. QED
  BY <1>1, <1>2, <1>3, <1>4 DEF Sorts, Lists

\* The place of a row, up to ties.
LEMMA Place ==
  ASSUME NEW ids, IsFiniteSet(ids), NEW n \in Nat, NEW s, Sorts(s, ids, n),
         NEW p \in 1 .. n, \A id \in ids : SortKey(users[id], Order) \in Int
  PROVE  /\ Cardinality({b \in ids : Precedes(b, s[p])}) \in Nat
         /\ Cardinality({b \in ids : Precedes(b, s[p])}) < p
         /\ p <= Cardinality({b \in ids : ~Precedes(s[p], b)})
<1> DEFINE before == {b \in ids : Precedes(b, s[p])}
           notAfter == {b \in ids : ~Precedes(s[p], b)}
<1>1. /\ s \in [1 .. n -> ids]
      /\ \A x \in ids : \E q \in 1 .. n : s[q] = x
      /\ \A i, j \in 1 .. n : i < j => ~Precedes(s[j], s[i])
  BY DEF Sorts, Lists
<1>a. Lists(s, ids, n)
  BY DEF Sorts
<1>0. ~Precedes(s[p], s[p])
  <2>1. SortKey(users[s[p]], Order) \in Int
    BY <1>1
  <2>2. QED
    BY <2>1 DEF Precedes, Before
<1>2. Cardinality(before) \in Nat /\ Cardinality(before) < p
  <2>1. p - 1 \in 0 .. n
    OBVIOUS
  <2>t. PICK T : T = First(s, p - 1)
    OBVIOUS
  <2>2. IsFiniteSet(T) /\ Cardinality(T) = p - 1
    BY <1>a, <2>1, <2>t, FirstPlaces
  <2>3. ASSUME NEW b \in before PROVE b \in T
    <3>1. PICK q \in 1 .. n : s[q] = b
      BY <1>1
    <3>2. ~(p < q)
      BY <1>1, <3>1
    <3>3. q # p
      BY <1>0, <3>1
    <3>4. q \in 1 .. p - 1
      BY <3>2, <3>3
    <3>5. QED
      BY <2>t, <3>1, <3>4 DEF First
  <2>4. before \in SUBSET T
    BY <2>3
  <2>5. Cardinality(before) <= p - 1 /\ IsFiniteSet(before)
    BY <2>2, <2>4, FS_Subset
  <2>6. Cardinality(before) \in Nat
    BY <2>5, FS_CardinalityType
  <2>7. QED
    BY <2>5, <2>6
<1>3. p <= Cardinality(notAfter)
  <2>1. p \in 0 .. n
    OBVIOUS
  <2>t. PICK T : T = First(s, p)
    OBVIOUS
  <2>2. Cardinality(T) = p
    BY <1>a, <2>1, <2>t, FirstPlaces
  <2>3. ASSUME NEW j \in 1 .. p PROVE s[j] \in notAfter
    <3>1. j \in 1 .. n /\ (j = p \/ j < p)
      OBVIOUS
    <3>2. QED
      BY <1>0, <1>1, <3>1
  <2>4. T \in SUBSET notAfter
    BY <2>t, <2>3 DEF First
  <2>5. IsFiniteSet(notAfter)
    <3>1. notAfter \in SUBSET ids
      OBVIOUS
    <3>2. QED
      BY <3>1, FS_Subset
  <2>6. Cardinality(T) <= Cardinality(notAfter)
    BY <2>4, <2>5, FS_Subset
  <2>7. QED
    BY <2>2, <2>6
<1>4. QED
  BY <1>2, <1>3

\* Of two different rows one precedes the other.
Strict(ids) ==
  /\ \A id \in ids : SortKey(users[id], Order) \in Int
  /\ \A a, b \in ids : a # b => SortKey(users[a], Order) # SortKey(users[b], Order)

\* Without ties the place is exact.
LEMMA ExactPlace ==
  ASSUME NEW ids, IsFiniteSet(ids), NEW n \in Nat, NEW s, Sorts(s, ids, n),
         NEW p \in 1 .. n, Strict(ids)
  PROVE  Cardinality({b \in ids : Precedes(b, s[p])}) = p - 1
<1> DEFINE before == {b \in ids : Precedes(b, s[p])}
<1>1. /\ s \in [1 .. n -> ids] /\ \A i, j \in 1 .. n : i # j => s[i] # s[j]
      /\ \A i, j \in 1 .. n : i < j => ~Precedes(s[j], s[i])
  BY DEF Sorts, Lists
<1>2. Cardinality(before) \in Nat /\ Cardinality(before) < p
  <2>1. \A id \in ids : SortKey(users[id], Order) \in Int
    BY DEF Strict
  <2>2. /\ Cardinality({b \in ids : Precedes(b, s[p])}) \in Nat
        /\ Cardinality({b \in ids : Precedes(b, s[p])}) < p
    BY <2>1, Place, ZenonT(60)
  <2>3. QED
    BY <2>2, Zenon
<1>3. PICK T : T = First(s, p - 1)
  OBVIOUS
<1>4. Cardinality(T) = p - 1
  <2>1. p - 1 \in 0 .. n /\ Lists(s, ids, n)
    BY DEF Sorts
  <2>2. QED
    BY <1>3, <2>1, FirstPlaces
<1>5. ASSUME NEW j \in 1 .. p - 1 PROVE s[j] \in before
  <2>1. j \in 1 .. n /\ j < p
    OBVIOUS
  <2>2. s[j] \in ids /\ s[p] \in ids /\ s[j] # s[p] /\ ~Precedes(s[p], s[j])
    BY <1>1, <2>1
  <2>3. /\ SortKey(users[s[j]], Order) \in Int /\ SortKey(users[s[p]], Order) \in Int
        /\ SortKey(users[s[j]], Order) # SortKey(users[s[p]], Order)
    BY <2>2 DEF Strict
  <2>4. Precedes(s[j], s[p])
    BY <2>2, <2>3 DEF Precedes, Before
  <2>5. QED
    BY <2>2, <2>4
<1>6. T \in SUBSET before
  BY <1>3, <1>5 DEF First
<1>7. before \in SUBSET ids
  OBVIOUS
<1>8. IsFiniteSet(before)
  BY <1>7, FS_Subset
<1>9. Cardinality(T) <= Cardinality(before)
  BY <1>6, <1>8, FS_Subset
<1>10. QED
  BY <1>2, <1>4, <1>9

\* How many rows a page gets.
Filled(n, offset, rows) ==
  IF n - offset < rows THEN IF offset < n THEN n - offset ELSE 0 ELSE rows

IsSlice(t, S, s, n, offset, rows) ==
  /\ t \in Seq(S) /\ Len(t) = Filled(n, offset, rows)
  /\ \A i \in 1 .. Len(t) : offset + i \in 1 .. n /\ t[i] = s[offset + i]

LEMMA SliceOf ==
  ASSUME NEW S, NEW n \in Nat, NEW s, Lists(s, S, n), NEW offset \in Nat,
         NEW rows \in Nat \ {0}, NEW t, t = Slice(s, offset, rows)
  PROVE  IsSlice(t, S, s, n, offset, rows)
<1>0. s \in [1 .. n -> S]
  BY DEF Lists
<1>1. s \in Seq(S) /\ Len(s) = n
  BY <1>0
<1>2. PICK last \in Int : last = IF n - offset < rows THEN n ELSE offset + rows
  OBVIOUS
<1>3. t = SubSeq(s, offset + 1, last)
  BY <1>1, <1>2 DEF Slice
<1>4. last <= n /\ offset + 1 \in Int
  BY <1>2
<1>5. \A i \in offset + 1 .. last : s[i] \in S
  BY <1>0, <1>4
<1>6. /\ t \in Seq(S)
      /\ Len(t) = IF offset + 1 <= last THEN last - (offset + 1) + 1 ELSE 0
      /\ \A i \in 1 .. last - (offset + 1) + 1 : t[i] = s[(offset + 1) + i - 1]
  BY <1>3, <1>4, <1>5, SubSeqProperties
<1>7. Len(t) = Filled(n, offset, rows)
  BY <1>2, <1>6 DEF Filled
<1>8. ASSUME NEW i \in 1 .. Len(t) PROVE offset + i \in 1 .. n /\ t[i] = s[offset + i]
  <2>1. i \in 1 .. last - (offset + 1) + 1 /\ (offset + 1) + i - 1 = offset + i
    BY <1>6
  <2>2. offset + i \in 1 .. n
    BY <1>4, <2>1
  <2>3. QED
    BY <1>6, <2>1, <2>2
<1>9. QED
  BY <1>6, <1>7, <1>8 DEF IsSlice

\* The offset of a page does not wrap around if a page of so many rows fits.
LEMMA OffsetOf ==
  ASSUME NEW page \in [Number : 1 .. MaxNumber, Rows : Nat \ {0}], Fits(page.Rows)
  PROVE  Offset(page) = (page.Number - 1) * page.Rows /\ Offset(page) \in Nat
<1>1. MaxNumber \in Nat \ {0} /\ Half \in Nat \ {0}
  BY ListAssumption
<1>2. PICK m \in Nat : m = page.Number - 1
  OBVIOUS
<1>3. PICK d \in Nat : m + d = MaxNumber - 1
  <2>1. MaxNumber - 1 - m \in Nat /\ m + (MaxNumber - 1 - m) = MaxNumber - 1
    BY <1>1, <1>2
  <2>2. QED
    BY <2>1
<1>4. PICK r \in Nat : r = page.Rows
  OBVIOUS
<1>5. PICK a \in Nat : a = m * r
  OBVIOUS
<1>6. PICK b \in Nat : b = d * r
  OBVIOUS
<1>7. a + b = r * (MaxNumber - 1)
  BY <1>1, <1>3, <1>5, <1>6
<1>8. a < Half
  BY <1>1, <1>4, <1>7 DEF Fits
<1>9. (a + Half) % (2 * Half) = a + Half
  BY <1>1, <1>8
<1>10. Wrap(a) = a
  BY <1>1, <1>9 DEF Wrap
<1>11. QED
  BY <1>2, <1>4, <1>5, <1>10 DEF Offset

------------------------------------------------------------------------------
(***************************************************************************)
(* Requests, and what their two statements do.                             *)
(***************************************************************************)
PageType == [Number : 1 .. MaxNumber, Rows : Nat \ {0}]
FieldType == [Name : {"name", "email", "createdAt", "updatedAt"}, Dir : {"asc", "desc"}]
RowType == [id : Ids, roles : Seq(ValidRoles)]

LEMMA ParsedPage ==
  ASSUME NEW q \in Request, ParsePage(q) # Invalid
  PROVE  /\ ParsePage(q) \in PageType /\ ParsePage(q).Rows = RowsOf(q)
         /\ ParsePage(q).Number = IF q.page = Absent THEN 1 ELSE q.page
<1> DEFINE number == IF q.page = Absent THEN 1 ELSE q.page
           rows == IF q.rows = Absent THEN DefaultRows ELSE q.rows
<1>1. q.page \in Int \cup {Absent, NotANumber} /\ q.rows \in Int \cup {Absent, NotANumber}
  BY DEF Request
<1>2. MaxNumber \in Nat /\ DefaultRows \in Nat
  BY ListAssumption
<1>3. /\ NotANumber \notin {number, rows} /\ ~(number <= 0) /\ ~(rows <= 0)
      /\ ~(number > MaxNumber) /\ ParsePage(q) = [Number |-> number, Rows |-> rows]
  BY DEF ParsePage
<1>4. number \in Int /\ rows \in Int
  BY <1>1, <1>2, <1>3
<1>5. number \in 1 .. MaxNumber /\ rows \in Nat \ {0}
  BY <1>2, <1>3, <1>4
<1>6. rows = RowsOf(q)
  BY DEF RowsOf
<1> HIDE DEF number, rows
<1>7. ParsePage(q).Number = number /\ ParsePage(q).Rows = rows /\ ParsePage(q) \in PageType
  BY <1>3, <1>5 DEF PageType
<1>8. QED
  BY <1>6, <1>7 DEF number

LEMMA ParsedOrder ==
  ASSUME NEW parts \in Seq(STRING), ParseOrderBy(parts) # Invalid
  PROVE  ParseOrderBy(parts) \in FieldType
<1>1. CASE parts = <<>>
  BY <1>1 DEF ParseOrderBy, FieldType
<1>2. CASE parts # <<>>
  <2> DEFINE Valid == /\ Len(parts) \in 1 .. 2
                      /\ parts[1] \in {"name", "email", "createdAt", "updatedAt"}
                      /\ Len(parts) = 2 => parts[2] \in {"asc", "desc"}
             field == [Name |-> parts[1], Dir |-> IF Len(parts) = 2 THEN parts[2] ELSE "asc"]
  <2>1. CASE Valid
    <3>1. ParseOrderBy(parts) = field
      BY <1>2, <2>1 DEF ParseOrderBy
    <3>2. field \in FieldType
      BY <2>1 DEF FieldType
    <3>3. QED
      BY <3>1, <3>2
  <2>2. CASE ~Valid
    <3>1. ParseOrderBy(parts) = Invalid
      BY <1>2, <2>2 DEF ParseOrderBy
    <3>2. QED
      BY <3>1
  <2>3. QED
    BY <2>1, <2>2
<1>3. QED
  BY <1>1, <1>2

LEMMA IdsFinite == IsFiniteSet(Ids) /\ Cardinality(Ids) = MaxId /\ MaxId \in Nat
<1>1. MaxId \in Nat
  BY ListAssumption
<1>2. IsFiniteSet(1 .. MaxId) /\ Cardinality(1 .. MaxId) = IF 1 > MaxId THEN 0 ELSE MaxId - 1 + 1
  <2>1. 1 \in Int /\ MaxId \in Int
    BY <1>1
  <2>2. QED
    BY <2>1, FS_Interval
<1>3. QED
  BY <1>1, <1>2 DEF Ids

LEMMA MatchingFinite ==
  ASSUME NEW table, NEW req
  PROVE  /\ Matching(table, req) \subseteq Ids /\ IsFiniteSet(Matching(table, req))
         /\ Cardinality(Matching(table, req)) \in 0 .. MaxId
<1>1. Matching(table, req) \in SUBSET Ids
  BY DEF Matching
<1>2. IsFiniteSet(Matching(table, req)) /\ Cardinality(Matching(table, req)) <= MaxId
  BY <1>1, IdsFinite, FS_Subset
<1>3. Cardinality(Matching(table, req)) \in Nat
  BY <1>2, FS_CardinalityType
<1>4. QED
  BY <1>1, <1>2, <1>3, IdsFinite

\* Every column a listing may be sorted by has a number for every row.
LEMMA KeysAreNumbers ==
  ASSUME Table, NEW field \in FieldType, NEW id \in Present
  PROVE  SortKey(users[id], field) \in Int
<1>1. PICK row \in Row : row = users[id]
  BY DEF Table, Present
<1>2. row.email \in Int /\ row.profile \in Int /\ row.createdAt \in Int
  BY ListAssumption DEF Row
<1>3. field.Name \in {"name", "email", "createdAt", "updatedAt"}
  BY DEF FieldType
<1>4. SortKey(row, field) \in Int
  BY <1>2, <1>3 DEF SortKey
<1>5. QED
  BY <1>1, <1>4

\* Without ties one of two rows is before the other.
LEMMA NoTies ==
  ASSUME Table, NEW ids \in SUBSET Present, Order \in FieldType, ~Tied(users, ids, Order)
  PROVE  Strict(ids)
<1>1. ASSUME NEW id \in ids PROVE SortKey(users[id], Order) \in Int
  BY KeysAreNumbers
<1>2. QED
  BY <1>1 DEF Strict, Tied

\* A page of the listing, as the first statement gives it.
Answer(page, s, rows) ==
  LET ids == Matching(users, walk.req)
      n   == Cardinality(ids)
  IN /\ page \in PageType /\ page.Rows = RowsOf(walk.req)
     /\ page.Number = IF Parameters.page = Absent THEN 1 ELSE Parameters.page
     /\ Order \in FieldType /\ Order # Invalid /\ Offset(page) \in Nat
     /\ Sorts(s, ids, n)
     /\ rows \in Seq(RowType) /\ Len(rows) = Filled(n, Offset(page), page.Rows)
     /\ \A i \in 1 .. Len(rows) :
          /\ Offset(page) + i \in 1 .. n /\ rows[i].id = s[Offset(page) + i]
          /\ rows[i].roles = RolesOf[rows[i].id]
     /\ walk' = [walk EXCEPT !.pc = "counting", !.page = page, !.rows = rows, !.drift = 0]

LEMMA OffsetIsInt == ASSUME NEW page \in PageType PROVE Offset(page) \in Int
<1>1. PICK a \in Int : a = (page.Number - 1) * page.Rows
  BY DEF PageType
<1>2. Half \in Nat \ {0}
  BY ListAssumption
<1>3. 2 * Half \in Nat \ {0} /\ a + Half \in Int
  BY <1>2
<1>4. (a + Half) % (2 * Half) \in Int
  BY <1>3
<1>5. Wrap(a) \in Int
  BY <1>2, <1>4 DEF Wrap
<1>6. QED
  BY <1>1, <1>5 DEF Offset

\* The roles of the rows of a page come back as they were written.
LEMMA ScannedRows ==
  ASSUME NEW ids \in Seq(Ids), NEW quoted \in BOOLEAN, NEW rows, rows = Scanned(ids, quoted)
  PROVE  /\ rows \in Seq(RowType) /\ Len(rows) = Len(ids)
         /\ \A i \in 1 .. Len(ids) : rows[i].id = ids[i] /\ rows[i].roles = RolesOf[rows[i].id]
<1>1. PICK n \in Nat : n = Len(ids) /\ DOMAIN ids = 1 .. n /\ ids \in [1 .. n -> Ids]
  BY LenProperties
<1>2. ASSUME NEW i \in 1 .. n PROVE rows[i] = [id |-> ids[i], roles |-> RolesOf[ids[i]]]
  <2>1. RolesOf[ids[i]] \in Seq(ValidRoles)
    BY <1>1, ListAssumption
  <2>2. ParsePostgresArray(PostgresForm(Value(RolesOf[ids[i]]), quoted)) = RolesOf[ids[i]]
    BY <2>1, RoundTrip
  <2>3. rows[i] = [id |-> ids[i],
                   roles |-> ParsePostgresArray(PostgresForm(Value(RolesOf[ids[i]]), quoted))]
    BY <1>1 DEF Scanned
  <2>4. QED
    BY <2>2, <2>3
<1>3. ASSUME NEW i \in 1 .. n
      PROVE  rows[i] \in RowType /\ rows[i].id = ids[i] /\ rows[i].roles = RolesOf[rows[i].id]
  <2>1. PICK id \in Ids : id = ids[i]
    BY <1>1
  <2>2. PICK roles \in Seq(ValidRoles) : roles = RolesOf[id]
    BY ListAssumption
  <2>3. rows[i] = [id |-> id, roles |-> roles]
    BY <1>2, <2>1, <2>2
  <2>4. rows[i] \in RowType
    BY <2>3 DEF RowType
  <2>5. QED
    BY <2>1, <2>2, <2>3, <2>4
<1>4. DOMAIN rows = 1 .. n
  BY <1>1 DEF Scanned
<1>5. rows = [i \in 1 .. n |-> rows[i]]
  BY <1>1 DEF Scanned
<1>6. rows \in [1 .. n -> RowType]
  BY <1>3, <1>5
<1>7. rows \in Seq(RowType) /\ Len(rows) = n
  BY <1>6
<1>8. QED
  BY <1>1, <1>3, <1>7

LEMMA ParametersAreARequest ==
  ASSUME Shape, Progress, walk.pc = "asking"
  PROVE  Parameters \in Request /\ RowsOf(Parameters) = RowsOf(walk.req)
<1>1. walk.req \in Request /\ walk.page.Number \in Int
  <2>1. walk.req \in Requests
    BY DEF Progress
  <2>2. walk.page \in [Number : 1 .. MaxNumber + 1, Rows : Nat \ {0}]
    BY DEF Shape
  <2>3. QED
    BY <2>1, <2>2, ListAssumption
<1>2. PICK r \in Request, num \in Int : r = walk.req /\ num = walk.page.Number
  BY <1>1
<1>3. [r EXCEPT !.page = num] \in Request /\ [r EXCEPT !.page = num].rows = r.rows
  BY <1>2 DEF Request
<1>4. Parameters = r \/ Parameters = [r EXCEPT !.page = num]
  BY <1>2 DEF Parameters
<1>5. Parameters \in Request /\ Parameters.rows = r.rows
  BY <1>2, <1>3, <1>4
<1>6. QED
  BY <1>2, <1>5 DEF RowsOf

\* The first statement fails or answers a page of some ordering.
LEMMA QueryStep ==
  ASSUME Shape, Table, Progress, ListQuery
  PROVE  \/ walk' = [walk EXCEPT !.pc = "failed", !.rows = <<>>]
         \/ \E page, s, rows : Answer(page, s, rows)
<1>1. walk.pc = "asking" /\ walk.req \in Request
  BY ListAssumption DEF ListQuery, Progress
<1>2. Parameters \in Request /\ RowsOf(Parameters) = RowsOf(walk.req)
  BY <1>1, ParametersAreARequest
<1> DEFINE page == ParsePage(Parameters)
           ids == Matching(users, walk.req)
<1>5. ASSUME ~Fail
      PROVE  /\ page # Invalid /\ Order # Invalid /\ Offset(page) >= 0
             /\ \E s \in Orderings(ids, Order), quoted \in BOOLEAN :
                  LET rows == Scanned(Slice(s, Offset(page), page.Rows), quoted)
                  IN IF \E i \in DOMAIN rows : rows[i].roles = Invalid
                     THEN walk' = [walk EXCEPT !.pc = "failed", !.rows = rows]
                     ELSE walk' = [walk EXCEPT !.pc = "counting", !.page = page,
                                               !.rows = rows, !.drift = 0]
  <2>1. IF Invalid \in {page, Order} THEN Fail
        ELSE \/ Fail
             \/ /\ Offset(page) >= 0
                /\ \E s \in Orderings(ids, Order) :
                   \E quoted \in BOOLEAN :
                     LET rows == Scanned(Slice(s, Offset(page), page.Rows), quoted)
                     IN IF \E i \in DOMAIN rows : rows[i].roles = Invalid
                        THEN walk' = [walk EXCEPT !.pc = "failed", !.rows = rows]
                        ELSE walk' = [walk EXCEPT !.pc = "counting", !.page = page,
                                                  !.rows = rows, !.drift = 0]
    BY DEF ListQuery, Order
  <2> HIDE DEF page, ids
  <2>2. QED
    BY <1>5, <2>1, Zenon
<1>3. page = ParsePage(Parameters)
  OBVIOUS
<1>4. ids = Matching(users, walk.req)
  OBVIOUS
<1> HIDE DEF page, ids
<1>6. CASE Fail
  BY <1>6 DEF Fail
<1>7. CASE ~Fail
  <2>1. PICK s \in Orderings(ids, Order), quoted \in BOOLEAN :
          LET rows == Scanned(Slice(s, Offset(page), page.Rows), quoted)
          IN IF \E i \in DOMAIN rows : rows[i].roles = Invalid
             THEN walk' = [walk EXCEPT !.pc = "failed", !.rows = rows]
             ELSE walk' = [walk EXCEPT !.pc = "counting", !.page = page,
                                       !.rows = rows, !.drift = 0]
    BY <1>5, <1>7
  <2>2. page # Invalid /\ Order # Invalid /\ Offset(page) >= 0
    BY <1>5, <1>7
  <2>3. page \in PageType /\ page.Rows = RowsOf(walk.req)
        /\ page.Number = IF Parameters.page = Absent THEN 1 ELSE Parameters.page
    BY <1>2, <1>3, <2>2, ParsedPage
  <2>4. Order \in FieldType
    <3>1. walk.req.order \in Seq(STRING)
      BY <1>1 DEF Request
    <3>2. QED
      BY <2>2, <3>1, ParsedOrder DEF Order
  <2>5. Offset(page) \in Nat
    BY <2>2, <2>3, OffsetIsInt
  <2>6. IsFiniteSet(ids) /\ ids \subseteq Present /\ ids \subseteq Ids
    BY <1>4, MatchingFinite DEF Matching, Present
  <2>7. PICK n \in Nat : n = Cardinality(ids)
    BY <2>6, FS_CardinalityType
  <2>8. Sorts(s, ids, n)
    BY <2>1, <2>6, <2>7, OrderingSorts
  <2>9. Lists(s, Ids, n)
    BY <2>6, <2>8 DEF Sorts, Lists
  <2>10. PICK t : t = Slice(s, Offset(page), page.Rows)
    OBVIOUS
  <2>11. /\ t \in Seq(Ids) /\ Len(t) = Filled(n, Offset(page), page.Rows)
         /\ \A i \in 1 .. Len(t) : Offset(page) + i \in 1 .. n /\ t[i] = s[Offset(page) + i]
    <3>1. PICK r \in Nat \ {0} : r = page.Rows
      BY <2>3 DEF PageType
    <3>2. PICK k \in Nat : k = Offset(page)
      BY <2>5
    <3>3. t = Slice(s, k, r)
      BY <2>10, <3>1, <3>2
    <3>4. IsSlice(t, Ids, s, n, k, r)
      BY <2>9, <3>3, SliceOf
    <3>5. QED
      BY <3>1, <3>2, <3>4 DEF IsSlice
  <2>12. PICK rows : rows = Scanned(t, quoted)
    OBVIOUS
  <2>13. /\ rows \in Seq(RowType) /\ Len(rows) = Len(t)
         /\ \A i \in 1 .. Len(t) : rows[i].id = t[i] /\ rows[i].roles = RolesOf[rows[i].id]
    BY <2>11, <2>12, ScannedRows
  <2>14. IF \E i \in DOMAIN rows : rows[i].roles = Invalid
         THEN walk' = [walk EXCEPT !.pc = "failed", !.rows = rows]
         ELSE walk' = [walk EXCEPT !.pc = "counting", !.page = page, !.rows = rows, !.drift = 0]
    BY <2>1, <2>10, <2>12
  <2>15. ~\E i \in DOMAIN rows : rows[i].roles = Invalid
    <3>1. \A i \in DOMAIN rows : rows[i] \in RowType
      BY <2>13
    <3>2. QED
      BY <3>1, ListAssumption DEF RowType
  <2>16. walk' = [walk EXCEPT !.pc = "counting", !.page = page, !.rows = rows, !.drift = 0]
    BY <2>14, <2>15
  <2>17. ASSUME NEW i \in 1 .. Len(rows)
         PROVE  /\ Offset(page) + i \in 1 .. n /\ rows[i].id = s[Offset(page) + i]
                /\ rows[i].roles = RolesOf[rows[i].id]
    BY <2>11, <2>13
  <2>18. Answer(page, s, rows)
    BY <1>4, <2>2, <2>3, <2>4, <2>5, <2>7, <2>8, <2>11, <2>13, <2>16, <2>17 DEF Answer
  <2>19. QED
    BY <2>18
<1>8. QED
  BY <1>6, <1>7

------------------------------------------------------------------------------
(***************************************************************************)
(* Writes of other requests.                                               *)
(***************************************************************************)
Write == Insert \/ Update \/ Delete

LEMMA TableSuffices ==
  ASSUME users' \in [Ids -> Row \cup {NoRow}], nextId' \in 1 .. MaxId + 1,
         \A id \in nextId' .. MaxId : users'[id] = NoRow,
         \A a, b \in Ids : a # b /\ users'[a] # NoRow /\ users'[b] # NoRow =>
           users'[a].email # users'[b].email
  PROVE  Table'
BY DEF Table, Present

\* Writing one row whose address no other has keeps the table.
LEMMA OneRowWritten ==
  ASSUME Table, NEW id \in Ids, NEW row \in Row, users' = [users EXCEPT ![id] = row],
         nextId' \in 1 .. MaxId + 1, id < nextId', nextId <= nextId',
         \A b \in Ids : b # id /\ users[b] # NoRow => users[b].email # row.email
  PROVE  Table'
<1>1. /\ users \in [Ids -> Row \cup {NoRow}] /\ nextId \in 1 .. MaxId + 1 /\ MaxId \in Nat
      /\ \A b \in nextId .. MaxId : users[b] = NoRow
      /\ \A a, b \in Ids : a # b /\ users[a] # NoRow /\ users[b] # NoRow =>
           users[a].email # users[b].email
  BY ListAssumption DEF Table, Present
<1>2. users' \in [Ids -> Row \cup {NoRow}]
  BY <1>1
<1>3. users'[id] = row /\ \A b \in Ids : b # id => users'[b] = users[b]
  BY <1>1
<1>4. ASSUME NEW b \in nextId' .. MaxId PROVE users'[b] = NoRow
  <2>1. b \in Ids /\ b # id /\ b \in nextId .. MaxId
    BY <1>1 DEF Ids
  <2>2. QED
    BY <1>1, <1>3, <2>1
<1>5. ASSUME NEW a \in Ids, NEW b \in Ids, a # b, users'[a] # NoRow, users'[b] # NoRow
      PROVE  users'[a].email # users'[b].email
  <2>1. CASE a = id
    BY <1>3, <1>5, <2>1
  <2>2. CASE b = id
    BY <1>3, <1>5, <2>2
  <2>3. CASE a # id /\ b # id
    BY <1>1, <1>3, <1>5, <2>3
  <2>4. QED
    BY <2>1, <2>2, <2>3
<1>6. QED
  BY <1>2, <1>4, <1>5, TableSuffices

LEMMA WriteStep ==
  ASSUME Table, Write
  PROVE  Observe /\ Table'
<1>1. /\ users \in [Ids -> Row \cup {NoRow}] /\ nextId \in 1 .. MaxId + 1 /\ MaxId \in Nat
      /\ \A id \in nextId .. MaxId : users[id] = NoRow
      /\ \A a, b \in Ids : a # b /\ users[a] # NoRow /\ users[b] # NoRow =>
           users[a].email # users[b].email
  BY ListAssumption DEF Table, Present
<1>2. CASE Insert
  <2>1. PICK row \in Rows : row.email \in FreeEmails /\ users' = [users EXCEPT ![nextId] = row]
    BY <1>2 DEF Insert
  <2>2. nextId \in Ids /\ nextId' = nextId + 1 /\ Observe /\ nextId <= MaxId
    BY <1>1, <1>2 DEF Insert, Ids
  <2>3. \A b \in Ids : b # nextId /\ users[b] # NoRow => users[b].email # row.email
    BY <2>1 DEF FreeEmails, Present
  <2>4. row \in Row
    BY ListAssumption
  <2>5. nextId' \in 1 .. MaxId + 1 /\ nextId < nextId' /\ nextId <= nextId'
    BY <1>1, <2>2
  <2>6. Table'
    BY <2>1, <2>2, <2>3, <2>4, <2>5, OneRowWritten
  <2>7. QED
    BY <2>2, <2>6
<1>3. CASE Update
  <2>1. PICK id \in Present, row \in Rows :
          /\ row.email \in FreeEmails \cup {users[id].email}
          /\ users' = [users EXCEPT ![id] = row]
    BY <1>3 DEF Update
  <2>2. nextId' = nextId /\ Observe
    BY <1>3 DEF Update
  <2>3. id \in Ids /\ users[id] # NoRow
    BY DEF Present
  <2>4. \A b \in Ids : b # id /\ users[b] # NoRow => users[b].email # row.email
    BY <1>1, <2>1, <2>3 DEF FreeEmails, Present
  <2>5. row \in Row
    BY ListAssumption
  <2>6. id < nextId' /\ nextId' \in 1 .. MaxId + 1 /\ nextId <= nextId'
    <3>1. id \notin nextId .. MaxId
      BY <1>1, <2>3
    <3>2. QED
      BY <1>1, <2>2, <2>3, <3>1 DEF Ids
  <2>7. Table'
    BY <2>1, <2>2, <2>3, <2>4, <2>5, <2>6, OneRowWritten
  <2>8. QED
    BY <2>2, <2>7
<1>4. CASE Delete
  <2>1. PICK id \in Present : users' = [users EXCEPT ![id] = NoRow]
    BY <1>4 DEF Delete
  <2>2. nextId' = nextId /\ Observe /\ id \in Ids
    BY <1>4 DEF Delete, Present
  <2>3. users' \in [Ids -> Row \cup {NoRow}]
    BY <1>1, <2>1
  <2>4. \A b \in Ids : users'[b] # NoRow => users'[b] = users[b]
    BY <1>1, <2>1
  <2>5. ASSUME NEW b \in nextId .. MaxId PROVE users'[b] = NoRow
    <3>1. b \in Ids /\ users[b] = NoRow
      BY <1>1 DEF Ids
    <3>2. QED
      BY <2>4, <3>1
  <2>6. \A a, b \in Ids : a # b /\ users'[a] # NoRow /\ users'[b] # NoRow =>
          users'[a].email # users'[b].email
    BY <1>1, <2>4
  <2>7. Table'
    BY <1>1, <2>2, <2>3, <2>5, <2>6, TableSuffices
  <2>8. QED
    BY <2>2, <2>7
<1>5. QED
  BY <1>2, <1>3, <1>4 DEF Write

\* How a write shows in the history of the walk.
Observed(was, is) ==
  /\ Shape' /\ Running
  /\ walk'.pc = walk.pc /\ walk'.req = walk.req /\ walk'.page = walk.page
  /\ walk'.rows = walk.rows /\ walk'.total = walk.total /\ walk'.seen = walk.seen
  /\ walk'.steady = walk.steady \cap is
  /\ Order # Invalid =>
       /\ ~walk'.tied => ~walk.tied /\ ~Tied(users', is, Order)
       /\ ~walk'.moved =>
            /\ ~walk.moved
            /\ \A id \in was \cap is : SortKey(users'[id], Order) = SortKey(users[id], Order)
       /\ ~walk'.cameAhead =>
            /\ ~walk.cameAhead
            /\ \A id \in is \ was : id \notin Shown /\ \A b \in is : ~Before(users', id, b, Order)
       /\ ~walk'.leftAhead =>
            /\ ~walk.leftAhead
            /\ \A id \in was \ is, b \in was : ~Before(users, id, b, Order)
  /\ walk.pc = "counting" => walk'.drift = walk.drift + Cardinality(SymDiff(was, is))

LEMMA ObserveStep ==
  ASSUME Shape, Observe,
         NEW was, was = Matching(users, walk.req), NEW is, is = Matching(users', walk.req)
  PROVE  Observed(was, is)
<1> DEFINE valid == Order # Invalid
           Ties == valid /\ Tied(users', is, Order)
           Moves == valid /\ \E id \in was \cap is :
                      SortKey(users'[id], Order) # SortKey(users[id], Order)
           Comes == valid /\ \E id \in is \ was :
                      id \in Shown \/ \E b \in is : Before(users', id, b, Order)
           Leaves == valid /\ \E id \in was \ is :
                      \E b \in was : Before(users, id, b, Order)
<1>1. /\ walk.pc \in {"asking", "counting"}
      /\ walk' = [walk EXCEPT
           !.writes = walk.writes + 1,
           !.steady = walk.steady \cap is,
           !.tied = walk.tied \/ Ties,
           !.moved = walk.moved \/ Moves,
           !.cameAhead = walk.cameAhead \/ Comes,
           !.leftAhead = walk.leftAhead \/ Leaves,
           !.drift = IF walk.pc = "counting"
                     THEN walk.drift + Cardinality(SymDiff(was, is)) ELSE walk.drift]
  BY ZenonT(60) DEF Observe, Order
<1>s. /\ ~Ties => (valid => ~Tied(users', is, Order))
      /\ ~Moves => (valid => \A id \in was \cap is :
                      SortKey(users'[id], Order) = SortKey(users[id], Order))
      /\ ~Comes => (valid => \A id \in is \ was :
                      id \notin Shown /\ \A b \in is : ~Before(users', id, b, Order))
      /\ ~Leaves => (valid => \A id \in was \ is, b \in was : ~Before(users, id, b, Order))
  BY Zenon
<1> HIDE DEF Ties, Moves, Comes, Leaves
<1>2. PICK st : st = walk.steady \cap is
  OBVIOUS
<1>3. PICK ti \in BOOLEAN : ti = (walk.tied \/ Ties)
  OBVIOUS
<1>4. PICK mo \in BOOLEAN : mo = (walk.moved \/ Moves)
  OBVIOUS
<1>5. PICK ca \in BOOLEAN : ca = (walk.cameAhead \/ Comes)
  OBVIOUS
<1>l. PICK le \in BOOLEAN : le = (walk.leftAhead \/ Leaves)
  OBVIOUS
<1>6. PICK dr : dr = IF walk.pc = "counting"
                     THEN walk.drift + Cardinality(SymDiff(was, is)) ELSE walk.drift
  OBVIOUS
<1>7. PICK wr : wr = walk.writes + 1
  OBVIOUS
<1>8. walk' = [walk EXCEPT !.writes = wr, !.steady = st, !.tied = ti, !.moved = mo,
                           !.cameAhead = ca, !.leftAhead = le, !.drift = dr]
  BY <1>1, <1>2, <1>3, <1>4, <1>5, <1>l, <1>6, <1>7, Zenon
<1>9. Cardinality(SymDiff(was, is)) \in Nat
  <2>1. SymDiff(was, is) \in SUBSET Ids
    BY DEF Matching, SymDiff
  <2>2. IsFiniteSet(SymDiff(was, is))
    BY <2>1, IdsFinite, FS_Subset
  <2>3. QED
    BY <2>2, FS_CardinalityType
<1>10. walk.drift \in Nat /\ walk.writes \in Nat /\ walk.steady \subseteq Ids
  BY DEF Shape
<1>11. dr \in Nat /\ wr \in Nat /\ st \in SUBSET Ids
  BY <1>2, <1>6, <1>7, <1>9, <1>10
<1>12. Shape'
  BY <1>8, <1>11, ZenonT(60) DEF Shape
<1>13. /\ walk'.pc = walk.pc /\ walk'.req = walk.req /\ walk'.page = walk.page
       /\ walk'.rows = walk.rows /\ walk'.total = walk.total /\ walk'.seen = walk.seen
       /\ walk'.steady = st /\ walk'.drift = dr
  BY <1>8 DEF Shape
<1>14. walk'.tied = ti /\ walk'.moved = mo /\ walk'.cameAhead = ca /\ walk'.leftAhead = le
  BY <1>8 DEF Shape
<1>15. /\ ~walk'.tied => ~walk.tied /\ ~Ties
       /\ ~walk'.moved => ~walk.moved /\ ~Moves
       /\ ~walk'.cameAhead => ~walk.cameAhead /\ ~Comes
       /\ ~walk'.leftAhead => ~walk.leftAhead /\ ~Leaves
  BY <1>3, <1>4, <1>5, <1>l, <1>14, Zenon
<1>16. ASSUME valid
       PROVE  /\ ~walk'.tied => ~walk.tied /\ ~Tied(users', is, Order)
              /\ ~walk'.moved =>
                   /\ ~walk.moved
                   /\ \A id \in was \cap is : SortKey(users'[id], Order) = SortKey(users[id], Order)
              /\ ~walk'.cameAhead =>
                   /\ ~walk.cameAhead
                   /\ \A id \in is \ was : id \notin Shown /\ \A b \in is : ~Before(users', id, b, Order)
              /\ ~walk'.leftAhead =>
                   /\ ~walk.leftAhead
                   /\ \A id \in was \ is, b \in was : ~Before(users, id, b, Order)
  BY <1>s, <1>15, <1>16, Zenon
<1>17. Running
  BY <1>1 DEF Running
<1>18. walk'.steady = walk.steady \cap is
  BY <1>2, <1>13
<1>19. walk.pc = "counting" => walk'.drift = walk.drift + Cardinality(SymDiff(was, is))
  BY <1>6, <1>13
<1>20. QED
  BY <1>12, <1>13, <1>16, <1>17, <1>18, <1>19, Zenon DEF Observed

LEMMA Drifted ==
  ASSUME NEW was, NEW is, IsFiniteSet(was), IsFiniteSet(is)
  PROVE  /\ Cardinality(was) \in Nat /\ Cardinality(is) \in Nat
         /\ Cardinality(SymDiff(was, is)) \in Nat
         /\ Cardinality(is) <= Cardinality(was) + Cardinality(SymDiff(was, is))
         /\ Cardinality(was) <= Cardinality(is) + Cardinality(SymDiff(was, is))
<1>1. PICK d : d = SymDiff(was, is)
  OBVIOUS
<1>2. IsFiniteSet(d)
  <2>1. IsFiniteSet(was \cup is)
    BY FS_Union
  <2>2. d \in SUBSET (was \cup is)
    BY <1>1 DEF SymDiff
  <2>3. QED
    BY <2>1, <2>2, FS_Subset
<1>3. ASSUME NEW a, NEW b, IsFiniteSet(a), IsFiniteSet(b), b \subseteq a \cup d
      PROVE  Cardinality(b) <= Cardinality(a) + Cardinality(d)
  <2>1. /\ IsFiniteSet(a \cup d)
        /\ Cardinality(a \cup d) = Cardinality(a) + Cardinality(d) - Cardinality(a \cap d)
    BY <1>2, <1>3, FS_Union
  <2>2. b \in SUBSET (a \cup d) /\ a \cap d \in SUBSET d
    BY <1>3
  <2>3. Cardinality(b) <= Cardinality(a \cup d) /\ IsFiniteSet(a \cap d)
    BY <1>2, <2>1, <2>2, FS_Subset
  <2>4. /\ Cardinality(a) \in Nat /\ Cardinality(b) \in Nat /\ Cardinality(d) \in Nat
        /\ Cardinality(a \cap d) \in Nat
    BY <1>2, <1>3, <2>3, FS_CardinalityType
  <2>5. QED
    BY <2>1, <2>3, <2>4
<1>4. is \subseteq was \cup d /\ was \subseteq is \cup d
  BY <1>1 DEF SymDiff
<1>5. QED
  BY <1>1, <1>2, <1>3, <1>4, FS_CardinalityType

Joins(u, s, t) ==
  /\ Len(u) = Len(s) + Len(t) /\ ToSet(u) = ToSet(s) \cup ToSet(t)
  /\ IsInjective(u) => IsInjective(s)
  /\ IsInjective(s) /\ IsInjective(t) /\ ToSet(s) \cap ToSet(t) = {} => IsInjective(u)

LEMMA Joined ==
  ASSUME NEW S, NEW s \in Seq(S), NEW t \in Seq(S), NEW u, u = s \o t
  PROVE  Joins(u, s, t)
<1>1. PICK m \in Nat : m = Len(s) /\ DOMAIN s = 1 .. m
  BY LenProperties
<1>2. PICK n \in Nat : n = Len(t) /\ DOMAIN t = 1 .. n
  BY LenProperties
<1>3. /\ u \in Seq(S) /\ Len(u) = m + n
      /\ \A i \in 1 .. m + n : u[i] = IF i <= m THEN s[i] ELSE t[i - m]
  BY <1>1, <1>2, ConcatProperties
<1>4. DOMAIN u = 1 .. m + n
  BY <1>3
<1>5. \A i \in 1 .. m : i \in 1 .. m + n /\ u[i] = s[i]
  BY <1>3
<1>6. \A i \in 1 .. n : m + i \in 1 .. m + n /\ u[m + i] = t[i]
  <2>1. \A i \in 1 .. n : m + i \in 1 .. m + n /\ ~(m + i <= m) /\ (m + i) - m = i
    OBVIOUS
  <2>2. QED
    BY <1>3, <2>1
<1>7. \A i \in 1 .. m + n : i \in 1 .. m \/ (i - m \in 1 .. n /\ i = m + (i - m))
  OBVIOUS
<1>8. ToSet(u) = ToSet(s) \cup ToSet(t)
  <2>1. ASSUME NEW x \in ToSet(u) PROVE x \in ToSet(s) \cup ToSet(t)
    <3>1. PICK i \in 1 .. m + n : x = u[i]
      BY <1>4 DEF ToSet
    <3>2. CASE i \in 1 .. m
      BY <1>1, <1>5, <3>1, <3>2 DEF ToSet
    <3>3. CASE i - m \in 1 .. n /\ i = m + (i - m)
      BY <1>2, <1>6, <3>1, <3>3 DEF ToSet
    <3>4. QED
      BY <1>7, <3>2, <3>3
  <2>2. ASSUME NEW x \in ToSet(s) PROVE x \in ToSet(u)
    BY <1>1, <1>4, <1>5 DEF ToSet
  <2>3. ASSUME NEW x \in ToSet(t) PROVE x \in ToSet(u)
    BY <1>2, <1>4, <1>6 DEF ToSet
  <2>4. QED
    BY <2>1, <2>2, <2>3
<1>9. ASSUME IsInjective(u) PROVE IsInjective(s)
  BY <1>1, <1>4, <1>5, <1>9 DEF IsInjective
<1>10. ASSUME IsInjective(s), IsInjective(t), ToSet(s) \cap ToSet(t) = {}
       PROVE  IsInjective(u)
  <2>1. SUFFICES ASSUME NEW a \in 1 .. m + n, NEW b \in 1 .. m + n, u[a] = u[b] PROVE a = b
    BY <1>4 DEF IsInjective
  <2>2. ASSUME NEW i \in 1 .. m, NEW j \in 1 .. n PROVE s[i] # t[j]
    BY <1>1, <1>2, <1>10 DEF ToSet
  <2>3. CASE a \in 1 .. m /\ b \in 1 .. m
    <3>1. s[a] = s[b]
      BY <1>5, <2>1, <2>3
    <3>2. QED
      BY <1>1, <1>10, <2>3, <3>1 DEF IsInjective
  <2>4. CASE a \in 1 .. m /\ b - m \in 1 .. n /\ b = m + (b - m)
    <3>1. u[a] = s[a] /\ u[b] = t[b - m]
      BY <1>5, <1>6, <2>4
    <3>2. QED
      BY <2>1, <2>2, <2>4, <3>1
  <2>5. CASE b \in 1 .. m /\ a - m \in 1 .. n /\ a = m + (a - m)
    BY <1>5, <1>6, <2>1, <2>2, <2>5, ZenonT(30)
  <2>6. CASE a - m \in 1 .. n /\ a = m + (a - m) /\ b - m \in 1 .. n /\ b = m + (b - m)
    <3>1. t[a - m] = t[b - m]
      BY <1>6, <2>1, <2>6
    <3>2. a - m = b - m
      BY <1>2, <1>10, <2>6, <3>1 DEF IsInjective
    <3>3. QED
      BY <2>6, <3>2
  <2>7. QED
    BY <1>7, <2>3, <2>4, <2>5, <2>6
<1>11. QED
  BY <1>1, <1>2, <1>3, <1>8, <1>9, <1>10 DEF Joins

------------------------------------------------------------------------------
(***************************************************************************)
(* Every step keeps the invariant.                                         *)
(***************************************************************************)
LEMMA NoRows == /\ <<>> \in Seq(Ids) /\ Len(<<>>) = 0 /\ ToSet(<<>>) = {} /\ IsInjective(<<>>)
                /\ DOMAIN <<>> = {} /\ <<>> \in Seq(RowType)
<1>1. DOMAIN <<>> = {}
  OBVIOUS
<1>2. QED
  BY <1>1 DEF ToSet, IsInjective

LEMMA InitInv == ASSUME Init PROVE ListInv
<1>1. MaxId \in Nat /\ MaxNumber \in Nat \ {0}
  BY ListAssumption
<1>2. walk = NoWalk
  BY DEF Init
<1>3. Shape
  <2>1. NoWalk.page \in [Number : 1 .. MaxNumber + 1, Rows : Nat \ {0}] /\ 0 \in 0 .. MaxId
    BY <1>1 DEF NoWalk
  <2>2. QED
    BY <1>2, <2>1 DEF Shape, NoWalk, States
<1>4. Table
  <2>1. /\ users \in [Ids -> Rows \cup {NoRow}] /\ nextId \in 1 .. MaxId + 1
        /\ \A id \in nextId .. MaxId : users[id] = NoRow
        /\ \A a, b \in Ids : a # b /\ NoRow \notin {users[a], users[b]} =>
             users[a].email # users[b].email
    BY DEF Init
  <2>2. users \in [Ids -> Row \cup {NoRow}]
    BY <2>1, ListAssumption
  <2>3. QED
    BY <2>1, <2>2 DEF Table, Present
<1>5. walk.pc = "idle" /\ walk.seen = <<>> /\ walk.rows = <<>>
  BY <1>2 DEF NoWalk
<1>6. Progress
  BY <1>5 DEF Progress
<1>7. Counted /\ TotalWithinDrift
  BY <1>5 DEF Counted, TotalWithinDrift
<1>8. RolesSurvive
  BY <1>5, NoRows DEF RolesSurvive
<1>9. ShownSeq = <<>> /\ ~Started
  BY <1>5 DEF ShownSeq, Started
<1>10. Repeats /\ Untied
  BY <1>5, <1>9 DEF Repeats, Untied
<1>11. Misses
  BY <1>9 DEF Misses
<1>12. QED
  BY <1>3, <1>4, <1>6, <1>7, <1>8, <1>10, <1>11 DEF ListInv

LEMMA SameTable == ASSUME Table, UNCHANGED <<users, nextId>> PROVE Table'
BY DEF Table, Present

LEMMA BeginInv == ASSUME ListInv, Begin PROVE ListInv'
<1>1. PICK q \in Requests :
        LET ids == Matching(users, q)
            field == ParseOrderBy(q.order)
        IN walk' = [NoWalk EXCEPT
                      !.pc = "asking", !.req = q, !.steady = ids,
                      !.tied = field # Invalid /\ Tied(users, ids, field)]
  BY DEF Begin
<1>t. PICK ti \in BOOLEAN :
        ti = (ParseOrderBy(q.order) # Invalid /\ Tied(users, Matching(users, q), ParseOrderBy(q.order)))
  OBVIOUS
<1>2. UNCHANGED <<users, nextId>> /\ users' = users
  BY DEF Begin
<1>3. PICK st \in SUBSET Ids : st = Matching(users, q)
  BY DEF Matching
<1>4. /\ walk'.pc = "asking" /\ walk'.req = q /\ walk'.steady = st /\ walk'.seen = <<>>
      /\ walk'.rows = <<>> /\ walk'.page = [Number |-> 1, Rows |-> 1] /\ walk'.tied = ti
  BY <1>1, <1>3, <1>t DEF NoWalk
<1>5. Shape'
  <2>1. MaxId \in Nat /\ MaxNumber \in Nat \ {0}
    BY ListAssumption
  <2>2. NoWalk.page \in [Number : 1 .. MaxNumber + 1, Rows : Nat \ {0}] /\ 0 \in 0 .. MaxId
    BY <2>1 DEF NoWalk
  <2>3. walk' = [NoWalk EXCEPT !.pc = "asking", !.req = q, !.steady = st, !.tied = ti]
    BY <1>1, <1>3, <1>t
  <2>4. PICK w : w = NoWalk
    OBVIOUS
  <2>5. w \in [pc : States, req : Requests \cup {Absent},
               page : [Number : 1 .. MaxNumber + 1, Rows : Nat \ {0}],
               rows : Seq([id : Ids, roles : Seq(ValidRoles)]),
               total : 0 .. MaxId, seen : Seq(Ids), steady : SUBSET Ids,
               tied : BOOLEAN, moved : BOOLEAN, cameAhead : BOOLEAN, leftAhead : BOOLEAN,
               drift : Nat, writes : Nat]
    BY <2>2, <2>4 DEF NoWalk, States
  <2>6. walk' = [w EXCEPT !.pc = "asking", !.req = q, !.steady = st, !.tied = ti]
    BY <2>3, <2>4
  <2>7. QED
    BY <2>5, <2>6 DEF Shape, States
<1>6. Table'
  BY <1>2, SameTable DEF ListInv
<1>7. Progress'
  <2>1. walk'.page.Number = 1 /\ walk'.page.Rows = 1 /\ Len(<<>>) = 0 /\ (1 - 1) * 1 = 0
    BY <1>4
  <2>2. walk'.steady \subseteq Matching(users', walk'.req)
    BY <1>2, <1>3, <1>4
  <2>3. QED
    BY <1>4, <2>1, <2>2 DEF Progress
<1>8. Counted' /\ TotalWithinDrift'
  BY <1>4 DEF Counted, TotalWithinDrift
<1>9. RolesSurvive'
  BY <1>4, NoRows DEF RolesSurvive
<1>10. ShownSeq' = <<>> /\ walk'.pc # "end" /\ walk'.pc # "counting"
  BY <1>4 DEF ShownSeq
<1>11. Repeats'
  BY <1>10, NoRows DEF Repeats
<1>12. Misses'
  <2>1. ASSUME NEW id \in walk'.steady PROVE Cardinality(Earlier(id)') >= 0
    <3>1. Earlier(id)' \in SUBSET Ids
      BY DEF Earlier, Matching
    <3>2. IsFiniteSet(Earlier(id)')
      BY <3>1, IdsFinite, FS_Subset
    <3>3. Cardinality(Earlier(id)') \in Nat
      BY <3>2, FS_CardinalityType
    <3>4. QED
      BY <3>3
  <2>2. QED
    BY <1>10, <2>1, NoRows DEF Misses
<1>13. Untied'
  <2>1. ti \/ ParseOrderBy(q.order) = Invalid
           \/ ~Tied(users, Matching(users, q), ParseOrderBy(q.order))
    BY <1>t, Zenon
  <2>2. walk'.tied = ti /\ walk'.req = q /\ users' = users
    BY <1>2, <1>4
  <2>3. QED
    BY <2>1, <2>2, Zenon DEF Untied, Order
<1>14. QED
  BY <1>5, <1>6, <1>7, <1>8, <1>9, <1>11, <1>12, <1>13 DEF ListInv

LEMMA StutterInv == ASSUME ListInv, UNCHANGED vars PROVE ListInv'
<1>1. users' = users /\ nextId' = nextId /\ walk' = walk
  BY DEF vars
<1>2. Order' = Order /\ ShownSeq' = ShownSeq
  BY <1>1 DEF Order, ShownSeq, PageIds
<1>3. \A id : Earlier(id)' = Earlier(id)
  BY <1>1, <1>2 DEF Earlier, Precedes
<1>4. Shape' /\ Table' /\ Progress' /\ Counted' /\ TotalWithinDrift' /\ RolesSurvive'
  BY <1>1, <1>2 DEF ListInv, Shape, Table, Present, Progress, Counted, TotalWithinDrift,
                    RolesSurvive
<1>5. Started' = Started /\ NothingCameBefore' = NothingCameBefore /\ NothingLeft' = NothingLeft
      /\ Running' = Running
  BY <1>1, <1>2 DEF Started, NothingCameBefore, NothingLeft, Running
<1>6. Repeats' /\ Misses' /\ Untied'
  BY <1>1, <1>2, <1>3, <1>5 DEF ListInv, Repeats, Misses, Untied
<1>7. QED
  BY <1>4, <1>6 DEF ListInv

LEMMA PageIdsSeq ==
  ASSUME NEW rows \in Seq(RowType), NEW t, t = [i \in DOMAIN rows |-> rows[i].id]
  PROVE  /\ t \in Seq(Ids) /\ Len(t) = Len(rows) /\ \A i \in 1 .. Len(rows) : t[i] = rows[i].id
         /\ ToSet(t) = {rows[i].id : i \in 1 .. Len(rows)}
<1>1. PICK n \in Nat : n = Len(rows) /\ DOMAIN rows = 1 .. n /\ rows \in [1 .. n -> RowType]
  BY LenProperties
<1>2. \A i \in 1 .. n : rows[i].id \in Ids
  BY <1>1 DEF RowType
<1>3. t = [i \in 1 .. n |-> rows[i].id]
  BY <1>1
<1>4. t \in [1 .. n -> Ids]
  BY <1>2, <1>3
<1>5. t \in Seq(Ids) /\ Len(t) = n
  BY <1>4
<1>6. ToSet(t) = {rows[i].id : i \in 1 .. n}
  BY <1>3 DEF ToSet
<1>7. QED
  BY <1>1, <1>3, <1>5, <1>6

LEMMA ShownFacts ==
  ASSUME Shape
  PROVE  /\ PageIds \in Seq(Ids) /\ Len(PageIds) = Len(walk.rows)
         /\ walk.seen \in Seq(Ids) /\ ShownSeq \in Seq(Ids)
         /\ walk.pc # "counting" => ShownSeq = walk.seen
         /\ walk.pc = "counting" => ShownSeq = walk.seen \o PageIds
<1>1. walk.rows \in Seq(RowType) /\ walk.seen \in Seq(Ids)
  BY DEF Shape, RowType
<1>2. PageIds \in Seq(Ids) /\ Len(PageIds) = Len(walk.rows)
  BY <1>1, PageIdsSeq DEF PageIds
<1>3. walk.seen \o PageIds \in Seq(Ids)
  BY <1>1, <1>2, ConcatProperties
<1>4. QED
  BY <1>1, <1>2, <1>3 DEF ShownSeq

LEMMA FailInv ==
  ASSUME ListInv, Running, UNCHANGED <<users, nextId>>,
         walk' = [walk EXCEPT !.pc = "failed", !.rows = <<>>]
  PROVE  ListInv'
<1>1. Shape /\ Table /\ Progress /\ Repeats
  BY DEF ListInv
<1>2. /\ walk'.pc = "failed" /\ walk'.rows = <<>> /\ walk'.seen = walk.seen
      /\ walk'.req = walk.req /\ walk'.page = walk.page
  BY <1>1 DEF Shape
<1>3. walk'.tied = walk.tied /\ walk'.moved = walk.moved /\ walk'.cameAhead = walk.cameAhead
  BY <1>1 DEF Shape
<1>4. Shape'
  <2>1. PICK e \in Seq([id : Ids, roles : Seq(ValidRoles)]) : e = <<>>
    BY NoRows DEF RowType
  <2>2. walk' = [walk EXCEPT !.pc = "failed", !.rows = e]
    BY <2>1
  <2>3. QED
    BY <1>1, <2>2 DEF Shape, States
<1>5. Table'
  BY <1>1, SameTable
<1>6. Order' = Order
  BY <1>2 DEF Order
<1>7. Progress'
  BY <1>1, <1>2, <1>6 DEF Progress, Running
<1>8. Counted' /\ TotalWithinDrift'
  BY <1>2 DEF Counted, TotalWithinDrift
<1>9. RolesSurvive'
  BY <1>2, NoRows DEF RolesSurvive
<1>10. ShownSeq' = walk.seen /\ ~Running'
  BY <1>2 DEF ShownSeq, Running
<1>11. ToSet(walk.seen) \subseteq ToSet(ShownSeq) /\ (IsInjective(ShownSeq) => IsInjective(walk.seen))
  <2>1. CASE walk.pc # "counting"
    BY <1>1, <2>1, ShownFacts
  <2>2. CASE walk.pc = "counting"
    <3>1. ShownSeq = walk.seen \o PageIds /\ walk.seen \in Seq(Ids) /\ PageIds \in Seq(Ids)
      BY <1>1, <2>2, ShownFacts
    <3>2. Joins(ShownSeq, walk.seen, PageIds)
      BY <3>1, Joined
    <3>3. QED
      BY <3>2 DEF Joins
  <2>3. QED
    BY <2>1, <2>2
<1>12. Started' => Started
  BY <1>2, <1>6 DEF Started, Running
<1>13. NothingCameBefore' => NothingCameBefore
  BY <1>3, Zenon DEF NothingCameBefore
<1>14. Repeats'
  BY <1>1, <1>10, <1>11, <1>12, <1>13 DEF Repeats
<1>15. Misses' /\ Untied'
  BY <1>2, <1>10 DEF Misses, Untied
<1>16. QED
  BY <1>4, <1>5, <1>7, <1>8, <1>9, <1>14, <1>15 DEF ListInv

\* The second statement: what was shown has been seen, and nothing else changes
\* for the walk.
LEMMA CountInv == ASSUME ListInv, ListCount PROVE ListInv'
<1>1. Shape /\ Table /\ Progress /\ Counted /\ Untied /\ Repeats /\ Misses /\ RolesSurvive
  BY DEF ListInv
<1>2. walk.pc = "counting" /\ UNCHANGED <<users, nextId>> /\ users' = users /\ nextId' = nextId
  BY DEF ListCount
<1>3. CASE Fail
  BY <1>2, <1>3, FailInv DEF Fail, Running
<1>4. ASSUME ~Fail PROVE ListInv'
  <2> DEFINE full == ~(Len(walk.rows) < walk.page.Rows)
  <2>1. walk' = [walk EXCEPT
          !.total = CountStatement(walk.req),
          !.seen = walk.seen \o PageIds,
          !.pc = IF Len(walk.rows) < walk.page.Rows THEN "end" ELSE "asking",
          !.page.Number = IF Len(walk.rows) < walk.page.Rows
                          THEN walk.page.Number ELSE walk.page.Number + 1]
    BY <1>4 DEF ListCount, PageIds
  <2>2. PICK num : num = IF full THEN walk.page.Number + 1 ELSE walk.page.Number
    OBVIOUS
  <2>3. PICK rows \in Nat \ {0} : rows = walk.page.Rows
    BY <1>1 DEF Shape
  <2>4. PICK old \in 1 .. MaxNumber : old = walk.page.Number
    BY <1>1, <1>2, ListAssumption DEF Shape, Progress
  <2>5. PICK pc : pc = IF full THEN "asking" ELSE "end"
    OBVIOUS
  <2>6. PICK page : page = [walk.page EXCEPT !.Number = num]
    OBVIOUS
  <2>7. /\ page \in [Number : 1 .. MaxNumber + 1, Rows : Nat \ {0}]
        /\ page.Number = num /\ page.Rows = rows
    <3>1. walk.page \in [Number : 1 .. MaxNumber + 1, Rows : Nat \ {0}]
      BY <1>1 DEF Shape
    <3>2. num \in 1 .. MaxNumber + 1
      BY <2>2, <2>4, ListAssumption
    <3>3. QED
      BY <2>3, <2>6, <3>1, <3>2
  <2>8. PICK seen \in Seq(Ids) : seen = ShownSeq /\ seen = walk.seen \o PageIds
    BY <1>1, <1>2, ShownFacts
  <2>9. PICK total \in 0 .. MaxId : total = CountStatement(walk.req)
    BY MatchingFinite DEF CountStatement
  <2>10. walk' = [walk EXCEPT !.total = total, !.seen = seen, !.pc = pc, !.page = page]
    BY <2>1, <2>2, <2>5, <2>6, <2>8, <2>9
  <2>11. Shape'
    BY <1>1, <2>5, <2>7, <2>10 DEF Shape, States
  <2>12. /\ walk'.pc = pc /\ walk'.page = page /\ walk'.seen = ShownSeq /\ walk'.req = walk.req
         /\ walk'.rows = walk.rows /\ walk'.steady = walk.steady
    BY <1>1, <2>8, <2>10 DEF Shape
  <2>13. /\ walk'.tied = walk.tied /\ walk'.moved = walk.moved
         /\ walk'.cameAhead = walk.cameAhead /\ walk'.leftAhead = walk.leftAhead
    BY <1>1, <2>10 DEF Shape
  <2>14. Order' = Order
    BY <2>12 DEF Order
  <2>15. Table'
    BY <1>1, <1>2, SameTable
  <2>16. Progress'
    <3>1. walk'.req \in Requests /\ walk'.page.Rows = RowsOf(walk'.req) /\ Order' # Invalid
      BY <1>1, <1>2, <2>3, <2>7, <2>12, <2>14 DEF Progress
    <3>2. walk'.pc \in {"asking", "end"}
      BY <2>5, <2>12
    <3>3. ASSUME walk'.pc = "asking", walk'.req.page \in {Absent, 1}
          PROVE  Len(walk'.seen) = (walk'.page.Number - 1) * walk'.page.Rows
      <4>1. full /\ num = old + 1
        BY <2>2, <2>4, <2>5, <2>12, <3>3
      <4>2. Len(walk.seen) = (old - 1) * rows
        BY <1>1, <1>2, <2>3, <2>4, <2>12, <3>3 DEF Progress
      <4>3. Len(ShownSeq) = Len(walk.seen) + Len(walk.rows) /\ Len(walk.rows) \in Nat
        <5>1. walk.rows \in Seq(RowType)
          BY <1>1 DEF Shape, RowType
        <5>2. PageIds \in Seq(Ids) /\ Len(PageIds) = Len(walk.rows) /\ walk.seen \in Seq(Ids)
          BY <1>1, ShownFacts
        <5>3. Len(ShownSeq) = Len(walk.seen) + Len(PageIds)
          <6>1. ShownSeq = walk.seen \o PageIds
            BY <2>8
          <6>2. Len(walk.seen \o PageIds) = Len(walk.seen) + Len(PageIds)
            BY <5>2, ConcatProperties
          <6>3. QED
            BY <6>1, <6>2
        <5>4. QED
          BY <5>1, <5>2, <5>3
      <4>4. Len(walk.rows) = rows
        BY <1>1, <1>2, <2>3, <4>1, <4>3 DEF Progress
      <4>5. Len(ShownSeq) = ((old - 1) * rows) + rows
        BY <4>2, <4>3, <4>4
      <4>6. ((old - 1) * rows) + rows = ((old + 1) - 1) * rows
        <5>1. PICK m \in Nat : m = old - 1
          OBVIOUS
        <5>2. (m * rows) + rows = (m + 1) * rows
          OBVIOUS
        <5>3. QED
          BY <5>1, <5>2
      <4>7. QED
        BY <2>7, <2>12, <4>1, <4>5, <4>6
    <3>4. ASSUME walk'.pc = "asking" PROVE walk'.steady \subseteq Matching(users', walk'.req)
      BY <1>1, <1>2, <2>12 DEF Progress
    <3>5. QED
      BY <3>1, <3>2, <3>3, <3>4 DEF Progress
  <2>17. Counted' /\ TotalWithinDrift'
    <3>1. Counted'
      BY <2>5, <2>12 DEF Counted
    <3>2. ASSUME walk'.pc = "end"
          PROVE  LET shown == Offset(walk'.page) + Len(walk'.rows)
                 IN /\ walk'.total <= shown + walk'.drift
                    /\ walk'.rows # <<>> => walk'.total >= shown - walk'.drift
      <4>1. ~full /\ num = walk.page.Number
        BY <2>2, <2>5, <2>12, <3>2
      <4>2. walk'.page = walk.page
        <5>1. page = walk.page
          BY <1>1, <2>6, <4>1 DEF Shape
        <5>2. QED
          BY <2>12, <5>1
      <4>3. walk'.total = Cardinality(Matching(users, walk.req)) /\ walk'.drift = walk.drift
        BY <1>1, <2>9, <2>10 DEF Shape, CountStatement
      <4>4. QED
        BY <1>1, <1>2, <2>12, <4>1, <4>2, <4>3 DEF Counted
    <3>3. TotalWithinDrift'
      BY <3>2 DEF TotalWithinDrift
    <3>4. QED
      BY <3>1, <3>3
  <2>18. RolesSurvive'
    BY <1>1, <2>12 DEF RolesSurvive
  <2>19. ShownSeq' = ShownSeq
    BY <2>5, <2>12 DEF ShownSeq
  <2>20. Started' => Started
    BY <1>2, <2>12, <2>14 DEF Started
  <2>21. /\ NothingCameBefore' => NothingCameBefore
         /\ NothingLeft' => NothingLeft
         /\ Running
    <3>1. (NothingCameBefore' => NothingCameBefore) /\ (NothingLeft' => NothingLeft)
      BY <2>13, Zenon DEF NothingCameBefore, NothingLeft
    <3>2. QED
      BY <1>2, <3>1 DEF Running
  <2>22. \A id : Earlier(id)' = Earlier(id)
    BY <1>2, <2>12, <2>14 DEF Earlier, Precedes
  <2>23. Repeats'
    BY <1>1, <1>2, <2>12, <2>19, <2>20, <2>21, <2>22 DEF Repeats
  <2>24. Misses'
    <3>1. walk'.pc = "end" => Len(walk.rows) < walk.page.Rows
      BY <2>5, <2>12
    <3>2. QED
      BY <1>1, <1>2, <2>5, <2>12, <2>19, <2>20, <2>21, <2>22, <3>1 DEF Misses
  <2>25. Untied'
    <3>1. walk.tied \/ ~Tied(users, Matching(users, walk.req), Order)
      BY <1>1, <1>2 DEF Untied, Progress
    <3>2. QED
      BY <1>2, <2>12, <2>13, <2>14, <3>1, Zenon DEF Untied
  <2>26. QED
    BY <2>11, <2>15, <2>16, <2>17, <2>18, <2>23, <2>24, <2>25 DEF ListInv
<1>5. QED
  BY <1>3, <1>4

LEMMA EarlierFinite == ASSUME NEW id PROVE IsFiniteSet(Earlier(id)) /\ Cardinality(Earlier(id)) \in Nat
<1>1. Earlier(id) \in SUBSET Ids
  BY DEF Earlier, Matching
<1>2. IsFiniteSet(Earlier(id))
  BY <1>1, IdsFinite, FS_Subset
<1>3. QED
  BY <1>2, FS_CardinalityType

\* Rows whose keys a write leaves alone stay as they are to each other.
LEMMA KeysStay ==
  ASSUME Order' = Order, NEW a, NEW b,
         SortKey(users'[a], Order) = SortKey(users[a], Order),
         SortKey(users'[b], Order) = SortKey(users[b], Order)
  PROVE  Precedes(a, b)' <=> Precedes(a, b)
BY DEF Precedes, Before

LEMMA ShownIsShown == ASSUME Shape PROVE ToSet(ShownSeq) \subseteq Shown
<1>1. CASE walk.pc # "counting"
  BY <1>1, ShownFacts DEF Shown
<1>2. CASE walk.pc = "counting"
  <2>1. ShownSeq = walk.seen \o PageIds /\ walk.seen \in Seq(Ids) /\ PageIds \in Seq(Ids)
    BY <1>2, ShownFacts
  <2>2. ToSet(ShownSeq) = ToSet(walk.seen) \cup ToSet(PageIds)
    <3>1. Joins(ShownSeq, walk.seen, PageIds)
      BY <2>1, Joined
    <3>2. QED
      BY <3>1 DEF Joins
  <2>3. ToSet(PageIds) = {walk.rows[i].id : i \in DOMAIN walk.rows}
    BY DEF PageIds, ToSet
  <2>4. QED
    BY <2>2, <2>3 DEF Shown
<1>3. QED
  BY <1>1, <1>2

LEMMA WriteInv == ASSUME ListInv, Write PROVE ListInv'
<1>1. Shape /\ Table /\ Progress /\ Counted /\ RolesSurvive /\ Repeats /\ Misses
  BY DEF ListInv
<1>2. Observe /\ Table'
  BY <1>1, WriteStep
<1>3. PICK was : was = Matching(users, walk.req)
  OBVIOUS
<1>4. PICK is : is = Matching(users', walk.req)
  OBVIOUS
<1>5. /\ Shape' /\ Running
      /\ walk'.pc = walk.pc /\ walk'.req = walk.req /\ walk'.page = walk.page
      /\ walk'.rows = walk.rows /\ walk'.total = walk.total /\ walk'.seen = walk.seen
      /\ walk'.steady = walk.steady \cap is
      /\ walk.pc = "counting" => walk'.drift = walk.drift + Cardinality(SymDiff(was, is))
  <2>1. Observed(was, is)
    BY <1>1, <1>2, <1>3, <1>4, ObserveStep
  <2>2. QED
    BY <2>1 DEF Observed
<1>o. ASSUME Order # Invalid
      PROVE  /\ ~walk'.tied => ~walk.tied /\ ~Tied(users', is, Order)
             /\ ~walk'.moved =>
                  /\ ~walk.moved
                  /\ \A id \in was \cap is : SortKey(users'[id], Order) = SortKey(users[id], Order)
             /\ ~walk'.cameAhead =>
                  /\ ~walk.cameAhead
                  /\ \A id \in is \ was : id \notin Shown /\ \A b \in is : ~Before(users', id, b, Order)
             /\ ~walk'.leftAhead =>
                  /\ ~walk.leftAhead
                  /\ \A id \in was \ is, b \in was : ~Before(users, id, b, Order)
  <2>1. Observed(was, is)
    BY <1>1, <1>2, <1>3, <1>4, ObserveStep
  <2>2. QED
    BY <1>o, <2>1 DEF Observed
<1>6. Order' = Order /\ ShownSeq' = ShownSeq /\ Running'
  BY <1>5 DEF Order, ShownSeq, PageIds, Running
<1>7. /\ \A b \in was : b \in Ids /\ users[b] # NoRow
      /\ \A b \in is : b \in Ids /\ users'[b] # NoRow
  BY <1>3, <1>4 DEF Matching
<1>8. Matching(users', walk'.req) = is
  BY <1>4, <1>5
<1>9. Started' => Started
  BY <1>5, <1>6 DEF Started
<1>10. Progress'
  BY <1>1, <1>5, <1>6, <1>8 DEF Progress
<1>11. Counted'
  <2>1. SUFFICES ASSUME walk.pc = "counting"
                 PROVE  LET shown == Offset(walk'.page) + Len(walk'.rows)
                            count == Cardinality(is)
                        IN /\ Offset(walk'.page) >= 0
                           /\ Len(walk'.rows) < walk'.page.Rows => count <= shown + walk'.drift
                           /\ walk'.rows # <<>> => count >= shown - walk'.drift
    BY <1>5, <1>8 DEF Counted
  <2>2. PICK offset \in Int : offset = Offset(walk.page)
    <3>1. walk.page \in PageType
      BY <1>1, <2>1, ListAssumption DEF Shape, Progress, PageType
    <3>2. QED
      BY <3>1, OffsetIsInt
  <2>3. PICK len \in Nat : len = Len(walk.rows)
    BY <1>1 DEF Shape
  <2>4. PICK drift \in Nat : drift = walk.drift
    BY <1>1 DEF Shape
  <2>5. IsFiniteSet(was) /\ IsFiniteSet(is)
    BY <1>3, <1>4, MatchingFinite
  <2>6. PICK c \in Nat, d \in Nat, m \in Nat :
          /\ c = Cardinality(was) /\ d = Cardinality(is) /\ m = Cardinality(SymDiff(was, is))
          /\ d <= c + m /\ c <= d + m
    BY <2>5, Drifted
  <2>7. /\ offset >= 0
        /\ len < walk.page.Rows => c <= (offset + len) + drift
        /\ walk.rows # <<>> => c >= (offset + len) - drift
    BY <1>1, <1>3, <2>1, <2>2, <2>3, <2>4, <2>6 DEF Counted
  <2>8. /\ offset >= 0
        /\ len < walk.page.Rows => d <= (offset + len) + (drift + m)
        /\ walk.rows # <<>> => d >= (offset + len) - (drift + m)
    BY <2>6, <2>7, SMTT(30)
  <2>9. walk'.drift = drift + m
    BY <1>5, <2>1, <2>4, <2>6
  <2>10. QED
    BY <1>5, <2>2, <2>3, <2>6, <2>8, <2>9
<1>12. RolesSurvive' /\ TotalWithinDrift'
  BY <1>1, <1>5 DEF RolesSurvive, TotalWithinDrift, Running
<1>13. Repeats'
  <2>1. ToSet(ShownSeq) \subseteq Shown
    BY <1>1, ShownIsShown
  <2>3. ASSUME Started', NothingCameBefore'
        PROVE  /\ IsInjective(ShownSeq)
               /\ \A id \in ToSet(ShownSeq) \cap is : Cardinality(Earlier(id)') < Len(ShownSeq)
    <3>1. Order # Invalid /\ ~walk'.tied /\ ~walk'.moved /\ ~walk'.cameAhead
      BY <1>9, <2>3 DEF NothingCameBefore, Started
    <3>2. NothingCameBefore
      BY <1>o, <3>1, Zenon DEF NothingCameBefore
    <3>3. /\ \A id \in was \cap is : SortKey(users'[id], Order) = SortKey(users[id], Order)
          /\ \A id \in is \ was : id \notin Shown /\ \A b \in is : ~Before(users', id, b, Order)
      BY <1>o, <3>1, Zenon
    <3>4. /\ IsInjective(ShownSeq)
          /\ \A id \in ToSet(ShownSeq) \cap was : Cardinality(Earlier(id)) < Len(ShownSeq)
      BY <1>1, <1>3, <1>5, <1>9, <2>3, <3>2 DEF Repeats
    <3>5. ASSUME NEW id \in ToSet(ShownSeq) \cap is
          PROVE  id \in was /\ Earlier(id)' \subseteq Earlier(id)
      <4>1. id \in was
        BY <2>1, <3>3
      <4>2. ASSUME NEW b \in Earlier(id)' PROVE b \in Earlier(id)
        <5>1. b \in is /\ Precedes(b, id)'
          BY <1>8 DEF Earlier
        <5>2. Before(users', b, id, Order)
          BY <1>6, <5>1 DEF Precedes
        <5>3. b \in was
          BY <3>3, <5>1, <5>2
        <5>4. /\ SortKey(users'[b], Order) = SortKey(users[b], Order)
              /\ SortKey(users'[id], Order) = SortKey(users[id], Order)
          BY <3>3, <4>1, <5>1, <5>3
        <5>5. Precedes(b, id)
          BY <1>6, <5>1, <5>4, KeysStay
        <5>6. QED
          BY <1>3, <5>3, <5>5 DEF Earlier
      <4>3. QED
        BY <4>1, <4>2
    <3>6. ASSUME NEW id \in ToSet(ShownSeq) \cap is
          PROVE  Cardinality(Earlier(id)') < Len(ShownSeq)
      <4>1. Cardinality(Earlier(id)) < Len(ShownSeq)
        BY <3>4, <3>5
      <4>2. IsFiniteSet(Earlier(id)) /\ Cardinality(Earlier(id)) \in Nat
        BY EarlierFinite
      <4>3. Earlier(id)' \in SUBSET Earlier(id)
        BY <3>5
      <4>4. Cardinality(Earlier(id)') <= Cardinality(Earlier(id)) /\ IsFiniteSet(Earlier(id)')
        BY <4>2, <4>3, FS_Subset
      <4>5. Cardinality(Earlier(id)') \in Nat
        BY <4>4, FS_CardinalityType
      <4>6. Len(ShownSeq) \in Nat
        BY <1>1, ShownFacts
      <4>7. QED
        BY <4>1, <4>2, <4>4, <4>5, <4>6
    <3>7. QED
      BY <3>4, <3>6
  <2>4. QED
    BY <1>6, <1>8, <2>3 DEF Repeats
<1>14. Misses'
  <2>1. ASSUME Started', NothingLeft'
        PROVE  /\ \A id \in walk'.steady \ ToSet(ShownSeq) : Cardinality(Earlier(id)') >= Len(ShownSeq)
               /\ walk.pc = "counting" /\ Len(walk.rows) < walk.page.Rows =>
                    walk'.steady \subseteq ToSet(ShownSeq)
    <3>0. Order # Invalid /\ ~walk'.tied /\ ~walk'.moved /\ ~walk'.leftAhead
      BY <1>9, <2>1 DEF NothingLeft, Started
    <3>1. NothingLeft
      BY <1>o, <3>0, Zenon DEF NothingLeft
    <3>2. /\ \A id \in walk.steady \ ToSet(ShownSeq) : Cardinality(Earlier(id)) >= Len(ShownSeq)
          /\ walk.pc = "counting" /\ Len(walk.rows) < walk.page.Rows =>
               walk.steady \subseteq ToSet(ShownSeq)
      BY <1>1, <1>5, <1>9, <2>1, <3>1 DEF Misses
    <3>3. ASSUME NEW id \in walk'.steady \ ToSet(ShownSeq)
          PROVE  Cardinality(Earlier(id)') >= Len(ShownSeq)
      <4>1. id \in walk.steady /\ id \in was /\ id \in is
        BY <1>1, <1>3, <1>5 DEF Progress, Running
      <4>2. ASSUME NEW b \in Earlier(id) PROVE b \in Earlier(id)'
        <5>0. b \in was /\ Precedes(b, id)
          BY <1>3 DEF Earlier
        <5>1. b \in is
          BY <1>o, <3>0, <4>1, <5>0 DEF Precedes
        <5>2. Precedes(b, id)'
          <6>1. /\ SortKey(users'[b], Order) = SortKey(users[b], Order)
                /\ SortKey(users'[id], Order) = SortKey(users[id], Order)
            BY <1>o, <3>0, <4>1, <5>0, <5>1
          <6>2. QED
            BY <1>6, <5>0, <6>1, KeysStay
        <5>3. QED
          BY <1>8, <5>1, <5>2 DEF Earlier
      <4>3. Earlier(id)' \in SUBSET Ids
        BY DEF Earlier, Matching
      <4>4. IsFiniteSet(Earlier(id)')
        BY <4>3, IdsFinite, FS_Subset
      <4>5. Earlier(id) \in SUBSET Earlier(id)'
        BY <4>2
      <4>6. Cardinality(Earlier(id)) <= Cardinality(Earlier(id)')
        BY <4>4, <4>5, FS_Subset
      <4>7. Cardinality(Earlier(id)) \in Nat /\ Cardinality(Earlier(id)') \in Nat /\ Len(ShownSeq) \in Nat
        BY <1>1, <4>4, EarlierFinite, FS_CardinalityType, ShownFacts
      <4>8. QED
        BY <3>2, <4>1, <4>6, <4>7
    <3>4. QED
      BY <1>5, <3>2, <3>3
  <2>2. walk'.pc # "end"
    BY <1>5 DEF Running
  <2>3. QED
    BY <1>5, <1>6, <2>1, <2>2 DEF Misses
<1>15. Untied'
  BY <1>o, <1>6, <1>8 DEF Untied
<1>16. QED
  BY <1>2, <1>5, <1>10, <1>11, <1>12, <1>13, <1>14, <1>15 DEF ListInv

\* The first statement: the page begins where the walk has come to.
LEMMA AnswerInv ==
  ASSUME ListInv, walk.pc = "asking", UNCHANGED <<users, nextId>>,
         NEW page, NEW s, NEW rows, Answer(page, s, rows)
  PROVE  ListInv'
<1>1. Shape /\ Table /\ Progress /\ Untied /\ Repeats /\ Misses /\ users' = users /\ nextId' = nextId
  BY DEF ListInv
<1>2. PICK ids : ids = Matching(users, walk.req)
  OBVIOUS
<1>3. IsFiniteSet(ids) /\ ids \subseteq Present /\ ids \subseteq Ids
  BY <1>2, MatchingFinite DEF Matching, Present
<1>4. PICK n \in Nat : n = Cardinality(ids)
  BY <1>3, FS_CardinalityType
<1>5. PICK k \in Nat : k = Offset(page)
  BY DEF Answer
<1>6. PICK len \in Nat : len = Len(rows)
  BY DEF Answer
<1>7. PICK r \in Nat \ {0} : r = page.Rows /\ r = RowsOf(walk.req) /\ page \in PageType
  BY DEF Answer, PageType
<1>8. Sorts(s, ids, n) /\ Lists(s, ids, n) /\ s \in [1 .. n -> ids]
  BY <1>2, <1>4 DEF Answer, Sorts, Lists
<1>9. len = Filled(n, k, r)
  BY <1>2, <1>4, <1>5, <1>6, <1>7 DEF Answer
<1>10. \A i \in 1 .. len : k + i \in 1 .. n /\ rows[i].id = s[k + i]
  BY <1>2, <1>4, <1>5, <1>6 DEF Answer
<1>11. \A i \in 1 .. len : rows[i].roles = RolesOf[rows[i].id]
  BY <1>6 DEF Answer
<1>12. rows \in Seq(RowType) /\ DOMAIN rows = 1 .. len
  BY <1>6 DEF Answer
<1>13. walk' = [walk EXCEPT !.pc = "counting", !.page = page, !.rows = rows, !.drift = 0]
  BY DEF Answer
<1>14. /\ walk'.pc = "counting" /\ walk'.page = page /\ walk'.rows = rows /\ walk'.drift = 0
       /\ walk'.req = walk.req /\ walk'.seen = walk.seen /\ walk'.steady = walk.steady
  BY <1>1, <1>13 DEF Shape
<1>15. /\ walk'.tied = walk.tied /\ walk'.moved = walk.moved
       /\ walk'.cameAhead = walk.cameAhead /\ walk'.leftAhead = walk.leftAhead
  BY <1>1, <1>13 DEF Shape
<1>16. Order' = Order /\ Order # Invalid
  BY <1>14 DEF Order, Answer
<1>17. Matching(users', walk'.req) = ids
  BY <1>1, <1>2, <1>14
<1>18. Shape'
  <2>1. page \in [Number : 1 .. MaxNumber + 1, Rows : Nat \ {0}]
    BY <1>7, ListAssumption DEF PageType
  <2>2. rows \in Seq([id : Ids, roles : Seq(ValidRoles)]) /\ 0 \in Nat
    BY <1>12 DEF RowType
  <2>3. QED
    BY <1>1, <1>13, <2>1, <2>2 DEF Shape, States
<1>19. Table'
  BY <1>1, SameTable
<1>20. len <= r
  BY <1>9 DEF Filled
<1>21. walk.req.page \in {Absent, 1} => Len(walk.seen) = (page.Number - 1) * r
  <2>1. SUFFICES ASSUME walk.req.page \in {Absent, 1}
                 PROVE  Len(walk.seen) = (page.Number - 1) * r
    OBVIOUS
  <2>2. page.Number = IF Parameters.page = Absent THEN 1 ELSE Parameters.page
    BY DEF Answer
  <2>3. CASE walk.seen = <<>>
    <3>1. page.Number = 1
      BY <2>1, <2>2, <2>3 DEF Parameters
    <3>2. QED
      BY <2>3, <3>1, NoRows
  <2>4. CASE walk.seen # <<>>
    <3>1. walk.req \in Request /\ walk.page.Number \in Int
      BY <1>1, ListAssumption DEF Progress, Shape
    <3>2. PICK req \in Request, num \in Int : req = walk.req /\ num = walk.page.Number
      BY <3>1
    <3>3. [req EXCEPT !.page = num].page = num /\ num # Absent
      BY ListAssumption DEF Request
    <3>4. page.Number = num
      BY <2>2, <2>4, <3>2, <3>3 DEF Parameters
    <3>5. Len(walk.seen) = (num - 1) * walk.page.Rows /\ walk.page.Rows = r
      BY <1>1, <1>7, <2>1, <2>4, <3>2 DEF Progress
    <3>6. QED
      BY <3>4, <3>5
  <2>5. QED
    BY <2>3, <2>4
<1>22. Progress'
  <2>1. walk'.req \in Requests /\ walk'.steady \subseteq ids
    BY <1>1, <1>2, <1>14 DEF Progress
  <2>2. walk'.page.Rows = RowsOf(walk'.req) /\ walk'.page.Number <= MaxNumber
    <3>1. page.Number \in 1 .. MaxNumber
      BY <1>7 DEF PageType
    <3>2. page.Number <= MaxNumber
      BY <3>1
    <3>3. walk'.page.Rows = RowsOf(walk.req) /\ RowsOf(walk'.req) = RowsOf(walk.req)
      BY <1>7, <1>14
    <3>4. QED
      BY <1>14, <3>2, <3>3
  <2>3. Len(walk'.rows) <= walk'.page.Rows
    BY <1>6, <1>7, <1>14, <1>20
  <2>4. walk'.req.page \in {Absent, 1} =>
          Len(walk'.seen) = (walk'.page.Number - 1) * walk'.page.Rows
    BY <1>7, <1>14, <1>21
  <2>5. QED
    BY <1>14, <1>16, <1>17, <2>1, <2>2, <2>3, <2>4 DEF Progress
<1>23. Counted'
  <2>1. /\ k >= 0 /\ (len < r => n <= (k + len) + 0)
        /\ (len # 0 => n >= (k + len) - 0)
    BY <1>9 DEF Filled
  <2>2. rows # <<>> => len # 0
    BY <1>6, <1>12
  <2>3. QED
    BY <1>4, <1>5, <1>6, <1>7, <1>14, <1>17, <2>1, <2>2 DEF Counted
<1>24. RolesSurvive' /\ TotalWithinDrift'
  BY <1>11, <1>12, <1>14 DEF RolesSurvive, TotalWithinDrift
<1>25. PICK t : t = [i \in DOMAIN rows |-> rows[i].id]
  OBVIOUS
<1>26. /\ t \in Seq(Ids) /\ Len(t) = len /\ DOMAIN t = 1 .. len
       /\ \A i \in 1 .. len : t[i] = s[k + i]
  <2>1. t \in Seq(Ids) /\ Len(t) = Len(rows) /\ \A i \in 1 .. Len(rows) : t[i] = rows[i].id
    BY <1>12, <1>25, PageIdsSeq
  <2>2. QED
    BY <1>6, <1>10, <2>1
<1>27. ShownSeq = walk.seen /\ walk.seen \in Seq(Ids) /\ Len(walk.seen) \in Nat
  BY <1>1, ShownFacts
<1>28. ShownSeq' = walk.seen \o t
  BY <1>14, <1>25 DEF ShownSeq, PageIds
<1>29. Joins(ShownSeq', walk.seen, t)
  BY <1>26, <1>27, <1>28, Joined
<1>30. \A id : Earlier(id)' = {b \in ids : Precedes(b, id)} /\ Earlier(id) = Earlier(id)'
  BY <1>1, <1>2, <1>14, <1>16 DEF Earlier, Precedes
<1>31. Running' /\ Running
  BY <1>14 DEF Running
<1>32. Len(ShownSeq') = Len(walk.seen) + len /\ ToSet(ShownSeq') = ToSet(walk.seen) \cup ToSet(t)
  BY <1>26, <1>29 DEF Joins
<1>33. ASSUME Started', ~walk.tied
       PROVE  /\ Started /\ k = Len(walk.seen)
              /\ \A p \in 1 .. n : Cardinality(Earlier(s[p])) = p - 1
  <2>1. Started /\ walk.req.page \in {Absent, 1} /\ Fits(r)
    BY <1>7, <1>14, <1>16, <1>33 DEF Started
  <2>2. k = (page.Number - 1) * r
    BY <1>5, <1>7, <2>1, OffsetOf DEF PageType
  <2>3. Strict(ids)
    <3>1. ~Tied(users, ids, Order)
      BY <1>1, <1>2, <1>16, <1>33 DEF Untied
    <3>2. Order \in FieldType
      BY DEF Answer
    <3>3. QED
      BY <1>1, <1>3, <3>1, <3>2, NoTies
  <2>4. ASSUME NEW p \in 1 .. n PROVE Cardinality(Earlier(s[p])) = p - 1
    <3>1. Cardinality({b \in ids : Precedes(b, s[p])}) = p - 1
      BY <1>3, <1>8, <2>3, ExactPlace
    <3>2. QED
      BY <1>30, <3>1
  <2>5. QED
    BY <1>21, <2>1, <2>2, <2>4
<1>34. Repeats'
  <2>2. ASSUME Started', NothingCameBefore'
        PROVE  /\ IsInjective(ShownSeq')
               /\ \A id \in ToSet(ShownSeq') \cap ids : Cardinality(Earlier(id)') < Len(ShownSeq')
    <3>1. NothingCameBefore
      BY <1>15, <2>2, Zenon DEF NothingCameBefore
    <3>2. ~walk.tied
      BY <3>1 DEF NothingCameBefore
    <3>3. Started /\ k = Len(walk.seen) /\ \A p \in 1 .. n : Cardinality(Earlier(s[p])) = p - 1
      BY <1>33, <2>2, <3>2
    <3>4. /\ IsInjective(walk.seen)
          /\ \A id \in ToSet(walk.seen) \cap ids : Cardinality(Earlier(id)) < k
      BY <1>1, <1>2, <1>27, <1>31, <3>1, <3>3 DEF Repeats
    <3>5. ASSUME NEW x \in ToSet(t)
          PROVE  x \in ids /\ x \notin ToSet(walk.seen) /\ Cardinality(Earlier(x)) < k + len
      <4>1. PICK i \in 1 .. len : x = t[i]
        BY <1>26 DEF ToSet
      <4>2. x = s[k + i] /\ k + i \in 1 .. n
        BY <1>10, <1>26, <4>1
      <4>3. Cardinality(Earlier(x)) = k + i - 1
        BY <3>3, <4>2
      <4>4. x \in ids
        BY <1>8, <4>2
      <4>5. ~(Cardinality(Earlier(x)) < k) /\ Cardinality(Earlier(x)) < k + len
        BY <4>3
      <4>6. QED
        BY <3>4, <4>4, <4>5
    <3>6. IsInjective(t)
      <4>1. \A i, j \in 1 .. n : i # j => s[i] # s[j]
        BY <1>8 DEF Lists
      <4>2. SUFFICES ASSUME NEW a \in 1 .. len, NEW b \in 1 .. len, a # b PROVE t[a] # t[b]
        BY <1>26 DEF IsInjective
      <4>3. k + a \in 1 .. n /\ k + b \in 1 .. n /\ k + a # k + b
        BY <1>10, <4>2
      <4>4. s[k + a] # s[k + b]
        BY <4>1, <4>3
      <4>5. QED
        BY <1>26, <4>4
    <3>7. ToSet(walk.seen) \cap ToSet(t) = {}
      BY <3>5
    <3>8. IsInjective(ShownSeq')
      BY <1>29, <3>4, <3>6, <3>7 DEF Joins
    <3>9. ASSUME NEW id \in ToSet(ShownSeq') \cap ids PROVE Cardinality(Earlier(id)') < Len(ShownSeq')
      <4>1. Len(ShownSeq') = k + len
        BY <1>32, <3>3
      <4>2. CASE id \in ToSet(t)
        BY <1>30, <3>5, <4>1, <4>2
      <4>3. CASE id \in ToSet(walk.seen)
        <5>1. Cardinality(Earlier(id)) < k /\ Cardinality(Earlier(id)) \in Nat
          BY <3>4, <4>3, EarlierFinite
        <5>2. Cardinality(Earlier(id)) < k + len
          BY <5>1
        <5>3. QED
          BY <1>30, <4>1, <5>2
      <4>4. QED
        BY <1>32, <4>2, <4>3
    <3>10. QED
      BY <3>8, <3>9
  <2>3. QED
    BY <1>17, <2>2 DEF Repeats
<1>35. Misses'
  <2>1. ASSUME Started', NothingLeft'
        PROVE  /\ \A id \in walk.steady \ ToSet(ShownSeq') : Cardinality(Earlier(id)') >= Len(ShownSeq')
               /\ len < r => walk.steady \subseteq ToSet(ShownSeq')
    <3>1. NothingLeft
      BY <1>15, <2>1, Zenon DEF NothingLeft
    <3>2. ~walk.tied
      BY <3>1 DEF NothingLeft
    <3>3. Started /\ k = Len(walk.seen) /\ \A p \in 1 .. n : Cardinality(Earlier(s[p])) = p - 1
      BY <1>33, <2>1, <3>2
    <3>4. \A id \in walk.steady \ ToSet(walk.seen) : Cardinality(Earlier(id)) >= k
      BY <1>1, <1>27, <1>31, <3>1, <3>3 DEF Misses
    <3>5. ASSUME NEW id \in walk.steady \ ToSet(ShownSeq')
          PROVE  Cardinality(Earlier(id)) >= k + len /\ ~(len < r)
      <4>1. id \in ids
        BY <1>1, <1>2 DEF Progress
      <4>2. PICK p \in 1 .. n : s[p] = id
        BY <1>8, <4>1 DEF Sorts
      <4>3. Cardinality(Earlier(id)) = p - 1
        BY <3>3, <4>2
      <4>4. p - 1 >= k
        BY <1>32, <3>4, <4>3
      <4>5. ~(p <= k + len)
        <5>1. SUFFICES ASSUME p <= k + len PROVE FALSE
          OBVIOUS
        <5>2. PICK i \in 1 .. len : k + i = p
          <6>1. p - k \in 1 .. len /\ k + (p - k) = p
            BY <4>4, <5>1
          <6>2. QED
            BY <6>1
        <5>3. t[i] = id
          BY <1>26, <4>2, <5>2
        <5>4. id \in ToSet(t)
          BY <1>26, <5>3 DEF ToSet
        <5>5. QED
          BY <1>32, <5>4
      <4>6. ~(len < r)
        BY <1>9, <4>4, <4>5 DEF Filled
      <4>7. QED
        BY <4>3, <4>5, <4>6
    <3>6. Len(ShownSeq') = k + len
      BY <1>32, <3>3
    <3>7. QED
      BY <1>30, <3>5, <3>6
  <2>2. Len(walk'.rows) < walk'.page.Rows => len < r
    BY <1>6, <1>7, <1>14
  <2>3. QED
    BY <1>14, <2>1, <2>2 DEF Misses
<1>36. Untied'
  <2>1. walk.tied \/ ~Tied(users, ids, Order)
    BY <1>1, <1>2, <1>16 DEF Untied
  <2>2. QED
    BY <1>1, <1>15, <1>16, <1>17, <2>1, Zenon DEF Untied
<1>37. QED
  BY <1>18, <1>19, <1>22, <1>23, <1>24, <1>34, <1>35, <1>36 DEF ListInv

LEMMA QueryInv == ASSUME ListInv, ListQuery PROVE ListInv'
<1>1. Shape /\ Table /\ Progress
  BY DEF ListInv
<1>2. walk.pc = "asking" /\ Running /\ UNCHANGED <<users, nextId>>
  BY DEF ListQuery, Running
<1>3. CASE walk' = [walk EXCEPT !.pc = "failed", !.rows = <<>>]
  BY <1>2, <1>3, FailInv
<1>4. CASE \E page, s, rows : Answer(page, s, rows)
  <2>1. PICK page, s, rows : Answer(page, s, rows)
    BY <1>4
  <2>2. QED
    BY <1>2, <2>1, AnswerInv
<1>5. QED
  BY <1>1, <1>3, <1>4, QueryStep

\* The listing keeps its invariant at every step of the client and of others.
THEOREM ListingInvariance == Spec => []ListInv
<1>1. Init => ListInv
  BY InitInv
<1>2. ListInv /\ [Next]_vars => ListInv'
  <2> SUFFICES ASSUME ListInv, [Next]_vars PROVE ListInv'
    OBVIOUS
  <2>1. CASE Begin
    BY <2>1, BeginInv
  <2>2. CASE ListQuery
    BY <2>2, QueryInv
  <2>3. CASE ListCount
    BY <2>3, CountInv
  <2>4. CASE Write
    BY <2>4, WriteInv
  <2>5. CASE Finished \/ UNCHANGED vars
    BY <2>5, StutterInv DEF Finished
  <2>6. QED
    BY <2>1, <2>2, <2>3, <2>4, <2>5 DEF Next, Write
<1>3. QED
  BY <1>1, <1>2, PTL DEF Spec

------------------------------------------------------------------------------
(***************************************************************************)
(* What follows for the listing.                                           *)
(***************************************************************************)
\* The table, the walk and the pages it gets keep their types: page numbers
\* stay within page.Parse's bound and no page holds a row without valid roles.
THEOREM UserListTypes == Spec => []TypeOK
<1>1. ListInv => TypeOK
  <2> SUFFICES ASSUME ListInv PROVE TypeOK
    OBVIOUS
  <2>1. /\ walk.pc \in States /\ walk.req \in Requests \cup {Absent}
        /\ walk.page \in [Number : 1 .. MaxNumber + 1, Rows : Nat \ {0}]
        /\ walk.rows \in Seq([id : Ids, roles : Seq(ValidRoles)])
        /\ walk.total \in 0 .. MaxId /\ walk.seen \in Seq(Ids) /\ walk.steady \subseteq Ids
    BY DEF ListInv, Shape
  <2>2. walk.page.Number \in 1 .. MaxNumber + 1 /\ walk.page.Rows >= 1
    BY <2>1
  <2>3. walk.total \in 0 .. Cardinality(Ids)
    BY <2>1, IdsFinite
  <2>4. users \in [Ids -> Row \cup {NoRow}] /\ nextId \in 1 .. MaxId + 1
    BY DEF ListInv, Table
  <2>5. \A i \in DOMAIN walk.rows : walk.rows[i] \in [id : Ids, roles : Seq(ValidRoles)]
    <3>1. PICK rows \in Seq(RowType) : rows = walk.rows
      BY <2>1 DEF RowType
    <3>2. \A i \in DOMAIN rows : rows[i] \in RowType
      OBVIOUS
    <3>3. QED
      BY <3>1, <3>2 DEF RowType
  <2>6. QED
    BY <2>1, <2>2, <2>3, <2>4, <2>5 DEF TypeOK, States
<1>2. QED
  BY <1>1, ListingInvariance, PTL

\* Roles come out of the column as they went in, whatever they are and however
\* PostgreSQL writes them.
THEOREM RolesComeBack == Spec => []RolesSurvive
<1>1. ListInv => RolesSurvive
  BY DEF ListInv
<1>2. QED
  BY <1>1, ListingInvariance, PTL

\* The total of a last page differs from the rows shown and skipped by no more
\* than what came and went between the two statements.
THEOREM TotalIsClose == Spec => []TotalWithinDrift
<1>1. ListInv => TotalWithinDrift
  BY DEF ListInv
<1>2. QED
  BY <1>1, ListingInvariance, PTL

\* A walk to the end shows every row that matched all along, in any order and
\* however many rows come, if no row left the listing ahead of another, none
\* moved in it and no two were tied: the offset of a page counts the rows shown.
THEOREM NothingIsMissed == Spec => []WalkMissesNothing
<1>1. ListInv => WalkMissesNothing
  <2> SUFFICES ASSUME ListInv, walk.pc = "end", FromTheStart, NothingLeft
               PROVE  walk.steady \subseteq ToSet(walk.seen)
    BY DEF WalkMissesNothing, NothingLeft
  <2>1. walk.page.Rows = RowsOf(walk.req) /\ Order # Invalid /\ walk.page.Rows \in Nat
    BY DEF ListInv, Progress, Shape
  <2>2. Started /\ ShownSeq = walk.seen
    BY <2>1 DEF Started, FromTheStart, ShownSeq
  <2>3. QED
    BY <2>2 DEF ListInv, Misses
<1>2. QED
  BY <1>1, ListingInvariance, PTL

\* A walk shows no row twice, in any order and however many rows leave, if none
\* came into the listing ahead of another or back to it, none moved in it and no
\* two were tied.
THEOREM NothingIsRepeated == Spec => []WalkRepeatsNothing
<1>1. ListInv => WalkRepeatsNothing
  <2> SUFFICES ASSUME ListInv, walk.seen # <<>>, FromTheStart, NothingCameBefore
               PROVE  IsInjective(walk.seen)
    BY DEF WalkRepeatsNothing, NothingCameBefore
  <2>1. walk.page.Rows = RowsOf(walk.req) /\ Order # Invalid /\ walk.page.Rows \in Nat
    BY DEF ListInv, Progress, Shape
  <2>2. IsInjective(ShownSeq) => IsInjective(walk.seen)
    <3>1. CASE walk.pc # "counting"
      BY <3>1, ShownFacts DEF ListInv
    <3>2. CASE walk.pc = "counting"
      <4>1. ShownSeq = walk.seen \o PageIds /\ walk.seen \in Seq(Ids) /\ PageIds \in Seq(Ids)
        BY <3>2, ShownFacts DEF ListInv
      <4>2. Joins(ShownSeq, walk.seen, PageIds)
        BY <4>1, Joined
      <4>3. QED
        BY <4>2 DEF Joins
    <3>3. QED
      BY <3>1, <3>2
  <2>3. walk.pc # "idle"
    BY DEF ListInv, Progress
  <2>4. Started
    BY <2>1, <2>3 DEF Started, FromTheStart
  <2>5. QED
    BY <2>2, <2>4 DEF ListInv, Repeats
<1>2. QED
  BY <1>1, ListingInvariance, PTL

\* Row i of page n is the one whose place in the order it has, up to ties, as
\* long as the offset of the page cannot overflow.
THEOREM PagesAreInPlace == Spec => PageInPlace
<1>1. ListInv /\ [Next]_vars => [InPlace]_vars
  <2> SUFFICES ASSUME ListInv, Next PROVE InPlace
    OBVIOUS
  <2>1. SUFFICES ASSUME walk.pc = "asking", walk'.pc = "counting", Fits(walk'.page.Rows),
                        NEW i \in DOMAIN walk'.rows,
                        NEW ids, ids = Matching(users, walk.req),
                        NEW id, id = walk'.rows[i].id,
                        NEW place, place = ((walk'.page.Number - 1) * walk'.page.Rows) + i
                 PROVE  /\ Cardinality({b \in ids : Precedes(b, id)}) < place
                        /\ place <= Cardinality({b \in ids : ~Precedes(id, b)})
    BY DEF InPlace
  <2>2. Shape /\ Table /\ Progress
    BY DEF ListInv
  <2>3. ListQuery
    <3>1. CASE Write
      <4>1. Observe
        BY <2>2, <3>1, WriteStep
      <4>2. Observed(Matching(users, walk.req), Matching(users', walk.req))
        BY <2>2, <4>1, ObserveStep
      <4>3. QED
        BY <2>1, <4>2 DEF Observed
    <3>2. QED
      BY <2>1, <3>1 DEF Next, Write, Begin, ListCount, Finished
  <2>4. PICK page, s, rows : Answer(page, s, rows)
    <3>1. walk' # [walk EXCEPT !.pc = "failed", !.rows = <<>>]
      BY <2>1, <2>2 DEF Shape
    <3>2. QED
      BY <2>2, <2>3, <3>1, QueryStep
  <2>5. walk'.page = page /\ walk'.rows = rows
    BY <2>2, <2>4 DEF Answer, Shape
  <2>6. page \in PageType /\ Fits(page.Rows)
    BY <2>1, <2>4, <2>5 DEF Answer
  <2>7. PICK k \in Nat : k = Offset(page) /\ k = (page.Number - 1) * page.Rows
    BY <2>6, OffsetOf DEF PageType
  <2>8. IsFiniteSet(ids) /\ ids \subseteq Present
    BY <2>1, MatchingFinite DEF Matching, Present
  <2>9. PICK n \in Nat : n = Cardinality(ids)
    BY <2>8, FS_CardinalityType
  <2>10. Sorts(s, ids, n)
    BY <2>1, <2>4, <2>9 DEF Answer
  <2>11. rows \in Seq(RowType) /\ i \in 1 .. Len(rows)
    BY <2>1, <2>4, <2>5 DEF Answer
  <2>12. k + i \in 1 .. n /\ id = s[k + i]
    BY <2>1, <2>4, <2>5, <2>7, <2>9, <2>11 DEF Answer
  <2>13. place = k + i
    BY <2>1, <2>5, <2>7
  <2>14. \A b \in ids : SortKey(users[b], Order) \in Int
    <3>1. Order \in FieldType
      BY <2>4 DEF Answer
    <3>2. QED
      BY <2>2, <2>8, <3>1, KeysAreNumbers
  <2>15. PICK p \in 1 .. n : p = k + i
    BY <2>12
  <2>16. /\ Cardinality({b \in ids : Precedes(b, s[p])}) < p
         /\ p <= Cardinality({b \in ids : ~Precedes(s[p], b)})
    BY <2>8, <2>10, <2>14, Place, ZenonT(30)
  <2>17. QED
    BY <2>12, <2>13, <2>15, <2>16
<1>2. QED
  BY <1>1, ListingInvariance, PTL DEF Spec, PageInPlace
==============================================================================
