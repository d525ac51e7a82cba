------------------------- MODULE SqlRecordingProofs -------------------------
(***************************************************************************)
(* Proofs about SqlRecording, for any seconds, classifications and lobbies   *)
(* the packets may say, any number of cars and laps, and the three           *)
(* databases: what a text has stored are the first of the tables that were   *)
(* meant (StoredPrefix), and their rows say what the packets said            *)
(* (RowsAgree).                                                             *)
(*                                                                          *)
(* The proof of a text goes with the writers that built it: Reads(x, m, A)   *)
(* says that x is, statement by statement, the tables m up to the first with  *)
(* nothing to write, and there a statement no database can read.  It holds    *)
(* of each table's lines and is kept by \o and FlattenSeq.  How far the words  *)
(* of a dialect D reach into it is ReachIn(D, m), apart from the writers.     *)
(***************************************************************************)
EXTENDS SqlRecording, SequenceTheorems, FiniteSetTheorems, NaturalsInduction,
        WellFoundedInduction, TLAPS

(* Induction, for a set of naturals: NatInduction takes an operator. *)
LEMMA BelowOnNat == OpToRel(<, Nat) = {ss \in Nat \X Nat : ss[1] < ss[2]}
  BY DEF OpToRel

LEMMA LeastNat ==
  ASSUME NEW S \in SUBSET Nat, S # {}
  PROVE  \E m \in S : \A k \in S : m <= k
<1>1. PICK m \in S : \A k \in S : ~ (<<k, m>> \in OpToRel(<, Nat))
  BY NatLessThanWellFounded, WFMin, Zenon
<1>2. \A k \in S : ~ (<<k, m>> \in {ss \in Nat \X Nat : ss[1] < ss[2]})
  BY <1>1, BelowOnNat, Zenon
<1>3. ASSUME NEW k \in S, k < m PROVE FALSE
  <2>1. <<k, m>> \in {ss \in Nat \X Nat : ss[1] < ss[2]}
    BY <1>3
  <2> QED BY <1>2, <2>1
<1> QED BY <1>3

LEMMA NatInd ==
  ASSUME NEW S \in SUBSET Nat, 0 \in S, \A n \in S : n + 1 \in S
  PROVE  S = Nat
<1> SUFFICES ASSUME Nat \ S # {} PROVE FALSE
  OBVIOUS
<1>1. PICK m \in Nat \ S : \A k \in Nat \ S : m <= k
  BY LeastNat
<1>2. m - 1 \in S /\ m = (m - 1) + 1
  BY <1>1
<1> QED BY <1>1, <1>2

LEMMA NatIndUpTo ==
  ASSUME NEW n \in Nat, NEW S, 0 \in S, \A k \in 0..(n - 1) : k \in S => k + 1 \in S
  PROVE  0..n \subseteq S
<1> DEFINE T == {k \in Nat : k <= n => k \in S}
<1>1. T = Nat
  <2>1. 0 \in T
    OBVIOUS
  <2>2. ASSUME NEW k \in T PROVE k + 1 \in T
    OBVIOUS
  <2> HIDE DEF T
  <2>3. T \in SUBSET Nat
    BY DEF T
  <2> QED BY <2>1, <2>2, <2>3, NatInd
<1> QED BY <1>1
----------------------------------------------------------------------------
(* Sequences whose elements are of no one type. *)
IsSeq(x) == \E S : x \in Seq(S)

LEMMA SeqLen ==
  ASSUME NEW x, IsSeq(x)
  PROVE  Len(x) \in Nat /\ DOMAIN x = 1..Len(x)
BY DEF IsSeq

LEMMA FunSeq ==
  ASSUME NEW n \in Nat, NEW f, f = [i \in 1..n |-> f[i]]
  PROVE  IsSeq(f) /\ Len(f) = n
<1>1. f \in Seq({f[i] : i \in 1..n}) /\ Len(f) = n
  OBVIOUS
<1> QED BY <1>1 DEF IsSeq

LEMMA OneSeq ==
  ASSUME NEW a
  PROVE  IsSeq(<<a>>) /\ Len(<<a>>) = 1 /\ <<a>>[1] = a
<1>1. <<a>> \in Seq({a}) /\ Len(<<a>>) = 1 /\ <<a>>[1] = a
  OBVIOUS
<1> QED BY <1>1 DEF IsSeq

LEMMA NoSeq == IsSeq(<<>>) /\ Len(<<>>) = 0
<1>1. <<>> \in Seq({}) /\ Len(<<>>) = 0
  OBVIOUS
<1> QED BY <1>1 DEF IsSeq

LEMMA CatSeq ==
  ASSUME NEW x, NEW y, IsSeq(x), IsSeq(y)
  PROVE  /\ IsSeq(x \o y)
         /\ Len(x \o y) = Len(x) + Len(y)
         /\ \A i \in 1..Len(x) : (x \o y)[i] = x[i]
         /\ \A i \in 1..Len(y) : (x \o y)[Len(x) + i] = y[i]
<1>1. PICK S, T : x \in Seq(S) /\ y \in Seq(T)
  BY DEF IsSeq
<1>2. x \o y \in Seq(S \cup T)
  BY <1>1
<1> QED BY <1>1, <1>2 DEF IsSeq

LEMMA CatOne ==
  ASSUME NEW a, NEW f, IsSeq(f)
  PROVE  /\ IsSeq(<<a>> \o f)
         /\ Len(<<a>> \o f) = 1 + Len(f)
         /\ (<<a>> \o f)[1] = a
         /\ \A k \in 1..Len(f) : (<<a>> \o f)[1 + k] = f[k]
<1> DEFINE h == <<a>>
<1>1. IsSeq(h) /\ Len(h) = 1 /\ h[1] = a
  BY OneSeq
<1> HIDE DEF h
<1>h. IsSeq(h)
  BY <1>1
<1>2. IsSeq(h \o f) /\ Len(h \o f) = Len(h) + Len(f)
  BY <1>h, CatSeq
<1>3. \A i \in 1..Len(h) : (h \o f)[i] = h[i]
  BY <1>h, CatSeq
<1>4. \A k \in 1..Len(f) : (h \o f)[Len(h) + k] = f[k]
  BY <1>h, CatSeq
<1>5. (h \o f)[1] = a
  BY <1>1, <1>3
<1>6. \A k \in 1..Len(f) : (h \o f)[1 + k] = f[k]
  BY <1>1, <1>4
<1> QED BY <1>1, <1>2, <1>5, <1>6 DEF h

LEMMA CatAssoc ==
  ASSUME NEW x, NEW y, NEW z, IsSeq(x), IsSeq(y), IsSeq(z)
  PROVE  (x \o y) \o z = x \o (y \o z)
<1>1. PICK S, T, U : x \in Seq(S) /\ y \in Seq(T) /\ z \in Seq(U)
  BY DEF IsSeq
<1> QED BY <1>1

LEMMA CatNone ==
  ASSUME NEW x, IsSeq(x)
  PROVE  x \o <<>> = x /\ <<>> \o x = x
<1>1. PICK S : x \in Seq(S)
  BY DEF IsSeq
<1> QED BY <1>1, ConcatEmptySeq

LEMMA CatPair ==
  ASSUME NEW a, NEW b
  PROVE  <<a>> \o <<b>> = <<a, b>>
<1> DEFINE S == {a, b}
<1>1. <<a>> \in Seq(S) /\ <<b>> \in Seq(S) /\ <<a, b>> \in Seq(S)
  OBVIOUS
<1>2. Len(<<a>> \o <<b>>) = 2 /\ <<a>> \o <<b>> \in Seq(S) /\ Len(<<a, b>>) = 2
  OBVIOUS
<1>3. /\ (<<a>> \o <<b>>)[1] = a /\ (<<a>> \o <<b>>)[2] = b
      /\ <<a, b>>[1] = a /\ <<a, b>>[2] = b
  OBVIOUS
<1>4. \A i \in 1..2 : i = 1 \/ i = 2
  OBVIOUS
<1>5. \A i \in 1..2 : (<<a>> \o <<b>>)[i] = <<a, b>>[i]
  BY <1>3, <1>4
<1> HIDE DEF S
<1> QED BY <1>1, <1>2, <1>5, SeqEqual

(* FlattenSeq: its recursive function exists, and what it computes is, from
   the first sequence on, each one put behind those before it. *)
Flattens(p, f) ==
    /\ FlattenSeq(p) = f[Len(p)]
    /\ f[1] = p[1]
    /\ \A i \in 1..(Len(p) - 1) : f[i + 1] = f[i] \o p[i + 1]

LEMMA FlattenUnfolds ==
  ASSUME NEW p, IsSeq(p), Len(p) # 0
  PROVE  \E f : Flattens(p, f)
<1> DEFINE n == Len(p)
<1>n. n \in Nat \ {0}
  BY SeqLen
<1> DEFINE Behind(a, i) == a \o p[i]
           Flat(f, k) == f = [i \in 1..k |-> IF i = 1 THEN p[i] ELSE Behind(f[i-1], i)]
           S == {k \in Nat : \E f : Flat(f, k)}
<1>u. Flat(CHOOSE g : Flat(g, n), n) => FlattenSeq(p) = (CHOOSE g : Flat(g, n))[n]
  BY <1>n, Zenon DEF FlattenSeq
<1>v. \A a, i : Behind(a, i) = a \o p[i]
  OBVIOUS
<1> HIDE DEF Behind, n
<1>1. 0 \in S
  <2> DEFINE g == [i \in 1..0 |-> i]
  <2>1. Flat(g, 0)
    OBVIOUS
  <2> QED BY <2>1
<1>2. ASSUME NEW k \in S PROVE k + 1 \in S
  <2>1. PICK f : Flat(f, k)
    OBVIOUS
  <2> DEFINE g == [i \in 1..(k + 1) |-> IF i = k + 1
                      THEN IF i = 1 THEN p[i] ELSE Behind(f[i-1], i) ELSE f[i]]
  <2>2. k \in Nat
    OBVIOUS
  <2> HIDE DEF S
  <2>3. \A i \in 1..k : g[i] = f[i]
    BY <2>2
  <2>4. \A i \in 1..k : f[i] = IF i = 1 THEN p[i] ELSE Behind(f[i-1], i)
    BY <2>1
  <2>5. \A i \in 1..(k + 1) : g[i] = IF i = 1 THEN p[i] ELSE Behind(g[i-1], i)
    BY <2>2, <2>3, <2>4
  <2>6. g = [i \in 1..(k + 1) |-> g[i]]
    OBVIOUS
  <2>7. Flat(g, k + 1)
    <3> HIDE DEF g
    <3> QED BY <2>5, <2>6
  <2>8. \E h : Flat(h, k + 1)
    <3> HIDE DEF g, Flat
    <3> QED BY <2>7
  <2> HIDE DEF Flat
  <2> QED BY <2>2, <2>8 DEF S
<1>3. n \in S
  <2> HIDE DEF S
  <2>1. S \in SUBSET Nat
    BY DEF S
  <2> QED BY <1>1, <1>2, <1>n, <2>1, NatInd
<1> DEFINE f == CHOOSE g : Flat(g, n)
<1>4. Flat(f, n)
  BY <1>3
<1>5. FlattenSeq(p) = f[n]
  BY <1>4, <1>u
<1> HIDE DEF f
<1>6. f[1] = p[1]
  BY <1>4, <1>n
<1>7. ASSUME NEW i \in 1..(n - 1) PROVE f[i + 1] = Behind(f[i], i + 1)
  BY <1>4, <1>n
<1>8. Flattens(p, f)
  BY <1>5, <1>6, <1>7, <1>v DEF n, Flattens
<1> QED BY <1>8
----------------------------------------------------------------------------
(* A line with the semicolon.  (Its string is for Zenon only: the other
   prover's input language reads a comment there.) *)
Closes(line) == line.end = ";"

(* Where the lines p + 1 to e of a text are one statement. *)
Ends(x, p, e) ==
    /\ p \in Nat /\ e \in Nat
    /\ p < e /\ e <= Len(x)
    /\ Closes(x[e])
    /\ \A i \in (p + 1)..(e - 1) : ~ Closes(x[i])

Shape(x, p, e) ==
    \/ e = p + 1 /\ x[p + 1].kind = "whole"
    \/ /\ e > p + 1
       /\ x[p + 1].kind = "head"
       /\ \A i \in (p + 2)..e : x[i].kind = "row" /\ x[i].table = x[p + 1].table

Content(x, p, e) ==
    [table |-> x[p + 1].table,
     rows |-> {x[i].data : i \in {j \in (p + 1)..e : x[j].kind # "head"}}]

(* The dialect D has all their words. *)
Knows(D, x, p, e) == \A i \in (p + 1)..e : x[i].asks \subseteq D

(* The one meant as q, that stores what A allows. *)
Good(x, p, e, q, A) ==
    /\ Ends(x, p, e)
    /\ Shape(x, p, e)
    /\ x[p + 1].table = q.table
    /\ \A D : Knows(D, x, p, e) <=> q.asks \subseteq D
    /\ Content(x, p, e) \in A

(* One that no database can read. *)
Stuck(x, p) == \E e : Ends(x, p, e) /\ ~ Shape(x, p, e)

(* How many places of m come before the first of F. *)
Before(m, F) ==
    IF F = {} THEN Len(m) ELSE (CHOOSE k \in F : \A j \in F : k <= j) - 1

(* How many tables come before the first with nothing to write. *)
Written(m) == Before(m, {k \in DOMAIN m : m[k].nothing})

(* The statements end where c says. *)
Cuts(x, m, A, c) ==
    /\ c \in [0..Written(m) -> 0..Len(x)]
    /\ c[0] = 0
    /\ \A j, k \in 0..Written(m) : j < k => c[j] < c[k]
    /\ \A k \in 1..Written(m) : Good(x, c[k - 1], c[k], m[k], A)
    /\ IF Written(m) = Len(m) THEN c[Written(m)] = Len(x) ELSE Stuck(x, c[Written(m)])

Reads(x, m, A) == IsSeq(x) /\ IsSeq(m) /\ \E c : Cuts(x, m, A, c)

LEMMA BeforeIs ==
  ASSUME NEW m, IsSeq(m), NEW F \in SUBSET (DOMAIN m)
  PROVE  /\ Before(m, F) \in 0..Len(m)
         /\ \A k \in 1..Before(m, F) : k \notin F
         /\ Before(m, F) # Len(m) => Before(m, F) + 1 \in F
<1>1. DOMAIN m = 1..Len(m) /\ Len(m) \in Nat
  BY SeqLen
<1>2. CASE F = {}
  <2>1. Before(m, F) = Len(m)
    BY <1>2 DEF Before
  <2> QED BY <1>1, <1>2, <2>1
<1>3. CASE F # {}
  <2>1. F \in SUBSET Nat /\ F \subseteq 1..Len(m)
    BY <1>1
  <2> DEFINE a == CHOOSE k \in F : \A j \in F : k <= j
  <2>2. a \in F /\ \A j \in F : a <= j
    <3>1. \E k \in F : \A j \in F : k <= j
      BY <1>3, <2>1, LeastNat
    <3> QED BY <3>1
  <2>3. Before(m, F) = a - 1
    BY <1>3 DEF Before
  <2> HIDE DEF a
  <2>4. a \in 1..Len(m) /\ \A k \in Nat : k < a => k \notin F
    BY <2>1, <2>2
  <2> QED BY <1>1, <2>2, <2>3, <2>4
<1> QED BY <1>2, <1>3

LEMMA WrittenIs ==
  ASSUME NEW m, IsSeq(m)
  PROVE  /\ Written(m) \in 0..Len(m)
         /\ \A k \in 1..Written(m) : ~ m[k].nothing
         /\ Written(m) # Len(m) => m[Written(m) + 1].nothing
<1> DEFINE F == {k \in DOMAIN m : m[k].nothing}
<1>1. DOMAIN m = 1..Len(m) /\ Len(m) \in Nat
  BY SeqLen
<1>2. F \in SUBSET (DOMAIN m)
  OBVIOUS
<1>3. \A k \in 1..Len(m) : k \in F <=> m[k].nothing
  BY <1>1
<1>4. Written(m) = Before(m, F)
  BY DEF Written
<1> HIDE DEF F
<1>5. /\ Before(m, F) \in 0..Len(m)
      /\ \A k \in 1..Before(m, F) : k \notin F
      /\ Before(m, F) # Len(m) => Before(m, F) + 1 \in F
  BY <1>2, BeforeIs
<1> QED BY <1>1, <1>3, <1>4, <1>5

LEMMA WrittenBy ==
  ASSUME NEW m, IsSeq(m), NEW r \in 0..Len(m),
         \A k \in 1..r : ~ m[k].nothing,
         r # Len(m) => m[r + 1].nothing
  PROVE  Written(m) = r
<1>1. Len(m) \in Nat
  BY SeqLen
<1>2. ~ (Written(m) < r)
  BY <1>1, WrittenIs
<1>3. ~ (r < Written(m))
  BY <1>1, WrittenIs
<1> QED BY <1>1, <1>2, <1>3, WrittenIs

LEMMA WrittenCat ==
  ASSUME NEW m, NEW n, IsSeq(m), IsSeq(n)
  PROVE  /\ Written(m) = Len(m) => Written(m \o n) = Len(m) + Written(n)
         /\ Written(m) # Len(m) => Written(m \o n) = Written(m)
<1>1. /\ IsSeq(m \o n)
      /\ Len(m \o n) = Len(m) + Len(n)
      /\ \A i \in 1..Len(m) : (m \o n)[i] = m[i]
      /\ \A i \in 1..Len(n) : (m \o n)[Len(m) + i] = n[i]
  BY CatSeq
<1> DEFINE mn == m \o n
<1>2. Len(m) \in Nat /\ Len(n) \in Nat
  BY SeqLen
<1> HIDE DEF mn
<1>3. CASE Written(m) = Len(m)
  <2> DEFINE r == Len(m) + Written(n)
  <2>1. r \in 0..Len(mn)
    BY <1>1, <1>2, WrittenIs DEF mn
  <2>2. \A k \in 1..r : ~ mn[k].nothing
    <3> SUFFICES ASSUME NEW k \in 1..r PROVE ~ mn[k].nothing
      OBVIOUS
    <3>1. CASE k <= Len(m)
      BY <1>1, <1>2, <1>3, <3>1, WrittenIs DEF mn
    <3>2. CASE k > Len(m)
      <4>1. k - Len(m) \in 1..Written(n) /\ k = Len(m) + (k - Len(m))
        BY <1>2, <3>2, WrittenIs
      <4>2. k - Len(m) \in 1..Len(n)
        BY <4>1, <1>2, WrittenIs
      <4>3. mn[k] = n[k - Len(m)]
        BY <1>1, <4>1, <4>2 DEF mn
      <4> QED BY <4>1, <4>3, WrittenIs
    <3> QED BY <1>2, <3>1, <3>2, WrittenIs
  <2>3. r # Len(mn) => mn[r + 1].nothing
    <3> SUFFICES ASSUME Written(n) # Len(n) PROVE mn[r + 1].nothing
      BY <1>1, <1>2 DEF mn
    <3>1. Written(n) + 1 \in 1..Len(n) /\ r + 1 = Len(m) + (Written(n) + 1)
      BY <1>2, WrittenIs
    <3>2. mn[r + 1] = n[Written(n) + 1]
      BY <1>1, <3>1 DEF mn
    <3> QED BY <3>2, WrittenIs
  <2> HIDE DEF r
  <2>4. Written(mn) = r
    BY <1>1, <2>1, <2>2, <2>3, WrittenBy DEF mn
  <2> QED BY <1>3, <2>4 DEF mn, r
<1>4. CASE Written(m) # Len(m)
  <2>1. /\ Written(m) \in 0..Len(mn)
        /\ Written(m) # Len(mn)
        /\ mn[Written(m) + 1].nothing
        /\ \A k \in 1..Written(m) : ~ mn[k].nothing
    BY <1>1, <1>2, <1>4, WrittenIs DEF mn
  <2>2. Written(mn) = Written(m)
    BY <1>1, <2>1, WrittenBy DEF mn
  <2> QED BY <1>4, <2>2 DEF mn
<1> QED BY <1>3, <1>4

(* A statement is one wherever it stands. *)
LEMMA Shift ==
  ASSUME NEW x, NEW y, NEW d \in Nat, NEW p, NEW e,
         Len(x) \in Nat, Len(y) \in Nat, Len(x) + d <= Len(y),
         \A i \in 1..Len(x) : y[d + i] = x[i],
         Ends(x, p, e)
  PROVE  /\ Ends(y, d + p, d + e)
         /\ Shape(y, d + p, d + e) <=> Shape(x, p, e)
         /\ Content(y, d + p, d + e) = Content(x, p, e)
         /\ \A D : Knows(D, y, d + p, d + e) <=> Knows(D, x, p, e)
         /\ y[d + p + 1] = x[p + 1]
<1>1. p \in Nat /\ e \in Nat /\ p < e /\ e <= Len(x)
  BY DEF Ends
<1>2. \A i \in (p + 1)..e : y[d + i] = x[i]
  BY <1>1
<1>3. \A i \in (d + p + 1)..(d + e) : i - d \in (p + 1)..e /\ i = d + (i - d)
  BY <1>1
<1>4. \A i \in (d + p + 1)..(d + e) : y[i] = x[i - d]
  BY <1>2, <1>3
<1>5. Ends(y, d + p, d + e)
  <2>1. d + p \in Nat /\ d + e \in Nat /\ d + p < d + e /\ d + e <= Len(y)
    BY <1>1
  <2>2. Closes(y[d + e])
    <3>1. y[d + e] = x[e]
      BY <1>1, <1>2
    <3> QED BY <3>1 DEF Ends
  <2>3. \A i \in (d + p + 1)..((d + e) - 1) : i - d \in (p + 1)..(e - 1) /\ y[i] = x[i - d]
    BY <1>1, <1>4
  <2>4. \A i \in (d + p + 1)..((d + e) - 1) : ~ Closes(y[i])
    BY <2>3 DEF Ends
  <2> QED BY <2>1, <2>2, <2>4, Zenon DEF Ends
<1>6. y[d + p + 1] = x[p + 1]
  BY <1>1, <1>2
<1>7. Shape(y, d + p, d + e) <=> Shape(x, p, e)
  <2>1. \A i \in (d + p + 2)..(d + e) : i - d \in (p + 2)..e /\ y[i] = x[i - d]
    BY <1>1, <1>4
  <2>2. \A i \in (p + 2)..e : d + i \in (d + p + 2)..(d + e) /\ y[d + i] = x[i]
    BY <1>1, <1>2
  <2>3. /\ d + e = d + p + 1 => e = p + 1
        /\ e = p + 1 => d + e = d + p + 1
        /\ d + e > d + p + 1 => e > p + 1
        /\ e > p + 1 => d + e > d + p + 1
    BY <1>1
  <2>4. CASE Shape(x, p, e)
    <3>1. CASE e = p + 1 /\ x[p + 1].kind = "whole"
      BY <1>6, <2>3, <3>1 DEF Shape
    <3>2. CASE /\ e > p + 1
               /\ x[p + 1].kind = "head"
               /\ \A i \in (p + 2)..e : x[i].kind = "row" /\ x[i].table = x[p + 1].table
      <4>1. \A i \in (d + p + 2)..(d + e) :
              y[i].kind = "row" /\ y[i].table = y[d + p + 1].table
        BY <1>6, <2>1, <3>2, SMTT(30)
      <4> QED BY <1>6, <2>3, <3>2, <4>1 DEF Shape
    <3> QED BY <2>4, <3>1, <3>2 DEF Shape
  <2>5. CASE Shape(y, d + p, d + e)
    <3>1. CASE d + e = d + p + 1 /\ y[d + p + 1].kind = "whole"
      BY <1>6, <2>3, <3>1 DEF Shape
    <3>2. CASE /\ d + e > d + p + 1
               /\ y[d + p + 1].kind = "head"
               /\ \A i \in (d + p + 2)..(d + e) :
                     y[i].kind = "row" /\ y[i].table = y[d + p + 1].table
      <4>1. \A i \in (p + 2)..e : x[i].kind = "row" /\ x[i].table = x[p + 1].table
        BY <1>6, <2>2, <3>2, SMTT(30)
      <4> QED BY <1>6, <2>3, <3>2, <4>1 DEF Shape
    <3> QED BY <2>5, <3>1, <3>2 DEF Shape
  <2> QED BY <2>4, <2>5
<1>8. Content(y, d + p, d + e) = Content(x, p, e)
  <2>1. {y[i].data : i \in {j \in (d + p + 1)..(d + e) : y[j].kind # "head"}}
          = {x[i].data : i \in {j \in (p + 1)..e : x[j].kind # "head"}}
    <3>1. \A i \in {j \in (d + p + 1)..(d + e) : y[j].kind # "head"} :
            i - d \in {j \in (p + 1)..e : x[j].kind # "head"} /\ y[i] = x[i - d]
      BY <1>1, <1>3, <1>4
    <3>2. \A i \in {j \in (p + 1)..e : x[j].kind # "head"} :
            d + i \in {j \in (d + p + 1)..(d + e) : y[j].kind # "head"} /\ y[d + i] = x[i]
      BY <1>1, <1>2, SMTT(30)
    <3> QED BY <3>1, <3>2, SMTT(30)
  <2> QED BY <1>6, <2>1 DEF Content
<1>9. ASSUME NEW D PROVE Knows(D, y, d + p, d + e) <=> Knows(D, x, p, e)
  <2>1. \A i \in (d + p + 1)..(d + e) : i - d \in (p + 1)..e /\ y[i] = x[i - d]
    BY <1>3, <1>4
  <2>2. \A i \in (p + 1)..e : d + i \in (d + p + 1)..(d + e) /\ y[d + i] = x[i]
    BY <1>1, <1>2
  <2> QED BY <2>1, <2>2, SMTT(30) DEF Knows
<1> QED BY <1>5, <1>6, <1>7, <1>8, <1>9
----------------------------------------------------------------------------
(* Reads goes with \o: a text that ends at its own statement keeps those
   before it, whatever comes after ... *)
LEMMA ReadsStuck ==
  ASSUME NEW x, NEW y, NEW m, NEW n, NEW A,
         Reads(x, m, A), Written(m) # Len(m), IsSeq(y), IsSeq(n)
  PROVE  Reads(x \o y, m \o n, A)
<1>1. IsSeq(x) /\ IsSeq(m)
  BY DEF Reads
<1>2. PICK c : Cuts(x, m, A, c)
  BY DEF Reads
<1> DEFINE xy == x \o y
           mn == m \o n
           r == Written(m)
<1>3. IsSeq(xy) /\ IsSeq(mn) /\ Written(mn) = r /\ r \in Nat
      /\ r # Len(mn)
  BY <1>1, CatSeq, WrittenCat, WrittenIs, SeqLen
<1>4. /\ Len(x) \in Nat /\ Len(xy) \in Nat /\ Len(x) + 0 <= Len(xy)
      /\ \A i \in 1..Len(x) : xy[0 + i] = x[i]
  BY <1>1, CatSeq, SeqLen
<1>5. \A k \in 1..r : mn[k] = m[k]
  BY <1>1, CatSeq, WrittenIs, SeqLen
<1>6. c \in [0..r -> 0..Len(x)]
  BY <1>2 DEF Cuts
<1> HIDE DEF xy, mn, r
<1>7. ASSUME NEW p \in Nat, NEW e \in Nat, Ends(x, p, e)
      PROVE  /\ Ends(xy, p, e)
             /\ Shape(xy, p, e) <=> Shape(x, p, e)
             /\ Content(xy, p, e) = Content(x, p, e)
             /\ \A D : Knows(D, xy, p, e) <=> Knows(D, x, p, e)
             /\ xy[p + 1] = x[p + 1]
  <2>1. 0 + p = p /\ 0 + e = e
    OBVIOUS
  <2> QED BY <1>4, <1>7, <2>1, Shift
<1>8. ASSUME NEW k \in 1..r PROVE Good(xy, c[k - 1], c[k], mn[k], A)
  <2>1. Good(x, c[k - 1], c[k], m[k], A)
    BY <1>2 DEF Cuts, r
  <2>2. c[k - 1] \in Nat /\ c[k] \in Nat
    BY <1>3, <1>4, <1>6
  <2> QED BY <1>5, <1>7, <2>1, <2>2 DEF Good
<1>9. Stuck(xy, c[r])
  <2>1. PICK e : Ends(x, c[r], e) /\ ~ Shape(x, c[r], e)
    BY <1>2 DEF Cuts, r, Stuck
  <2>2. c[r] \in Nat /\ e \in Nat
    BY <2>1 DEF Ends
  <2> QED BY <1>7, <2>1, <2>2 DEF Stuck
<1>10. c \in [0..r -> 0..Len(xy)]
  BY <1>3, <1>4, <1>6
<1>11. c[0] = 0 /\ \A j, k \in 0..r : j < k => c[j] < c[k]
  BY <1>2 DEF Cuts, r
<1>12. Cuts(xy, mn, A, c)
  BY <1>3, <1>8, <1>9, <1>10, <1>11 DEF Cuts
<1> QED BY <1>3, <1>12 DEF Reads, xy, mn

(* ... and otherwise the next begins where it ends. *)
LEMMA ReadsCat ==
  ASSUME NEW x, NEW y, NEW m, NEW n, NEW A,
         Reads(x, m, A), Reads(y, n, A)
  PROVE  Reads(x \o y, m \o n, A)
<1>1. IsSeq(x) /\ IsSeq(m) /\ IsSeq(y) /\ IsSeq(n)
  BY DEF Reads
<1>2. CASE Written(m) # Len(m)
  BY <1>1, <1>2, ReadsStuck
<1>3. CASE Written(m) = Len(m)
  <2>1. PICK c : Cuts(x, m, A, c)
    BY DEF Reads
  <2>2. PICK d : Cuts(y, n, A, d)
    BY DEF Reads
  <2> DEFINE xy == x \o y
             mn == m \o n
             r == Len(m)
             s == Written(n)
             L == Len(x)
             b == [k \in 0..(r + s) |-> IF k <= r THEN c[k] ELSE L + d[k - r]]
  <2>3. /\ IsSeq(xy) /\ IsSeq(mn) /\ Written(mn) = r + s
        /\ Len(mn) = r + Len(n) /\ Len(xy) = L + Len(y)
        /\ Len(n) \in Nat /\ Len(y) \in Nat
    BY <1>1, <1>3, CatSeq, WrittenCat, SeqLen
  <2>t. r \in Nat /\ s \in Nat /\ L \in Nat /\ s <= Len(n)
    BY <1>1, <1>3, WrittenIs, SeqLen
  <2>4. /\ \A i \in 1..L : xy[0 + i] = x[i]
        /\ \A i \in 1..Len(y) : xy[L + i] = y[i]
        /\ L + 0 <= Len(xy)
        /\ Len(y) + L <= Len(xy)
    BY <1>1, <2>3, <2>t, CatSeq
  <2>5. /\ \A k \in 1..r : mn[k] = m[k]
        /\ \A k \in 1..Len(n) : mn[r + k] = n[k]
    BY <1>1, CatSeq
  <2>6. /\ c \in [0..r -> 0..L] /\ c[0] = 0 /\ c[r] = L
        /\ \A j, k \in 0..r : j < k => c[j] < c[k]
        /\ \A k \in 1..r : Good(x, c[k - 1], c[k], m[k], A)
    BY <1>3, <2>1 DEF Cuts
  <2>7. /\ d \in [0..s -> 0..Len(y)] /\ d[0] = 0
        /\ \A j, k \in 0..s : j < k => d[j] < d[k]
        /\ \A k \in 1..s : Good(y, d[k - 1], d[k], n[k], A)
        /\ IF s = Len(n) THEN d[s] = Len(y) ELSE Stuck(y, d[s])
    BY <2>2 DEF Cuts
  <2> HIDE DEF xy, mn, r, s, L
  <2>8. /\ \A k \in 0..r : b[k] = c[k]
        /\ \A k \in 0..s : b[r + k] = L + d[k]
    <3>1. \A k \in 0..r : b[k] = c[k]
      BY <2>t
    <3>2. ASSUME NEW k \in 0..s PROVE b[r + k] = L + d[k]
      <4>1. CASE k = 0
        BY <2>t, <2>6, <2>7, <4>1
      <4>2. CASE k # 0
        <5>1. r + k \in 0..(r + s) /\ ~ (r + k <= r) /\ (r + k) - r = k
          BY <2>t, <4>2
        <5> QED BY <5>1
      <4> QED BY <4>1, <4>2
    <3> QED BY <3>1, <3>2
  <2>9. \A k \in 0..(r + s) : k \notin 0..r => k - r \in 1..s /\ k = r + (k - r)
    BY <2>t
  <2>10. DOMAIN b = 0..(r + s) /\ b = [k \in 0..(r + s) |-> b[k]]
    OBVIOUS
  <2> HIDE DEF b
  <2>11. b \in [0..(r + s) -> 0..Len(xy)]
    <3>1. \A k \in 0..r : b[k] \in 0..Len(xy)
      BY <2>3, <2>t, <2>6, <2>8, SMTT(30)
    <3>2. ASSUME NEW k \in 0..s PROVE b[r + k] \in 0..Len(xy)
      <4>1. b[r + k] = L + d[k] /\ d[k] \in 0..Len(y)
        BY <2>7, <2>8
      <4> QED BY <2>3, <2>t, <4>1
    <3>3. \A k \in 0..(r + s) : b[k] \in 0..Len(xy)
      BY <2>t, <2>9, <3>1, <3>2
    <3> QED BY <2>10, <3>3
  <2>12. b[0] = 0
    BY <2>t, <2>6, <2>8
  <2>13. ASSUME NEW j \in 0..(r + s), NEW k \in 0..(r + s), j < k PROVE b[j] < b[k]
    <3>1. CASE j \in 0..r /\ k \in 0..r
      BY <2>6, <2>8, <2>13, <3>1
    <3>2. CASE j \notin 0..r /\ k \notin 0..r
      <4>1. j - r \in 0..s /\ k - r \in 0..s /\ j - r < k - r
        BY <2>9, <2>13, <2>t, <3>2
      <4>2. b[j] = L + d[j - r] /\ b[k] = L + d[k - r]
        BY <2>8, <2>9, <3>2, <4>1
      <4>3. d[j - r] < d[k - r] /\ d[j - r] \in Nat /\ d[k - r] \in Nat
        BY <2>3, <2>7, <4>1
      <4> QED BY <2>t, <4>2, <4>3
    <3>3. CASE j \in 0..r /\ k \notin 0..r
      <4>1. k - r \in 1..s /\ k - r \in 0..s
        BY <2>9, <2>t, <3>3
      <4>2. b[k] = L + d[k - r]
        BY <2>8, <2>9, <3>3, <4>1
      <4>3. d[0] < d[k - r] /\ d[k - r] \in Nat
        BY <2>3, <2>7, <2>t, <4>1
      <4>4. b[j] \in Nat /\ b[j] <= L
        BY <2>t, <2>6, <2>8, <3>3
      <4> QED BY <2>7, <2>t, <4>2, <4>3, <4>4
    <3>4. ~ (j \notin 0..r /\ k \in 0..r)
      BY <2>13, <2>t
    <3> QED BY <3>1, <3>2, <3>3, <3>4
  <2>14. ASSUME NEW k \in 1..(r + s)
         PROVE  Good(xy, b[k - 1], b[k], mn[k], A)
    <3>1. CASE k \in 1..r
      <4>1. b[k - 1] = c[k - 1] /\ b[k] = c[k] /\ mn[k] = m[k]
        BY <2>5, <2>8, <2>t, <3>1
      <4>2. Good(x, c[k - 1], c[k], m[k], A)
        BY <2>6, <3>1
      <4>3. c[k - 1] \in Nat /\ c[k] \in Nat /\ 0 + c[k - 1] = c[k - 1] /\ 0 + c[k] = c[k]
        BY <2>6, <2>t, <3>1
      <4>4. Len(x) \in Nat /\ Len(xy) \in Nat /\ Len(x) + 0 <= Len(xy)
            /\ \A i \in 1..Len(x) : xy[0 + i] = x[i]
        BY <2>3, <2>4, <2>t DEF L
      <4>5. Ends(x, c[k - 1], c[k])
        BY <4>2 DEF Good
      <4>6. /\ Ends(xy, c[k - 1], c[k])
            /\ Shape(xy, c[k - 1], c[k]) <=> Shape(x, c[k - 1], c[k])
            /\ Content(xy, c[k - 1], c[k]) = Content(x, c[k - 1], c[k])
            /\ \A D : Knows(D, xy, c[k - 1], c[k]) <=> Knows(D, x, c[k - 1], c[k])
            /\ xy[c[k - 1] + 1] = x[c[k - 1] + 1]
        BY <4>3, <4>4, <4>5, Shift
      <4> QED BY <4>1, <4>2, <4>6 DEF Good
    <3>2. CASE k \notin 1..r
      <4> DEFINE i == k - r
      <4>1. i \in 1..s /\ k = r + i /\ i - 1 \in 0..s /\ k - 1 = r + (i - 1) /\ i \in 0..s
            /\ i \in 1..Len(n)
        BY <2>t, <3>2, <2>3
      <4> HIDE DEF i
      <4>2. b[k - 1] = L + d[i - 1] /\ b[k] = L + d[i] /\ mn[k] = n[i]
        BY <2>5, <2>8, <4>1
      <4>3. Good(y, d[i - 1], d[i], n[i], A)
        BY <2>7, <4>1
      <4>4. Len(y) \in Nat /\ Len(xy) \in Nat /\ Len(y) + L <= Len(xy)
            /\ L \in Nat /\ \A j \in 1..Len(y) : xy[L + j] = y[j]
        BY <2>3, <2>4, <2>t
      <4>5. Ends(y, d[i - 1], d[i])
        BY <4>3 DEF Good
      <4>6. /\ Ends(xy, L + d[i - 1], L + d[i])
            /\ Shape(xy, L + d[i - 1], L + d[i]) <=> Shape(y, d[i - 1], d[i])
            /\ Content(xy, L + d[i - 1], L + d[i]) = Content(y, d[i - 1], d[i])
            /\ \A D : Knows(D, xy, L + d[i - 1], L + d[i]) <=> Knows(D, y, d[i - 1], d[i])
            /\ xy[L + d[i - 1] + 1] = y[d[i - 1] + 1]
        BY <4>4, <4>5, Shift
      <4> QED BY <4>2, <4>3, <4>6 DEF Good
    <3> QED BY <3>1, <3>2
  <2>15. r + s = Len(mn) => b[r + s] = Len(xy)
    <3>1. SUFFICES ASSUME s = Len(n) PROVE b[r + s] = Len(xy)
      BY <2>3, <2>t
    <3>2. s \in 0..s
      BY <2>t
    <3>3. b[r + s] = L + d[s]
      BY <2>8, <3>2
    <3> QED BY <2>3, <2>7, <3>1, <3>3
  <2>16. r + s # Len(mn) => Stuck(xy, b[r + s])
    <3>1. SUFFICES ASSUME s # Len(n) PROVE Stuck(xy, b[r + s])
      BY <2>3, <2>t
    <3>2. PICK e : Ends(y, d[s], e) /\ ~ Shape(y, d[s], e)
      BY <2>7, <3>1 DEF Stuck
    <3>3. Ends(xy, L + d[s], L + e) /\ ~ Shape(xy, L + d[s], L + e)
      <4>1. Len(y) \in Nat /\ Len(xy) \in Nat /\ Len(y) + L <= Len(xy)
            /\ L \in Nat /\ \A j \in 1..Len(y) : xy[L + j] = y[j]
        BY <2>3, <2>4, <2>t
      <4> QED BY <3>2, <4>1, Shift
    <3>4. b[r + s] = L + d[s]
      BY <2>8, <2>t
    <3> QED BY <3>3, <3>4 DEF Stuck
  <2>17. Cuts(xy, mn, A, b)
    BY <2>3, <2>11, <2>12, <2>13, <2>14, <2>15, <2>16 DEF Cuts
  <2> QED BY <2>3, <2>17 DEF Reads, xy, mn
<1> QED BY <1>2, <1>3

LEMMA ReadsNothing == \A A : Reads(<<>>, <<>>, A)
<1> SUFFICES ASSUME NEW A PROVE Reads(<<>>, <<>>, A)
  OBVIOUS
<1>1. Written(<<>>) = 0
  BY NoSeq, WrittenIs
<1> DEFINE c == [k \in 0..0 |-> 0]
<1>2. c \in [0..0 -> 0..0] /\ c[0] = 0 /\ \A j, k \in 0..0 : ~ (j < k)
  OBVIOUS
<1> HIDE DEF c
<1>3. Cuts(<<>>, <<>>, A, c)
  BY <1>1, <1>2, NoSeq DEF Cuts
<1> QED BY <1>3, NoSeq DEF Reads

LEMMA ReadsFlatten ==
  ASSUME NEW p, NEW q, NEW A, IsSeq(p), IsSeq(q), Len(p) = Len(q),
         \A k \in 1..Len(p) : Reads(p[k], q[k], A)
  PROVE  Reads(FlattenSeq(p), FlattenSeq(q), A)
<1>1. CASE Len(p) = 0
  <2>1. p = <<>> /\ q = <<>>
    BY <1>1, EmptySeq DEF IsSeq
  <2>2. FlattenSeq(p) = p /\ FlattenSeq(q) = q
    BY <1>1 DEF FlattenSeq
  <2> QED BY <2>1, <2>2, ReadsNothing
<1>2. CASE Len(p) # 0
  <2> DEFINE n == Len(p)
  <2>1. n \in Nat \ {0}
    BY <1>2, SeqLen
  <2>2. PICK f : Flattens(p, f)
    BY <1>2, FlattenUnfolds
  <2>3. PICK g : Flattens(q, g)
    BY <1>2, FlattenUnfolds
  <2>l. /\ FlattenSeq(p) = f[n] /\ FlattenSeq(q) = g[n]
        /\ f[1] = p[1] /\ g[1] = q[1]
        /\ \A i \in 1..(n - 1) : f[i + 1] = f[i] \o p[i + 1]
        /\ \A i \in 1..(n - 1) : g[i + 1] = g[i] \o q[i + 1]
    BY <2>2, <2>3, Zenon DEF Flattens
  <2> HIDE DEF n
  <2> DEFINE S == {k \in Nat : Reads(f[k + 1], g[k + 1], A)}
  <2>4. 0 \in S
    BY <2>1, <2>l DEF n
  <2>5. ASSUME NEW k \in 0..((n - 1) - 1), k \in S PROVE k + 1 \in S
    <3>1. k + 1 \in 1..(n - 1) /\ (k + 1) + 1 \in 1..n
      BY <2>1
    <3>2. /\ f[(k + 1) + 1] = f[k + 1] \o p[(k + 1) + 1]
          /\ g[(k + 1) + 1] = g[k + 1] \o q[(k + 1) + 1]
      BY <2>l, <3>1
    <3>3. Reads(f[(k + 1) + 1], g[(k + 1) + 1], A)
      BY <2>5, <3>1, <3>2, ReadsCat DEF n
    <3> QED BY <3>1, <3>3
  <2>6. n - 1 \in S
    <3> HIDE DEF S
    <3>1. n - 1 \in Nat /\ n - 1 \in 0..(n - 1)
      BY <2>1
    <3> QED BY <2>4, <2>5, <3>1, NatIndUpTo
  <2>7. (n - 1) + 1 = n
    BY <2>1
  <2> QED BY <2>l, <2>6, <2>7
<1> QED BY <1>1, <1>2
----------------------------------------------------------------------------
(* The statements the writers write. *)
LEMMA MeantFields ==
  ASSUME NEW a, NEW t, NEW b
  PROVE  /\ Meant(a, t, b).table = t
         /\ Meant(a, t, b).asks = a
         /\ Meant(a, t, b).nothing = b
BY DEF Meant

LEMMA WrittenOne ==
  ASSUME NEW a, NEW t, NEW b \in BOOLEAN
  PROVE  /\ IsSeq(<<Meant(a, t, b)>>)
         /\ Len(<<Meant(a, t, b)>>) = 1
         /\ <<Meant(a, t, b)>>[1].table = t
         /\ <<Meant(a, t, b)>>[1].asks = a
         /\ Written(<<Meant(a, t, b)>>) = IF b THEN 0 ELSE 1
<1> DEFINE m == <<Meant(a, t, b)>>
<1>1. IsSeq(m) /\ Len(m) = 1 /\ m[1] = Meant(a, t, b)
  BY OneSeq
<1>2. m[1].table = t /\ m[1].asks = a /\ m[1].nothing = b
  BY <1>1, MeantFields
<1> HIDE DEF m
<1>3. CASE b
  <2>1. 0 \in 0..Len(m) /\ (\A k \in 1..0 : ~ m[k].nothing) /\ 0 + 1 = 1
    BY <1>1
  <2>3. m[0 + 1].nothing
    BY <1>2, <1>3, <2>1, Zenon
  <2>2. Written(m) = 0
    BY <1>1, <2>1, <2>3, WrittenBy
  <2> QED BY <1>1, <1>2, <1>3, <2>2 DEF m
<1>4. CASE ~ b
  <2>1. 1 \in 0..Len(m) /\ \A k \in 1..1 : ~ m[k].nothing
    BY <1>1, <1>2, <1>4
  <2>2. Written(m) = 1
    BY <1>1, <2>1, WrittenBy
  <2> QED BY <1>1, <1>2, <1>4, <2>2 DEF m
<1> QED BY <1>3, <1>4

LEMMA HeadFields ==
  ASSUME NEW v, NEW t
  PROVE  /\ Into(v, t).kind = "head" /\ Into(v, t).table = t /\ ~ Closes(Into(v, t))
         /\ Into(v, t).asks = {v}
BY Zenon DEF Into, Closes

LEMMA WholeFields ==
  ASSUME NEW a, NEW t, NEW r
  PROVE  /\ Whole(a, t, r).kind = "whole" /\ Whole(a, t, r).table = t
         /\ Whole(a, t, r).data = r /\ Closes(Whole(a, t, r))
         /\ Whole(a, t, r).asks = a
BY Zenon DEF Whole, Closes

LEMMA GoodMeant ==
  ASSUME NEW x, NEW p, NEW e, NEW a, NEW t, NEW b, NEW A,
         Ends(x, p, e), Shape(x, p, e), x[p + 1].table = t,
         \A D : Knows(D, x, p, e) <=> a \subseteq D,
         Content(x, p, e) \in A
  PROVE  Good(x, p, e, Meant(a, t, b), A)
<1> DEFINE q == Meant(a, t, b)
<1>1. q.table = t /\ q.asks = a
  BY MeantFields
<1> HIDE DEF q
<1>2. x[p + 1].table = q.table /\ \A D : Knows(D, x, p, e) <=> q.asks \subseteq D
  BY <1>1
<1>3. Good(x, p, e, q, A)
  BY <1>2 DEF Good
<1> QED BY <1>3 DEF q

LEMMA StatementReads ==
  ASSUME NEW x, NEW a, NEW t, NEW A, IsSeq(x),
         Good(x, 0, Len(x), Meant(a, t, FALSE), A)
  PROVE  Reads(x, <<Meant(a, t, FALSE)>>, A)
<1> DEFINE m == <<Meant(a, t, FALSE)>>
           n == Len(x)
           c == [k \in 0..1 |-> IF k = 0 THEN 0 ELSE n]
<1>1. IsSeq(m) /\ Len(m) = 1 /\ Written(m) = 1 /\ m[1] = Meant(a, t, FALSE)
  BY OneSeq, WrittenOne
<1>2. n \in Nat /\ 0 < n
  BY SeqLen DEF Good, Ends
<1> HIDE DEF m, n
<1>3. c \in [0..1 -> 0..n] /\ c[0] = 0 /\ c[1] = n /\ c[1 - 1] = 0
  BY <1>2
<1> HIDE DEF c
<1>4. \A j, k \in 0..1 : j < k => j = 0 /\ k = 1
  OBVIOUS
<1>5. \A k \in 1..1 : k = 1
  OBVIOUS
<1>6. Cuts(x, m, A, c)
  BY <1>1, <1>2, <1>3, <1>4, <1>5 DEF Cuts, n
<1> QED BY <1>1, <1>6 DEF Reads, m

LEMMA SpoiltReads ==
  ASSUME NEW x, NEW a, NEW t, NEW A, IsSeq(x), Stuck(x, 0)
  PROVE  Reads(x, <<Meant(a, t, TRUE)>>, A)
<1> DEFINE m == <<Meant(a, t, TRUE)>>
           c == [k \in 0..0 |-> 0]
<1>1. IsSeq(m) /\ Len(m) = 1 /\ Written(m) = 0
  BY WrittenOne
<1> HIDE DEF m
<1>2. c \in [0..0 -> 0..Len(x)] /\ c[0] = 0
  BY SeqLen
<1> HIDE DEF c
<1>3. (\A j, k \in 0..0 : ~ (j < k)) /\ \A k \in 1..0 : FALSE
  OBVIOUS
<1>4. Cuts(x, m, A, c)
  BY <1>1, <1>2, <1>3 DEF Cuts
<1> QED BY <1>1, <1>4 DEF Reads, m

LEMMA WholeReads ==
  ASSUME NEW a, NEW t, NEW r, NEW A, [table |-> t, rows |-> {r}] \in A
  PROVE  Reads(<<Whole(a, t, r)>>, <<Meant(a, t, FALSE)>>, A)
<1> DEFINE x == <<Whole(a, t, r)>>
<1>1. IsSeq(x) /\ Len(x) = 1 /\ x[1] = Whole(a, t, r)
  BY OneSeq
<1>2. x[1].kind = "whole" /\ x[1].table = t /\ x[1].data = r /\ Closes(x[1])
      /\ x[1].asks = a
  BY <1>1, WholeFields
<1> HIDE DEF x
<1>3. Ends(x, 0, 1)
  BY <1>1, <1>2 DEF Ends
<1>4. Shape(x, 0, 1)
  BY <1>2 DEF Shape
<1>5. {x[i].data : i \in {j \in 1..1 : x[j].kind # "head"}} = {r}
  BY <1>2
<1>6. Content(x, 0, 1) = [table |-> t, rows |-> {r}]
  BY <1>2, <1>5 DEF Content
<1>k. \A D : Knows(D, x, 0, 1) <=> a \subseteq D
  BY <1>2 DEF Knows
<1>7. Good(x, 0, Len(x), Meant(a, t, FALSE), A)
  <2>1. x[0 + 1].table = t
    BY <1>2
  <2> QED BY <1>1, <2>1, <1>3, <1>4, <1>6, <1>k, GoodMeant
<1> QED BY <1>1, <1>7, StatementReads DEF x

(* Rows 1 to n, the n-th closed by a semicolon. *)
Closed(f, n, t) ==
    /\ f = [k \in 1..n |-> f[k]]
    /\ \A k \in 1..n :
          /\ f[k].kind = "row"
          /\ f[k].table = t
          /\ f[k].asks = {"NOW"}
          /\ (Closes(f[k]) <=> k = n)

LEMMA HeadRowsReads ==
  ASSUME NEW n \in Nat \ {0}, NEW f, NEW v, NEW t, NEW A, Closed(f, n, t),
         [table |-> t, rows |-> {f[k].data : k \in 1..n}] \in A,
         NEW x, IsSeq(x), Len(x) = 1 + n, x[1] = Into(v, t),
         \A k \in 1..n : x[1 + k] = f[k]
  PROVE  Reads(x, <<Meant({v, "NOW"}, t, FALSE)>>, A)
<1>1. x[1].kind = "head" /\ x[1].table = t /\ ~ Closes(x[1]) /\ x[1].asks = {v}
  BY HeadFields
<1>2. \A i \in 2..(1 + n) : i - 1 \in 1..n /\ i = 1 + (i - 1)
  OBVIOUS
<1>3. ASSUME NEW i \in 2..(1 + n)
      PROVE  /\ x[i] = f[i - 1] /\ x[i].kind = "row" /\ x[i].table = t
             /\ x[i].asks = {"NOW"} /\ (Closes(x[i]) <=> i = 1 + n)
  <2>1. i - 1 \in 1..n /\ i = 1 + (i - 1) /\ (i - 1 = n <=> i = 1 + n)
    BY <1>2
  <2>2. x[i] = f[i - 1]
    BY <2>1
  <2> QED BY <2>1, <2>2 DEF Closed
<1>4. Ends(x, 0, 1 + n)
  <2>1. 1 + n \in 2..(1 + n)
    OBVIOUS
  <2>2. \A i \in (0 + 1)..((1 + n) - 1) : i = 1 \/ (i \in 2..(1 + n) /\ i # 1 + n)
    OBVIOUS
  <2>3. \A i \in (0 + 1)..((1 + n) - 1) : ~ Closes(x[i])
    BY <1>1, <1>3, <2>2
  <2>4. Closes(x[1 + n])
    BY <1>3, <2>1
  <2> QED BY <2>3, <2>4 DEF Ends
<1>5. Shape(x, 0, 1 + n)
  <2>1. x[0 + 1] = x[1] /\ 1 + n > 0 + 1
    OBVIOUS
  <2>2. \A i \in (0 + 2)..(1 + n) : x[i].kind = "row" /\ x[i].table = x[1].table
    BY <1>1, <1>3
  <2> QED BY <1>1, <2>1, <2>2 DEF Shape
<1>6. Content(x, 0, 1 + n) = [table |-> t, rows |-> {f[k].data : k \in 1..n}]
  <2>1. \A i \in {j \in (0 + 1)..(1 + n) : x[j].kind # "head"} : i \in 2..(1 + n)
    BY <1>1
  <2>2. \A k \in 1..n : /\ 1 + k \in {j \in (0 + 1)..(1 + n) : x[j].kind # "head"}
                        /\ x[1 + k] = f[k]
    BY <1>3
  <2>3. {x[i].data : i \in {j \in (0 + 1)..(1 + n) : x[j].kind # "head"}}
          = {f[k].data : k \in 1..n}
    BY <1>2, <1>3, <2>1, <2>2, SMTT(30)
  <2>4. x[0 + 1].table = t
    BY <1>1
  <2> QED BY <2>3, <2>4, Zenon DEF Content
<1>k. ASSUME NEW D PROVE Knows(D, x, 0, 1 + n) <=> {v, "NOW"} \subseteq D
  <2>1. \A i \in (0 + 1)..(1 + n) : i = 1 \/ i \in 2..(1 + n)
    OBVIOUS
  <2>2. 1 \in (0 + 1)..(1 + n) /\ 2 \in (0 + 1)..(1 + n) /\ 2 \in 2..(1 + n)
    OBVIOUS
  <2> QED BY <1>1, <1>3, <2>1, <2>2 DEF Knows
<1>7. Good(x, 0, Len(x), Meant({v, "NOW"}, t, FALSE), A)
  <2>1. x[0 + 1].table = t
    BY <1>1
  <2> QED BY <2>1, <1>4, <1>5, <1>6, <1>k, GoodMeant
<1> QED BY <1>7, StatementReads

LEMMA RowsReads ==
  ASSUME NEW n \in Nat \ {0}, NEW f, NEW v, NEW t, NEW A, Closed(f, n, t),
         [table |-> t, rows |-> {f[k].data : k \in 1..n}] \in A
  PROVE  Reads(<<Into(v, t)>> \o f, <<Meant({v, "NOW"}, t, FALSE)>>, A)
<1> DEFINE x == <<Into(v, t)>> \o f
<1>1. IsSeq(f) /\ Len(f) = n
  BY FunSeq DEF Closed
<1>2. IsSeq(x) /\ Len(x) = 1 + n /\ x[1] = Into(v, t)
  BY <1>1, CatOne
<1>3. \A k \in 1..n : x[1 + k] = f[k]
  BY <1>1, CatOne
<1> HIDE DEF x
<1>4. Reads(x, <<Meant({v, "NOW"}, t, FALSE)>>, A)
  BY <1>2, <1>3, HeadRowsReads
<1> QED BY <1>4 DEF x

(* A head without rows runs into the statement after it. *)
LEMMA DanglingReads ==
  ASSUME NEW y, NEW n, NEW v, NEW a, NEW t, NEW A,
         Reads(y, n, A), Len(y) # 0, y[1].kind # "row"
  PROVE  Reads(<<Into(v, t)>> \o y, <<Meant(a, t, TRUE)>> \o n, A)
<1> DEFINE x == <<Into(v, t)>> \o y
<1>2. IsSeq(y) /\ IsSeq(n) /\ Len(y) \in Nat /\ Len(n) \in Nat
  BY SeqLen DEF Reads
<1>3. /\ IsSeq(x) /\ Len(x) = 1 + Len(y) /\ x[1] = Into(v, t)
      /\ \A k \in 1..Len(y) : x[1 + k] = y[k]
  <2>1. IsSeq(x) /\ Len(x) = 1 + Len(y) /\ x[1] = Into(v, t)
    BY <1>2, CatOne
  <2>2. \A k \in 1..Len(y) : x[1 + k] = y[k]
    BY <1>2, CatOne
  <2> HIDE DEF x
  <2> QED BY <2>1, <2>2
<1> HIDE DEF x
<1>4. \E e : Ends(y, 0, e)
  <2>1. PICK c : Cuts(y, n, A, c)
    BY DEF Reads
  <2>2. c[0] = 0
    BY <2>1 DEF Cuts
  <2>3. CASE Written(n) = 0
    <3>1. Stuck(y, 0)
      BY <1>2, <2>1, <2>2, <2>3 DEF Cuts
    <3> QED BY <3>1 DEF Stuck
  <2>4. CASE Written(n) # 0
    <3>1. Written(n) \in Nat /\ 1 \in 1..Written(n)
      BY <1>2, <2>4, WrittenIs
    <3>2. Good(y, c[1 - 1], c[1], n[1], A)
      BY <2>1, <3>1 DEF Cuts
    <3>3. Ends(y, 0, c[1])
      BY <2>2, <3>2 DEF Good
    <3> QED BY <3>3
  <2> QED BY <2>3, <2>4
<1>5. PICK e : Ends(y, 0, e)
  BY <1>4
<1>6. e \in Nat /\ 0 < e /\ e <= Len(y) /\ Closes(y[e])
      /\ \A i \in (0 + 1)..(e - 1) : ~ Closes(y[i])
  BY <1>5 DEF Ends
<1>7. ~ Closes(x[1]) /\ x[2] = y[1] /\ x[1 + e] = y[e]
  BY <1>2, <1>3, <1>6, HeadFields
<1>8. Ends(x, 0, 1 + e)
  <2>1. \A i \in (0 + 1)..((1 + e) - 1) : i # 1 =>
           i - 1 \in (0 + 1)..(e - 1) /\ i - 1 \in 1..Len(y) /\ i = 1 + (i - 1)
    BY <1>2, <1>6
  <2>2. \A i \in (0 + 1)..((1 + e) - 1) : ~ Closes(x[i])
    BY <1>3, <1>6, <1>7, <2>1
  <2>3. 1 + e \in Nat /\ 0 < 1 + e /\ 1 + e <= Len(x) /\ Closes(x[1 + e])
    BY <1>2, <1>3, <1>6, <1>7
  <2> QED BY <2>2, <2>3 DEF Ends
<1>9. ~ Shape(x, 0, 1 + e)
  <2>1. 1 + e # 0 + 1 /\ 2 \in (0 + 2)..(1 + e)
    BY <1>6
  <2>2. x[2].kind # "row"
    BY <1>7
  <2> QED BY <2>1, <2>2 DEF Shape
<1>10. Reads(x, <<Meant(a, t, TRUE)>>, A)
  BY <1>3, <1>8, <1>9, SpoiltReads DEF Stuck
<1> DEFINE m == <<Meant(a, t, TRUE)>>
<1>11. IsSeq(m) /\ Len(m) = 1 /\ Written(m) = 0
  BY WrittenOne
<1>12. Reads(x, m, A)
  BY <1>10
<1> HIDE DEF m
<1>13. IsSeq(<<>>) /\ Written(m) # Len(m)
  BY <1>11, NoSeq
<1>14. Reads(x \o <<>>, m \o n, A)
  BY <1>2, <1>12, <1>13, ReadsStuck
<1> QED BY <1>3, <1>14, CatNone DEF x, m
----------------------------------------------------------------------------
(* InOrder: a finite set of naturals has an ascending enumeration, and any
   such enumeration has them all. *)
Ascending(q, n, S) ==
    /\ q \in [1..n -> S]
    /\ \A j, k \in 1..n : j < k => q[j] < q[k]

LEMMA SomeOrder ==
  ASSUME NEW N \in Nat, NEW S \in SUBSET (0..(N - 1))
  PROVE  \E q : Ascending(q, Cardinality(S), S)
<1> DEFINE Fine(n) == \A U \in SUBSET (0..(n - 1)) : \E q : Ascending(q, Cardinality(U), U)
           T == {n \in Nat : Fine(n)}
<1>1. 0 \in T
  <2> SUFFICES ASSUME NEW U \in SUBSET (0..(0 - 1))
               PROVE  \E q : Ascending(q, Cardinality(U), U)
    OBVIOUS
  <2>u. U = {}
    OBVIOUS
  <2>1. Cardinality(U) = 0
    BY <2>u, FS_EmptySet
  <2> DEFINE q == [k \in 1..0 |-> k]
  <2>2. Ascending(q, 0, U)
    BY DEF Ascending
  <2> QED BY <2>1, <2>2
<1>2. ASSUME NEW n \in T PROVE n + 1 \in T
  <2>1. n \in Nat /\ Fine(n)
    OBVIOUS
  <2> HIDE DEF T
  <2>2. ASSUME NEW U \in SUBSET (0..((n + 1) - 1))
        PROVE  \E q : Ascending(q, Cardinality(U), U)
    <3>1. CASE n \notin U
      <4>1. U \in SUBSET (0..(n - 1))
        BY <2>1, <3>1
      <4> QED BY <2>1, <4>1
    <3>2. CASE n \in U
      <4> DEFINE V == U \ {n}
                 v == Cardinality(V)
      <4>1. V \in SUBSET (0..(n - 1))
        BY <2>1
      <4>2. IsFiniteSet(U)
        <5>1. IsFiniteSet(0..((n + 1) - 1))
          BY <2>1, FS_Interval
        <5> QED BY <5>1, FS_Subset
      <4>3. IsFiniteSet(V) /\ Cardinality(V) = Cardinality(U) - 1
        BY <3>2, <4>2, FS_RemoveElement
      <4>4. v \in Nat /\ Cardinality(U) = v + 1
        BY <4>2, <4>3, FS_CardinalityType
      <4>5. PICK p : Ascending(p, v, V)
        BY <2>1, <4>1
      <4> HIDE DEF v
      <4>6. p \in [1..v -> V] /\ \A j, k \in 1..v : j < k => p[j] < p[k]
        BY <4>5 DEF Ascending
      <4>7. V \subseteq U /\ \A x \in V : x \in 0..(n - 1)
        BY <4>1
      <4> HIDE DEF V
      <4> DEFINE q == [k \in 1..(v + 1) |-> IF k = v + 1 THEN n ELSE p[k]]
      <4>8. (\A k \in 1..v : q[k] = p[k]) /\ q[v + 1] = n
        BY <4>4
      <4>9. \A k \in 1..(v + 1) : k \in 1..v \/ k = v + 1
        BY <4>4
      <4>10. q \in [1..(v + 1) -> U]
        BY <3>2, <4>4, <4>6, <4>7, <4>9
      <4> HIDE DEF q
      <4>11. ASSUME NEW j \in 1..(v + 1), NEW k \in 1..(v + 1), j < k
             PROVE  q[j] < q[k]
        <5>1. j \in 1..v
          BY <4>4, <4>11
        <5>2. p[j] \in 0..(n - 1)
          BY <4>6, <4>7, <5>1
        <5>3. CASE k \in 1..v
          BY <4>6, <4>8, <4>11, <5>1, <5>3
        <5>4. CASE k = v + 1
          BY <2>1, <4>8, <5>1, <5>2, <5>4
        <5> QED BY <4>9, <5>3, <5>4
      <4>12. Ascending(q, Cardinality(U), U)
        BY <4>4, <4>10, <4>11 DEF Ascending
      <4> QED BY <4>12
    <3> QED BY <3>1, <3>2
  <2>3. Fine(n + 1)
    BY <2>2
  <2> HIDE DEF Fine
  <2> QED BY <2>1, <2>3 DEF T
<1>3. T = Nat
  <2> HIDE DEF T
  <2>1. T \in SUBSET Nat
    BY DEF T
  <2> QED BY <1>1, <1>2, <2>1, NatInd
<1>4. Fine(N)
  <2> HIDE DEF Fine
  <2> QED BY <1>3
<1> QED BY <1>4

LEMMA InOrderIs ==
  ASSUME NEW N \in Nat, NEW S \in SUBSET (0..(N - 1))
  PROVE  /\ Cardinality(S) \in Nat
         /\ Cardinality(S) = 0 <=> S = {}
         /\ InOrder(S) \in [1..Cardinality(S) -> S]
         /\ \A j, k \in 1..Cardinality(S) : j < k => InOrder(S)[j] < InOrder(S)[k]
         /\ {InOrder(S)[k] : k \in 1..Cardinality(S)} = S
<1> DEFINE n == Cardinality(S)
           q == InOrder(S)
<1>1. IsFiniteSet(S)
  <2>1. IsFiniteSet(0..(N - 1))
    BY FS_Interval
  <2> QED BY <2>1, FS_Subset
<1>2. n \in Nat /\ (n = 0 <=> S = {})
  BY <1>1, FS_CardinalityType, FS_EmptySet
<1>3. q \in [1..n -> S] /\ \A j, k \in DOMAIN q : j < k => q[j] < q[k]
  <2>1. PICK p : Ascending(p, n, S)
    BY SomeOrder
  <2>2. p \in [1..n -> S] /\ \A j, k \in DOMAIN p : j < k => p[j] < p[k]
    BY <2>1 DEF Ascending
  <2>3. q = CHOOSE r \in [1..n -> S] : \A j, k \in DOMAIN r : j < k => r[j] < r[k]
    BY DEF InOrder
  <2> HIDE DEF n, q
  <2> QED BY <2>2, <2>3
<1>4. \A j, k \in 1..n : j < k => q[j] < q[k]
  BY <1>3
<1> HIDE DEF q, n
<1>5. \A j, k \in 1..n : j # k => q[j] # q[k]
  <2>0. \A x \in S : x \in Nat
    OBVIOUS
  <2>1. \A j \in 1..n : q[j] \in Nat
    BY <1>3, <2>0
  <2> QED BY <1>2, <1>4, <2>1
<1>6. q \in Injection(1..n, S)
  BY <1>3, <1>5 DEF Injection, IsInjective
<1>7. IsFiniteSet(1..n) /\ Cardinality(1..n) = n
  BY <1>2, FS_Interval
<1>8. q \in Surjection(1..n, S)
  BY <1>1, <1>6, <1>7, FS_Injection DEF n
<1>9. {q[k] : k \in 1..n} = S
  BY <1>8 DEF Surjection
<1> QED BY <1>2, <1>3, <1>4, <1>9 DEF q, n

(* A table with a row per place. *)
LEMMA RowFields ==
  ASSUME NEW t, NEW r, NEW c
  PROVE  Row(t, r, c).kind = "row" /\ Row(t, r, c).table = t
         /\ Row(t, r, c).data = r /\ Row(t, r, c).asks = {"NOW"}
BY DEF Row

LEMMA RowCloses ==
  ASSUME NEW t, NEW r, NEW b \in BOOLEAN
  PROVE  /\ Closes(Row(t, r, IF b THEN ";" ELSE ",")) <=> b
         /\ Closes(Row(t, r, ";"))
         /\ ~ Closes(Row(t, r, ","))
BY Zenon DEF Row, Closes

LEMMA EndOfRow ==
  ASSUME NEW t, NEW r, NEW a, NEW c
  PROVE  [Row(t, r, a) EXCEPT !.end = c] = Row(t, r, c)
BY DEF Row

LEMMA EndOfLine ==
  ASSUME NEW x, NEW i, NEW c
  PROVE  [x EXCEPT ![i].end = c] = [x EXCEPT ![i] = [x[i] EXCEPT !.end = c]]
OBVIOUS

(* What becomes of a head that is terminated. *)
SpoiltBy(line, c) == [line EXCEPT !.kind = "spoilt", !.end = c]

LEMMA SpoiltFields ==
  ASSUME NEW v, NEW t, NEW c
  PROVE  /\ SpoiltBy(Into(v, t), c).kind = "spoilt"
         /\ SpoiltBy(Into(v, t), c).end = c
<1>1. /\ DOMAIN Into(v, t) = {"end", "kind", "table", "data", "asks"}
      /\ Into(v, t) = [f \in DOMAIN Into(v, t) |-> Into(v, t)[f]]
  BY Zenon DEF Into
<1> DEFINE line == Into(v, t)
<1> HIDE DEF line
<1>2. /\ DOMAIN line = {"end", "kind", "table", "data", "asks"}
      /\ line = [f \in DOMAIN line |-> line[f]]
  BY <1>1 DEF line
<1>3. SpoiltBy(line, c).kind = "spoilt" /\ SpoiltBy(line, c).end = c
  BY <1>2 DEF SpoiltBy
<1> QED BY <1>3 DEF line

Replaced(x, i, e) == [x EXCEPT ![i] = e]

LEMMA ExceptLine ==
  ASSUME NEW x, IsSeq(x), NEW i \in 1..Len(x), NEW e,
         NEW y, y = Replaced(x, i, e)
  PROVE  /\ IsSeq(y)
         /\ Len(y) = Len(x)
         /\ y[i] = e
         /\ \A j \in 1..Len(x) : j # i => y[j] = x[j]
<1>1. PICK S : x \in Seq(S)
  BY DEF IsSeq
<1>2. x \in Seq(S \cup {e}) /\ e \in S \cup {e}
  BY <1>1
<1>3. /\ y \in Seq(S \cup {e})
      /\ Len(y) = Len(x)
      /\ \A j \in 1..Len(x) : y[j] = IF j = i THEN e ELSE x[j]
  BY <1>2, ExceptSeq DEF Replaced
<1> QED BY <1>3 DEF IsSeq

LEMMA TerminateIs ==
  ASSUME NEW x
  PROVE  /\ x[Len(x)].kind = "row" =>
               Terminate(x) = Replaced(x, Len(x), [x[Len(x)] EXCEPT !.end = ";"])
         /\ x[Len(x)].kind # "row" =>
               Terminate(x) = Replaced(x, Len(x), SpoiltBy(x[Len(x)], ";"))
<1> DEFINE n == Len(x)
           l == x[n]
           withEnd == [x EXCEPT ![n].end = ";"]
           spoilt == [x EXCEPT ![n] = [@ EXCEPT !.kind = "spoilt", !.end = ";"]]
<1>1. Terminate(x) = IF l.kind = "row" THEN withEnd ELSE spoilt
  BY Zenon DEF Terminate
<1>2. withEnd = [x EXCEPT ![n] = [l EXCEPT !.end = ";"]]
  BY EndOfLine, Zenon
<1>3. spoilt = [x EXCEPT ![n] = SpoiltBy(l, ";")]
  BY Zenon DEF SpoiltBy
<1> QED BY <1>1, <1>2, <1>3, Zenon DEF Replaced

LEMMA PerCarReads ==
  ASSUME NEW N \in Nat, NEW places \in SUBSET (0..(N - 1)), NEW v, NEW t, NEW A,
         NEW none \in BOOLEAN, none <=> places = {},
         [table |-> t, rows |-> places] \in A
  PROVE  /\ Reads(PerCarToSQL(v, t, places), <<Meant({v, "NOW"}, t, none)>>, A)
         /\ Len(PerCarToSQL(v, t, places)) # 0
         /\ PerCarToSQL(v, t, places)[1].kind # "row"
<1> DEFINE q == InOrder(places)
           n == Cardinality(places)
           comma == ","
           semi == ";"
           f == [k \in DOMAIN q |-> Row(t, q[k], comma)]
           x == <<Into(v, t)>> \o f
           y == Terminate(x)
<1>1. /\ n \in Nat /\ (n = 0 <=> places = {}) /\ q \in [1..n -> places]
      /\ {q[k] : k \in 1..n} = places
  BY InOrderIs
<1>2. PerCarToSQL(v, t, places) = y
  BY Zenon DEF PerCarToSQL
<1>3. DOMAIN q = 1..n
  BY <1>1
<1>4. f = [k \in 1..n |-> f[k]] /\ \A k \in 1..n : f[k] = Row(t, q[k], comma)
  <2> DEFINE R(r) == Row(t, r, comma)
  <2> HIDE DEF R
  <2>1. [k \in DOMAIN q |-> R(q[k])] = [k \in 1..n |-> R(q[k])]
    BY <1>3
  <2> QED BY <1>3, Zenon DEF R
<1>r. ASSUME NEW r
      PROVE  /\ ~ Closes(Row(t, r, comma)) /\ Closes(Row(t, r, semi))
  BY RowCloses, Zenon
<1>s. ASSUME NEW l, l = SpoiltBy(Into(v, t), semi) PROVE l.kind = "spoilt" /\ Closes(l)
  <2>1. SpoiltBy(Into(v, t), semi).kind = "spoilt" /\ SpoiltBy(Into(v, t), semi).end = semi
    <3> HIDE DEF semi
    <3> QED BY SpoiltFields
  <2> QED BY <1>s, <2>1, Zenon DEF Closes
<1>t. /\ x[Len(x)].kind = "row" =>
           y = Replaced(x, Len(x), [x[Len(x)] EXCEPT !.end = semi])
      /\ x[Len(x)].kind # "row" =>
           y = Replaced(x, Len(x), SpoiltBy(x[Len(x)], semi))
  BY TerminateIs, Zenon
<1> HIDE DEF q, n, f, comma, semi
<1>5. IsSeq(f) /\ Len(f) = n
  BY <1>1, <1>4, FunSeq
<1>6. IsSeq(x) /\ Len(x) = 1 + n /\ x[1] = Into(v, t)
  BY <1>5, CatOne
<1>7. \A k \in 1..n : x[1 + k] = f[k]
  BY <1>5, CatOne
<1> HIDE DEF x, y
<1>8. CASE n = 0
  <2>1. Len(x) = 1 /\ x[Len(x)] = Into(v, t)
    BY <1>6, <1>8
  <2> DEFINE s == SpoiltBy(Into(v, t), semi)
  <2>2. Into(v, t).kind # "row"
    BY HeadFields
  <2>3. y = Replaced(x, 1, s)
    BY <1>t, <2>1, <2>2, Zenon
  <2>4. s.kind = "spoilt" /\ Closes(s)
    BY <1>s
  <2> HIDE DEF s
  <2>5. IsSeq(y) /\ Len(y) = 1 /\ y[1] = s
    <3>1. 1 \in 1..Len(x)
      BY <2>1
    <3>2. IsSeq(y) /\ Len(y) = Len(x) /\ y[1] = s
      BY <1>6, <2>3, <3>1, ExceptLine
    <3> QED BY <2>1, <3>2
  <2>6. Ends(y, 0, 1) /\ ~ Shape(y, 0, 1)
    BY <2>4, <2>5 DEF Ends, Shape
  <2>7. Reads(y, <<Meant({v, "NOW"}, t, TRUE)>>, A)
    BY <2>5, <2>6, SpoiltReads DEF Stuck
  <2>8. none = TRUE
    BY <1>1, <1>8
  <2>9. Len(y) # 0 /\ y[1].kind # "row"
    BY <2>4, <2>5
  <2> QED BY <1>2, <2>7, <2>8, <2>9
<1>9. CASE n # 0
  <2>1. n \in Nat \ {0} /\ n \in 1..n
    BY <1>1, <1>9
  <2>2. x[1 + n] = Row(t, q[n], comma)
    BY <1>4, <1>7, <2>1
  <2> DEFINE s == [x[1 + n] EXCEPT !.end = semi]
  <2>3. s = Row(t, q[n], semi)
    BY <2>2, EndOfRow
  <2>4. x[1 + n].kind = "row"
    BY <2>2, RowFields
  <2>5. y = Replaced(x, 1 + n, s)
    BY <1>6, <1>t, <2>4, Zenon
  <2> HIDE DEF s
  <2>6. s.kind = "row" /\ s.table = t /\ s.data = q[n] /\ Closes(s)
        /\ s.asks = {"NOW"}
    BY <1>r, <2>3, RowFields
  <2>7. IsSeq(y) /\ Len(y) = 1 + n /\ y[1 + n] = s
        /\ \A j \in 1..(1 + n) : j # 1 + n => y[j] = x[j]
    <3>1. 1 + n \in 1..Len(x)
      BY <1>1, <1>6
    <3>2. IsSeq(y) /\ Len(y) = Len(x) /\ y[1 + n] = s
          /\ \A j \in 1..Len(x) : j # 1 + n => y[j] = x[j]
      BY <1>6, <2>5, <3>1, ExceptLine
    <3> QED BY <1>6, <3>2
  <2>8. y[1] = Into(v, t)
    BY <1>6, <2>1, <2>7
  <2> DEFINE g == [k \in 1..n |-> y[1 + k]]
  <2>9. \A k \in 1..n : /\ g[k].kind = "row" /\ g[k].table = t /\ g[k].data = q[k]
                        /\ g[k].asks = {"NOW"}
                        /\ Closes(g[k]) <=> k = n
    <3> SUFFICES ASSUME NEW k \in 1..n
                 PROVE  /\ y[1 + k].kind = "row" /\ y[1 + k].table = t
                        /\ y[1 + k].data = q[k] /\ y[1 + k].asks = {"NOW"}
                        /\ Closes(y[1 + k]) <=> k = n
      OBVIOUS
    <3>1. CASE k = n
      BY <2>6, <2>7, <3>1
    <3>2. CASE k # n
      <4>1. y[1 + k] = x[1 + k]
        BY <2>7, <3>2, <1>1
      <4>2. y[1 + k] = Row(t, q[k], comma)
        BY <1>4, <1>7, <4>1
      <4>3. /\ y[1 + k].kind = "row" /\ y[1 + k].table = t /\ y[1 + k].data = q[k]
            /\ y[1 + k].asks = {"NOW"} /\ ~ Closes(y[1 + k])
        BY <1>r, <4>2, RowFields
      <4> QED BY <3>2, <4>3
    <3> QED BY <3>1, <3>2
  <2>10. \A k \in 1..n : y[1 + k] = g[k]
    OBVIOUS
  <2>11. g = [k \in 1..n |-> g[k]]
    OBVIOUS
  <2> HIDE DEF g
  <2>12. Closed(g, n, t)
    BY <2>9, <2>11 DEF Closed
  <2>13. {g[k].data : k \in 1..n} = places
    BY <1>1, <2>9
  <2>14. Reads(y, <<Meant({v, "NOW"}, t, FALSE)>>, A)
    BY <2>1, <2>7, <2>8, <2>10, <2>12, <2>13, HeadRowsReads
  <2>15. none = FALSE
    BY <1>1, <1>9
  <2>16. Len(y) # 0 /\ y[1].kind # "row"
    BY <2>1, <2>7, <2>8, HeadFields
  <2> QED BY <1>2, <2>14, <2>15, <2>16
<1> QED BY <1>8, <1>9
----------------------------------------------------------------------------
(* What a second's statements say. *)
Says(t, rows) == [table |-> t, rows |-> rows]

HistoryRow(h, n) ==
    [car |-> h.carIdx, lap |-> n, stint |-> TyresUpTo(h)[n].stint,
     used |-> TyresUpTo(h)[n].used]

HistoryRows(h) == {HistoryRow(h, n) : n \in 1..h.numLaps}

Named(s) == {i \in Cars : s.grid[i] # "empty"}

Detailed(s) == s.snapshots \cap 0..(DriverNum(s) - 1)

SaidBySecond(s) ==
    {Says("LapHistoryData", HistoryRows(h)) : h \in Range(s.histories)}
      \cup {Says("BestLap", {BestLap(h)}) : h \in Range(s.histories)}
      \cup {Says("PenaltyUpdate", {code}) : code \in {"PENA"}}
      \cup {Says("EventUpdate", {code}) : code \in EventCodes}
      \cup {Says("SessionData", {s.zones}), Says("WeatherForecast", 1..s.samples),
            Says("MarshalZones", 1..s.zones), Says("Participants", Named(s)),
            Says("CarMotion", s.placed \cap WrittenCars(s)),
            Says("CarFocus", {s.focus}), Says("LapDetails", Detailed(s))}
      \cup {Says("SessionList", {p}) : p \in {s.player, Unset}}
      \cup {Says("IpList", {p}) : p \in {s.player, Unset}}
      \cup {Says(t, WrittenCars(s)) : t \in PerCarTables}

LEMMA SecondSays ==
  ASSUME NEW s
  PROVE  /\ \A h \in Range(s.histories) :
               /\ Says("LapHistoryData", HistoryRows(h)) \in SaidBySecond(s)
               /\ Says("BestLap", {BestLap(h)}) \in SaidBySecond(s)
         /\ Says("PenaltyUpdate", {"PENA"}) \in SaidBySecond(s)
         /\ \A code \in EventCodes : Says("EventUpdate", {code}) \in SaidBySecond(s)
         /\ Says("SessionData", {s.zones}) \in SaidBySecond(s)
         /\ Says("WeatherForecast", 1..s.samples) \in SaidBySecond(s)
         /\ Says("MarshalZones", 1..s.zones) \in SaidBySecond(s)
         /\ Says("Participants", Named(s)) \in SaidBySecond(s)
         /\ Says("CarMotion", s.placed \cap WrittenCars(s)) \in SaidBySecond(s)
         /\ Says("CarFocus", {s.focus}) \in SaidBySecond(s)
         /\ Says("LapDetails", Detailed(s)) \in SaidBySecond(s)
         /\ \A p \in {s.player, Unset} :
               /\ Says("SessionList", {p}) \in SaidBySecond(s)
               /\ Says("IpList", {p}) \in SaidBySecond(s)
         /\ \A t \in PerCarTables : Says(t, WrittenCars(s)) \in SaidBySecond(s)
BY DEF SaidBySecond

LEMMA NumberedReads ==
  ASSUME NEW n \in Nat \ {0}, NEW d, NEW v, NEW t, NEW A,
         Says(t, {d[k] : k \in 1..n}) \in A
  PROVE  Reads(<<Into(v, t)>> \o [k \in 1..n |-> Row(t, d[k], IF k = n THEN ";" ELSE ",")],
               <<Meant({v, "NOW"}, t, FALSE)>>, A)
<1> DEFINE e(k) == IF k = n THEN ";" ELSE ","
           f == [k \in 1..n |-> Row(t, d[k], e(k))]
<1>1. \A k \in 1..n : Closes(Row(t, d[k], e(k))) <=> k = n
  <2> SUFFICES ASSUME NEW k \in 1..n PROVE Closes(Row(t, d[k], e(k))) <=> k = n
    OBVIOUS
  <2>1. (k = n) \in BOOLEAN
    OBVIOUS
  <2> QED BY <2>1, RowCloses, Zenon
<1> HIDE DEF e
<1>2. f = [k \in 1..n |-> f[k]] /\ \A k \in 1..n : f[k] = Row(t, d[k], e(k))
  OBVIOUS
<1> HIDE DEF f
<1>3. \A k \in 1..n : /\ f[k].kind = "row" /\ f[k].table = t /\ f[k].data = d[k]
                      /\ f[k].asks = {"NOW"}
                      /\ Closes(f[k]) <=> k = n
  BY <1>1, <1>2, RowFields
<1>4. Closed(f, n, t)
  BY <1>2, <1>3 DEF Closed
<1>5. {f[k].data : k \in 1..n} = {d[k] : k \in 1..n}
  BY <1>3
<1>6. Reads(<<Into(v, t)>> \o f, <<Meant({v, "NOW"}, t, FALSE)>>, A)
  BY <1>4, <1>5, RowsReads DEF Says
<1> QED BY <1>6 DEF f, e

LEMMA SaidWhole ==
  ASSUME NEW a, NEW t, NEW r, NEW A, Says(t, {r}) \in A
  PROVE  Reads(<<Whole(a, t, r)>>, <<Meant(a, t, FALSE)>>, A)
BY WholeReads DEF Says

LEMMA HistoryReads ==
  ASSUME NEW s, NEW h \in Range(s.histories), IsHistory(h)
  PROVE  Reads(SessionHistoryToSQL(s, h), MeantHistory(s, h), SaidBySecond(s))
<1> DEFINE A == SaidBySecond(s)
           n == h.numLaps
           t == "LapHistoryData"
           d == [k \in 1..n |-> HistoryRow(h, k)]
           f == [k \in 1..n |-> Row(t, HistoryRow(h, k), IF k = n THEN ";" ELSE ",")]
           best == <<Whole(Inserts, "BestLap", BestLap(h))>>
           mb == <<Meant(Inserts, "BestLap", FALSE)>>
<1>1. n \in Nat
  BY DEF IsHistory
<1>2. Recorded(s, h.carIdx) <=> ~ SkipTTNonexistedParticipant(s, h.carIdx)
  BY DEF Recorded, SkipTTNonexistedParticipant, IsTTMode
<1>3. CASE SkipTTNonexistedParticipant(s, h.carIdx)
  <2>1. SessionHistoryToSQL(s, h) = <<>>
    BY <1>3, Zenon DEF SessionHistoryToSQL
  <2>2. MeantHistory(s, h) = <<>>
    BY <1>2, <1>3, Zenon DEF MeantHistory
  <2> QED BY <2>1, <2>2, ReadsNothing
<1>4. CASE ~ SkipTTNonexistedParticipant(s, h.carIdx)
  <2>1. SessionHistoryToSQL(s, h) = (<<Into("REPLACE", t)>> \o f) \o best
    BY <1>4, Zenon DEF SessionHistoryToSQL, HistoryRow
  <2>2. MeantHistory(s, h) = <<Meant(Replaces, t, n = 0)>> \o mb
    <3>1. MeantHistory(s, h) = <<Meant(Replaces, t, n = 0), Meant(Inserts, "BestLap", FALSE)>>
      BY <1>2, <1>4, Zenon DEF MeantHistory
    <3> QED BY <3>1, CatPair, Zenon
  <2>3. Says(t, HistoryRows(h)) \in A /\ Says("BestLap", {BestLap(h)}) \in A
    BY SecondSays
  <2>4. Reads(best, mb, A)
    BY <2>3, SaidWhole
  <2>5. CASE n # 0
    <3>1. {d[k] : k \in 1..n} = HistoryRows(h)
      BY DEF HistoryRows
    <3>2. f = [k \in 1..n |-> Row(t, d[k], IF k = n THEN ";" ELSE ",")]
      <4> DEFINE e(k) == IF k = n THEN ";" ELSE ","
      <4> HIDE DEF e
      <4>1. [k \in 1..n |-> Row(t, HistoryRow(h, k), e(k))]
              = [k \in 1..n |-> Row(t, d[k], e(k))]
        OBVIOUS
      <4> QED BY <4>1, Zenon DEF e
    <3> HIDE DEF d, f, best, mb, n, A, t
    <3>3. Says(t, {d[k] : k \in 1..n}) \in A
      BY <2>3, <3>1
    <3>4. n \in Nat \ {0}
      BY <1>1, <2>5
    <3>5. Reads(<<Into("REPLACE", t)>> \o f, <<Meant({"REPLACE", "NOW"}, t, FALSE)>>, A)
      BY <3>2, <3>3, <3>4, NumberedReads, Zenon
    <3>6. (n = 0) = FALSE
      BY <2>5
    <3>7. Reads((<<Into("REPLACE", t)>> \o f) \o best, <<Meant(Replaces, t, FALSE)>> \o mb, A)
      BY <2>4, <3>5, ReadsCat DEF Replaces
    <3> QED BY <2>1, <2>2, <3>6, <3>7 DEF A
  <2>6. CASE n = 0
    <3>1. f = <<>>
      <4>1. 1..n = {}
        BY <2>6
      <4> DEFINE e(k) == Row(t, HistoryRow(h, k), IF k = n THEN ";" ELSE ",")
      <4> HIDE DEF e
      <4>2. [k \in 1..n |-> e(k)] = <<>>
        BY <4>1
      <4> QED BY <4>2, Zenon DEF e
    <3>2. Len(best) # 0 /\ best[1].kind # "row"
      <4>1. Len(best) = 1 /\ best[1] = Whole(Inserts, "BestLap", BestLap(h))
        BY OneSeq
      <4>2. best[1].kind = "whole"
        BY <4>1, Zenon DEF Whole
      <4> HIDE DEF best
      <4> QED BY <4>1, <4>2
    <3>3. IsSeq(<<Into("REPLACE", t)>>)
      BY OneSeq
    <3> HIDE DEF f, best, mb, n, A, t
    <3>4. <<Into("REPLACE", t)>> \o f = <<Into("REPLACE", t)>>
      BY <3>1, <3>3, CatNone
    <3>5. Reads(<<Into("REPLACE", t)>> \o best, <<Meant(Replaces, t, TRUE)>> \o mb, A)
      BY <2>4, <3>2, DanglingReads
    <3>6. (n = 0) = TRUE
      BY <2>6
    <3> QED BY <2>1, <2>2, <3>4, <3>5, <3>6 DEF A
  <2> QED BY <2>5, <2>6
<1> QED BY <1>3, <1>4

LEMMA EventReads ==
  ASSUME NEW s, NEW code \in EventCodes \cup {"PENA", "BUTN", "OVTK"}
  PROVE  Reads(EventToSQL(code), MeantEvent(code), SaidBySecond(s))
<1> DEFINE A == SaidBySecond(s)
<1>1. CASE code = "PENA"
  <2>1. EventToSQL(code) = <<Whole(Inserts, "PenaltyUpdate", "PENA")>>
    BY <1>1 DEF EventToSQL
  <2>2. MeantEvent(code) = <<Meant(Inserts, "PenaltyUpdate", FALSE)>>
    BY <1>1 DEF MeantEvent
  <2> QED BY <2>1, <2>2, SecondSays, SaidWhole
<1>2. CASE code \in {"BUTN", "OVTK"}
  <2>1. EventToSQL(code) = <<>>
    BY <1>2 DEF EventToSQL, EventCodes
  <2>2. MeantEvent(code) = <<>>
    BY <1>2 DEF MeantEvent
  <2> QED BY <2>1, <2>2, ReadsNothing
<1>3. CASE code \in EventCodes
  <2>1. code # "PENA" /\ code \notin {"BUTN", "OVTK"}
    BY <1>3 DEF EventCodes
  <2>2. EventToSQL(code) = <<Whole(Inserts, "EventUpdate", code)>>
    BY <1>3, <2>1 DEF EventToSQL
  <2>3. MeantEvent(code) = <<Meant(Inserts, "EventUpdate", FALSE)>>
    BY <2>1 DEF MeantEvent
  <2> QED BY <1>3, <2>2, <2>3, SecondSays, SaidWhole
<1> QED BY <1>1, <1>2, <1>3
----------------------------------------------------------------------------
(* The part of a second that is written when enough has come. *)
LEMMA ClosedRowsIs ==
  ASSUME NEW t, NEW n \in Nat
  PROVE  /\ n = 0 => ClosedRows(t, n) = <<>>
         /\ IsSeq(ClosedRows(t, n))
<1> DEFINE e(k) == Row(t, k, IF k = n THEN ";" ELSE ",")
           f == [k \in 1..n |-> e(k)]
<1>1. ClosedRows(t, n) = f
  BY Zenon DEF ClosedRows
<1> HIDE DEF e
<1>2. f = [k \in 1..n |-> f[k]]
  OBVIOUS
<1>3. n = 0 => f = <<>>
  OBVIOUS
<1> HIDE DEF f
<1> QED BY <1>1, <1>2, <1>3, FunSeq

LEMMA ClosedRowsReads ==
  ASSUME NEW v, NEW t, NEW n \in Nat \ {0}, NEW A, Says(t, 1..n) \in A
  PROVE  Reads(<<Into(v, t)>> \o ClosedRows(t, n), <<Meant({v, "NOW"}, t, FALSE)>>, A)
<1> DEFINE d == [k \in 1..n |-> k]
           e(k) == IF k = n THEN ";" ELSE ","
<1>1. ClosedRows(t, n) = [k \in 1..n |-> Row(t, k, e(k))]
  BY Zenon DEF ClosedRows
<1>2. [k \in 1..n |-> Row(t, d[k], IF k = n THEN ";" ELSE ",")]
        = [k \in 1..n |-> Row(t, d[k], e(k))]
  BY Zenon
<1> HIDE DEF e
<1>3. [k \in 1..n |-> Row(t, k, e(k))] = [k \in 1..n |-> Row(t, d[k], e(k))]
  OBVIOUS
<1>4. {d[k] : k \in 1..n} = 1..n
  OBVIOUS
<1> HIDE DEF d
<1>5. Says(t, {d[k] : k \in 1..n}) \in A
  BY <1>4
<1>6. Reads(<<Into(v, t)>> \o [k \in 1..n |-> Row(t, d[k], IF k = n THEN ";" ELSE ",")],
            <<Meant({v, "NOW"}, t, FALSE)>>, A)
  BY <1>5, NumberedReads, Zenon
<1> QED BY <1>1, <1>2, <1>3, <1>6, Zenon

(* A table that is left out with its head when there is nothing for it. *)
LEMMA EitherReads ==
  ASSUME NEW c \in BOOLEAN, NEW x, NEW a, NEW t, NEW A,
         c => Reads(x, <<Meant(a, t, FALSE)>>, A)
  PROVE  Reads(IF c THEN x ELSE <<>>, IF c THEN <<Meant(a, t, FALSE)>> ELSE <<>>, A)
<1>1. CASE c
  BY <1>1
<1>2. CASE ~ c
  BY <1>2, ReadsNothing
<1> QED BY <1>1, <1>2

LEMMA DriverNumIs ==
  ASSUME NEW s
  PROVE  /\ DriverNum(s) = Cardinality({i \in Cars : Counted(s, i)})
         /\ DriverNum(s) \in 0..NumCars
         /\ DriverNum(s) = 0 <=> {i \in Cars : Counted(s, i)} = {}
<1> DEFINE C == {i \in Cars : Counted(s, i)}
<1>1. DriverNum(s) = Cardinality(C)
  BY DEF DriverNum, Counted
<1>2. NumCars \in Nat /\ NumCars > 0
  BY RowWritersAssumption
<1>3. IsFiniteSet(Cars) /\ Cardinality(Cars) = NumCars
  BY <1>2, FS_Interval DEF Cars
<1>4. IsFiniteSet(C) /\ Cardinality(C) <= NumCars
  BY <1>3, FS_Subset
<1>5. Cardinality(C) \in Nat /\ (Cardinality(C) = 0 <=> C = {})
  BY <1>4, FS_CardinalityType, FS_EmptySet
<1> HIDE DEF C
<1> QED BY <1>1, <1>2, <1>4, <1>5 DEF C

LEMMA WrittenCarsIs ==
  ASSUME NEW s
  PROVE  /\ WrittenCars(s) \subseteq Cars
         /\ WrittenCars(s) = {i \in Cars : i < DriverNum(s) /\ Recorded(s, i)}
         /\ WrittenCars(s) = {} <=> {i \in Cars : Counted(s, i)} = {}
<1> DEFINE n == DriverNum(s)
<1>1. n \in 0..NumCars /\ NumCars \in Nat
  <2>1. n \in 0..NumCars
    BY DriverNumIs
  <2> QED BY <2>1, RowWritersAssumption
<1>2. \A i : SkipTTNonexistedParticipant(s, i) <=> ~ Recorded(s, i)
  BY DEF Recorded, SkipTTNonexistedParticipant, IsTTMode
<1>3. WrittenCars(s) = {i \in 0..(n - 1) : Recorded(s, i)}
  BY <1>2 DEF WrittenCars
<1>4. Recorded(s, 0)
  BY DEF Recorded
<1> HIDE DEF n
<1>5. WrittenCars(s) = {i \in Cars : i < n /\ Recorded(s, i)}
  BY <1>1, <1>3 DEF Cars
<1>6. WrittenCars(s) = {} <=> n = 0
  <2>1. n # 0 => 0 \in WrittenCars(s)
    BY <1>1, <1>3, <1>4
  <2>2. n = 0 => 0..(n - 1) = {}
    OBVIOUS
  <2> QED BY <1>3, <2>1, <2>2
<1> QED BY <1>5, <1>6, DriverNumIs DEF n

(* PerCarReads, for places of the grid. *)
LEMMA CarsRead ==
  ASSUME NEW places \in SUBSET Cars, NEW v, NEW t, NEW A,
         NEW none \in BOOLEAN, none <=> places = {},
         Says(t, places) \in A
  PROVE  /\ Reads(PerCarToSQL(v, t, places), <<Meant({v, "NOW"}, t, none)>>, A)
         /\ Len(PerCarToSQL(v, t, places)) # 0
         /\ PerCarToSQL(v, t, places)[1].kind # "row"
<1>1. NumCars \in Nat /\ places \in SUBSET (0..(NumCars - 1))
  BY RowWritersAssumption DEF Cars
<1>2. [table |-> t, rows |-> places] \in A
  BY DEF Says
<1> QED BY <1>1, <1>2, PerCarReads

(* The session and the participants: the marshal zones' head, if there are
   none, runs into the participants'. *)
Session(s) ==
    (<<Meant(Inserts, "SessionData", FALSE)>>
      \o (IF s.samples # 0 THEN <<Meant(Inserts, "WeatherForecast", FALSE)>> ELSE <<>>))
      \o <<Meant(Inserts, "MarshalZones", s.zones = 0)>>

LEMMA SessionReads ==
  ASSUME NEW s, IsSecond(s), NEW y, NEW m, NEW none \in BOOLEAN,
         m = <<Meant(Replaces, "Participants", none)>>,
         Reads(y, m, SaidBySecond(s)), Len(y) # 0, y[1].kind # "row"
  PROVE  /\ IsSeq(SessionToSQL(s))
         /\ Reads(SessionToSQL(s) \o y, Session(s) \o m, SaidBySecond(s))
<1> DEFINE A == SaidBySecond(s)
           sd == <<Whole(Inserts, "SessionData", s.zones)>>
           w == s.samples
           wt == "WeatherForecast"
           zt == "MarshalZones"
           wh == IF w > 0 THEN <<Into("INSERT", wt)>> ELSE <<>>
           wr == ClosedRows(wt, w)
           zh == <<Into("INSERT", zt)>>
           z == s.zones
           zr == ClosedRows(zt, z)
           msd == <<Meant(Inserts, "SessionData", FALSE)>>
           mw == IF w # 0 THEN <<Meant(Inserts, wt, FALSE)>> ELSE <<>>
           nz == z = 0
           mz == <<Meant(Inserts, zt, nz)>>
<1>1. SessionToSQL(s) = (((sd \o wh) \o wr) \o zh) \o zr
  BY Zenon DEF SessionToSQL
<1>2. w \in Nat /\ z \in Nat
  BY DEF IsSecond
<1>3. /\ Says("SessionData", {z}) \in A /\ Says(wt, 1..w) \in A /\ Says(zt, 1..z) \in A
  BY SecondSays
<1>4. Reads(sd, msd, A)
  BY <1>3, SaidWhole
<1>5. IsSeq(sd) /\ IsSeq(msd) /\ IsSeq(y) /\ IsSeq(m)
  BY <1>4 DEF Reads
<1>6. IsSeq(wh)
  <2>1. IsSeq(<<Into("INSERT", wt)>>) /\ IsSeq(<<>>)
    BY OneSeq, NoSeq
  <2> QED BY <2>1
<1>7. IsSeq(wr) /\ IsSeq(zr) /\ IsSeq(zh)
  BY <1>2, ClosedRowsIs, OneSeq
<1>8. Reads(wh \o wr, mw, A)
  <2>1. CASE w = 0
    <3>1. wh = <<>> /\ wr = <<>> /\ mw = <<>>
      BY <1>2, <2>1, ClosedRowsIs
    <3> HIDE DEF wh, wr, mw, A
    <3>2. wh \o wr = <<>>
      BY <3>1
    <3> QED BY <3>1, <3>2, ReadsNothing
  <2>2. CASE w # 0
    <3>0. w \in Nat \ {0} /\ w > 0
      BY <1>2, <2>2
    <3>1. w \in Nat \ {0} /\ wh = <<Into("INSERT", wt)>> /\ mw = <<Meant(Inserts, wt, FALSE)>>
      BY <3>0, Zenon
    <3> HIDE DEF wh, mw, A, w
    <3>2. Reads(<<Into("INSERT", wt)>> \o wr, <<Meant(Inserts, wt, FALSE)>>, A)
      BY <1>3, <3>1, ClosedRowsReads, Zenon DEF Inserts
    <3> QED BY <3>1, <3>2
  <2> QED BY <2>1, <2>2
<1>u. nz \in BOOLEAN /\ (z = 0 => nz = TRUE) /\ (z # 0 => nz = FALSE)
  OBVIOUS
<1>v. IsSeq(mz) /\ IsSeq(mw)
  <2>1. IsSeq(mw)
    BY <1>8 DEF Reads
  <2> QED BY <2>1, OneSeq
<1>w. z # 0 => Reads(zh \o zr, <<Meant(Inserts, zt, FALSE)>>, A)
  <2> SUFFICES ASSUME z # 0 PROVE Reads(zh \o zr, <<Meant(Inserts, zt, FALSE)>>, A)
    OBVIOUS
  <2>1. z \in Nat \ {0}
    BY <1>2
  <2> HIDE DEF z, A
  <2> QED BY <1>3, <2>1, ClosedRowsReads, Zenon DEF Inserts
<1>x. z = 0 => zr = <<>>
  BY <1>2, ClosedRowsIs
<1>y. Reads(zh \o y, <<Meant(Inserts, zt, TRUE)>> \o m, A)
  BY DanglingReads
<1> HIDE DEF A, sd, w, wh, wr, zh, z, zr, msd, mw, nz
<1>z. IsSeq(zh \o zr) /\ IsSeq(zh \o y) /\ IsSeq(wh \o wr)
  BY <1>5, <1>6, <1>7, CatSeq
<1> DEFINE x1 == sd \o (wh \o wr)
           m1 == msd \o mw
<1>9. Reads(x1, m1, A)
  BY <1>4, <1>8, ReadsCat
<1>10. IsSeq(x1) /\ IsSeq(m1)
  BY <1>9 DEF Reads
<1>11. (sd \o wh) \o wr = x1
  <2>1. IsSeq(sd) /\ IsSeq(wh) /\ IsSeq(wr)
    BY <1>5, <1>6, <1>7
  <2> QED BY <2>1, CatAssoc
<1>12. SessionToSQL(s) = (x1 \o zh) \o zr
  BY <1>1, <1>11
<1> HIDE DEF x1, m1
<1>s. IsSeq(SessionToSQL(s))
  <2>1. IsSeq(x1 \o zh)
    BY <1>7, <1>10, CatSeq
  <2> QED BY <1>7, <1>12, <2>1, CatSeq
<1>13. CASE z # 0
  <2>1. SessionToSQL(s) = x1 \o (zh \o zr)
    BY <1>7, <1>10, <1>12, CatAssoc, SMTT(30)
  <2>2. Reads(zh \o zr, mz, A)
    BY <1>u, <1>w, <1>13
  <2> HIDE DEF mz
  <2>3. Reads(x1 \o (zh \o zr), m1 \o mz, A)
    BY <1>9, <2>2, ReadsCat
  <2>4. Reads((x1 \o (zh \o zr)) \o y, (m1 \o mz) \o m, A)
    BY <2>3, ReadsCat DEF A
  <2> QED BY <1>s, <2>1, <2>4 DEF Session, A, m1, msd, mw, mz, nz, z, w
<1>14. CASE z = 0
  <2>1. IsSeq(x1 \o zh)
    BY <1>7, <1>10, CatSeq
  <2>2. SessionToSQL(s) = x1 \o zh
    BY <1>12, <1>14, <1>x, <2>1, CatNone
  <2>3. SessionToSQL(s) \o y = x1 \o (zh \o y)
    <3>1. IsSeq(x1) /\ IsSeq(zh) /\ IsSeq(y)
      BY <1>5, <1>7, <1>10
    <3>2. (x1 \o zh) \o y = x1 \o (zh \o y)
      BY <3>1, CatAssoc
    <3> QED BY <2>2, <3>2
  <2>4. Reads(zh \o y, mz \o m, A)
    BY <1>u, <1>y, <1>14
  <2> HIDE DEF mz
  <2>5. Reads(x1 \o (zh \o y), m1 \o (mz \o m), A)
    BY <1>9, <2>4, ReadsCat
  <2>6. m1 \o (mz \o m) = (m1 \o mz) \o m
    BY <1>5, <1>10, <1>v, CatAssoc, SMTT(30) DEF mz
  <2> QED BY <1>s, <2>3, <2>5, <2>6 DEF Session, A, m1, msd, mw, mz, nz, z, w
<1> QED BY <1>13, <1>14

(* A reading longer by one table. *)
LEMMA ReadsAlso ==
  ASSUME NEW x, NEW y, NEW m, NEW a, NEW t, NEW b, NEW A,
         Reads(x, m, A), Reads(y, <<Meant(a, t, b)>>, A)
  PROVE  Reads(x \o y, m \o <<Meant(a, t, b)>>, A)
<1> DEFINE n == <<Meant(a, t, b)>>
<1>1. Reads(y, n, A)
  OBVIOUS
<1> HIDE DEF n
<1>2. Reads(x \o y, m \o n, A)
  BY <1>1, ReadsCat
<1> QED BY <1>2 DEF n

StateToSQL(s) ==
    SessionToSQL(s) \o ParticipantsToSQL(s) \o CarMotionToSQL(s)
      \o LapDataToSQL(s) \o CarTelemetryToSQL(s) \o CarStatusToSQL(s)
      \o CarDamageToSQL(s) \o CarInfoToSQL(s)

LEMMA StateReads ==
  ASSUME NEW s, IsSecond(s)
  PROVE  Reads(StateToSQL(s), MeantState(s), SaidBySecond(s))
<1> DEFINE A == SaidBySecond(s)
           counted == {i \in Cars : Counted(s, i)}
           written == WrittenCars(s)
           nobody == counted = {}
           empty == \A i \in Cars : s.grid[i] = "empty"
           first == {i \in Cars : i < Cardinality(counted) /\ Recorded(s, i)}
           unplaced == first \cap s.placed = {}
           details == \E i \in s.snapshots : i < Cardinality(counted)
           named == s.player < NumCars
           pc == PerCarToSQL("REPLACE", "Participants", Named(s))
           w1 == <<Whole({"UPDATE"}, "SessionList", IF named THEN s.player ELSE Unset)>>
           w2 == <<Whole({"UPDATE", "NOW"}, "IpList", IF named /\ HaveRealUserName(s)
                                   THEN s.player ELSE Unset)>>
           T == SessionToSQL(s)
           cm == CarMotionToSQL(s)
           ld == LapDataToSQL(s)
           ct == CarTelemetryToSQL(s)
           cs == CarStatusToSQL(s)
           cd == CarDamageToSQL(s)
           df == PerCarToSQL("INSERT", "CarDiff", written)
           fo == IF s.focus # Unset THEN <<Whole(Inserts, "CarFocus", s.focus)>> ELSE <<>>
           de == IF Detailed(s) # {} THEN PerCarToSQL("REPLACE", "LapDetails", Detailed(s)) ELSE <<>>
           mf == IF s.focus # Unset THEN <<Meant(Inserts, "CarFocus", FALSE)>> ELSE <<>>
           md == IF details THEN <<Meant(Replaces, "LapDetails", FALSE)>> ELSE <<>>
<1>1. /\ nobody \in BOOLEAN /\ empty \in BOOLEAN /\ unplaced \in BOOLEAN /\ details \in BOOLEAN
  OBVIOUS
<1>2. ParticipantsToSQL(s) = pc \o (w1 \o w2)
  <2>1. ParticipantsToSQL(s) = pc \o <<w1[1], w2[1]>>
    BY OneSeq, Zenon DEF ParticipantsToSQL, Named
  <2>2. w1 \o w2 = <<w1[1], w2[1]>>
    BY CatPair, OneSeq, Zenon
  <2> QED BY <2>1, <2>2, Zenon
<1>3. CarInfoToSQL(s) = (df \o fo) \o de
  BY Zenon DEF CarInfoToSQL, Detailed
<1>4. written \in SUBSET Cars /\ (nobody <=> written = {}) /\ written = first
  BY WrittenCarsIs, DriverNumIs
<1>5. (Detailed(s) # {} <=> details) /\ Detailed(s) \in SUBSET Cars
  <2>1. s.snapshots \subseteq Cars
    BY DEF IsSecond
  <2>2. DriverNum(s) = Cardinality(counted) /\ DriverNum(s) \in 0..NumCars
    BY DriverNumIs
  <2>3. NumCars \in Nat
    BY RowWritersAssumption
  <2> HIDE DEF counted
  <2>4. \A i \in Cars : i \in 0..(DriverNum(s) - 1) <=> i < Cardinality(counted)
    BY <2>2, <2>3 DEF Cars
  <2> QED BY <2>1, <2>4 DEF Detailed
<1>6. Named(s) \in SUBSET Cars /\ (empty <=> Named(s) = {})
  BY DEF Named
<1>7. /\ Says("Participants", Named(s)) \in A
      /\ Says("CarMotion", s.placed \cap written) \in A
      /\ Says("CarFocus", {s.focus}) \in A
      /\ Says("LapDetails", Detailed(s)) \in A
      /\ \A t \in PerCarTables : Says(t, written) \in A
  BY SecondSays
<1>8. (s.placed \cap written) \in SUBSET Cars /\ (unplaced <=> s.placed \cap written = {})
  BY <1>4
<1>9. Reads(w1, <<Meant({"UPDATE"}, "SessionList", FALSE)>>, A)
  <2>1. (IF named THEN s.player ELSE Unset) \in {s.player, Unset}
    OBVIOUS
  <2> QED BY <2>1, SecondSays, SaidWhole
<1>10. Reads(w2, <<Meant({"UPDATE", "NOW"}, "IpList", FALSE)>>, A)
  <2>1. (IF named /\ HaveRealUserName(s) THEN s.player ELSE Unset) \in {s.player, Unset}
    OBVIOUS
  <2> QED BY <2>1, SecondSays, SaidWhole
<1>11. /\ Reads(pc, <<Meant(Replaces, "Participants", empty)>>, A)
       /\ Len(pc) # 0 /\ pc[1].kind # "row"
  BY <1>1, <1>6, <1>7, CarsRead, Zenon DEF Replaces
<1>12. Reads(cm, <<Meant(Inserts, "CarMotion", unplaced)>>, A)
  <2>1. cm = PerCarToSQL("INSERT", "CarMotion", s.placed \cap written)
    BY Zenon DEF CarMotionToSQL
  <2> HIDE DEF cm, unplaced, written, A
  <2> QED BY <1>1, <1>7, <1>8, <2>1, CarsRead, Zenon DEF Inserts
<1>13. ASSUME NEW t \in PerCarTables
       PROVE  Reads(PerCarToSQL("INSERT", t, written), <<Meant(Inserts, t, nobody)>>, A)
  <2>1. Says(t, written) \in A
    BY <1>7
  <2> HIDE DEF nobody, written, A
  <2> QED BY <1>1, <1>4, <2>1, CarsRead, Zenon DEF Inserts
<1>14. Reads(fo, mf, A)
  <2>1. Reads(<<Whole(Inserts, "CarFocus", s.focus)>>, <<Meant(Inserts, "CarFocus", FALSE)>>, A)
    BY <1>7, SaidWhole
  <2> QED BY <2>1, EitherReads
<1>15. Reads(de, md, A)
  <2>1. CASE details
    <3>1. de = PerCarToSQL("REPLACE", "LapDetails", Detailed(s)) /\ md = <<Meant(Replaces, "LapDetails", FALSE)>>
      BY <1>5, <2>1, Zenon
    <3>2. Reads(PerCarToSQL("REPLACE", "LapDetails", Detailed(s)), <<Meant(Replaces, "LapDetails", FALSE)>>, A)
      <4>1. (FALSE \in BOOLEAN) /\ (FALSE <=> Detailed(s) = {})
        BY <1>5, <2>1, Zenon
      <4> QED BY <1>5, <1>7, <4>1, CarsRead, Zenon DEF Replaces
    <3> QED BY <3>1, <3>2
  <2>2. CASE ~ details
    <3>1. de = <<>> /\ md = <<>>
      BY <1>5, <2>2, Zenon
    <3> QED BY <3>1, ReadsNothing
  <2> QED BY <2>1, <2>2
<1>16. IsSeq(T) /\ Reads(T \o pc, Session(s) \o <<Meant(Replaces, "Participants", empty)>>, A)
  BY <1>1, <1>11, SessionReads
<1>17. MeantState(s) =
           (((((((((((Session(s)
             \o <<Meant(Replaces, "Participants", empty)>>)
             \o <<Meant({"UPDATE"}, "SessionList", FALSE)>>)
             \o <<Meant({"UPDATE", "NOW"}, "IpList", FALSE)>>)
             \o <<Meant(Inserts, "CarMotion", unplaced)>>)
             \o <<Meant(Inserts, "LapData", nobody)>>)
             \o <<Meant(Inserts, "CarTelemetry", nobody)>>)
             \o <<Meant(Inserts, "CarStatus", nobody)>>)
             \o <<Meant(Inserts, "CarDamage", nobody)>>)
             \o <<Meant(Inserts, "CarDiff", nobody)>>)
             \o mf)
             \o md)
  BY Zenon DEF MeantState, Session
<1>18. /\ Reads(ld, <<Meant(Inserts, "LapData", nobody)>>, A)
       /\ Reads(ct, <<Meant(Inserts, "CarTelemetry", nobody)>>, A)
       /\ Reads(cs, <<Meant(Inserts, "CarStatus", nobody)>>, A)
       /\ Reads(cd, <<Meant(Inserts, "CarDamage", nobody)>>, A)
       /\ Reads(df, <<Meant(Inserts, "CarDiff", nobody)>>, A)
  BY <1>13 DEF PerCarTables, LapDataToSQL, CarTelemetryToSQL, CarStatusToSQL, CarDamageToSQL
<1>19. StateToSQL(s) = ((((((T \o (pc \o (w1 \o w2))) \o cm) \o ld) \o ct) \o cs) \o cd)
                         \o ((df \o fo) \o de)
  BY <1>2, <1>3, Zenon DEF StateToSQL
<1>20. IsSeq(T \o pc)
  BY <1>16 DEF Reads
<1> HIDE DEF A, counted, written, nobody, empty, first, unplaced, details, named, pc,
             w1, w2, T, cm, ld, ct, cs, cd, df, fo, de, mf, md
<1>21. IsSeq(pc) /\ IsSeq(w1) /\ IsSeq(w2) /\ IsSeq(df) /\ IsSeq(fo) /\ IsSeq(de)
  BY <1>9, <1>10, <1>11, <1>14, <1>15, <1>18 DEF Reads
<1>22. T \o (pc \o (w1 \o w2)) = ((T \o pc) \o w1) \o w2
  <2>1. IsSeq(w1 \o w2)
    BY <1>21, CatSeq
  <2>2. T \o (pc \o (w1 \o w2)) = (T \o pc) \o (w1 \o w2)
    <3> DEFINE ww == w1 \o w2
    <3>1. IsSeq(T) /\ IsSeq(pc) /\ IsSeq(ww)
      BY <1>16, <1>21, <2>1
    <3> HIDE DEF ww
    <3>2. T \o (pc \o ww) = (T \o pc) \o ww
      BY <3>1, CatAssoc, SMTT(30)
    <3> QED BY <3>2 DEF ww
  <2>3. (T \o pc) \o (w1 \o w2) = ((T \o pc) \o w1) \o w2
    BY <1>20, <1>21, CatAssoc, SMTT(30)
  <2> QED BY <2>2, <2>3
<1> DEFINE x1 == ((T \o pc) \o w1) \o w2
           m1 == ((Session(s) \o <<Meant(Replaces, "Participants", empty)>>)
                    \o <<Meant({"UPDATE"}, "SessionList", FALSE)>>) \o <<Meant({"UPDATE", "NOW"}, "IpList", FALSE)>>
           x2 == ((((x1 \o cm) \o ld) \o ct) \o cs) \o cd
           m2 == ((((m1 \o <<Meant(Inserts, "CarMotion", unplaced)>>) \o <<Meant(Inserts, "LapData", nobody)>>)
                    \o <<Meant(Inserts, "CarTelemetry", nobody)>>) \o <<Meant(Inserts, "CarStatus", nobody)>>)
                    \o <<Meant(Inserts, "CarDamage", nobody)>>
<1>23. Reads(x1, m1, A)
  <2>1. Reads((T \o pc) \o w1,
              (Session(s) \o <<Meant(Replaces, "Participants", empty)>>)
                \o <<Meant({"UPDATE"}, "SessionList", FALSE)>>, A)
    BY <1>9, <1>16, ReadsAlso
  <2> QED BY <1>10, <2>1, ReadsAlso
<1> HIDE DEF x1, m1
<1>24. Reads(x2, m2, A)
  <2>1. Reads(x1 \o cm, m1 \o <<Meant(Inserts, "CarMotion", unplaced)>>, A)
    BY <1>12, <1>23, ReadsAlso
  <2>2. Reads((x1 \o cm) \o ld, (m1 \o <<Meant(Inserts, "CarMotion", unplaced)>>)
                                   \o <<Meant(Inserts, "LapData", nobody)>>, A)
    BY <1>18, <2>1, ReadsAlso
  <2>3. Reads(((x1 \o cm) \o ld) \o ct,
              ((m1 \o <<Meant(Inserts, "CarMotion", unplaced)>>) \o <<Meant(Inserts, "LapData", nobody)>>)
                \o <<Meant(Inserts, "CarTelemetry", nobody)>>, A)
    BY <1>18, <2>2, ReadsAlso
  <2>4. Reads((((x1 \o cm) \o ld) \o ct) \o cs,
              (((m1 \o <<Meant(Inserts, "CarMotion", unplaced)>>) \o <<Meant(Inserts, "LapData", nobody)>>)
                \o <<Meant(Inserts, "CarTelemetry", nobody)>>) \o <<Meant(Inserts, "CarStatus", nobody)>>, A)
    BY <1>18, <2>3, ReadsAlso
  <2> QED BY <1>18, <2>4, ReadsAlso
<1>25. StateToSQL(s) = x2 \o ((df \o fo) \o de)
  BY <1>19, <1>22 DEF x1
<1>26. MeantState(s) = ((m2 \o <<Meant(Inserts, "CarDiff", nobody)>>) \o mf) \o md
  BY <1>17, Zenon DEF m1
<1> HIDE DEF x2, m2
<1>27. IsSeq(x2) /\ IsSeq(df \o fo)
  <2>1. IsSeq(x2)
    BY <1>24 DEF Reads
  <2> QED BY <1>21, <2>1, CatSeq
<1>28. x2 \o ((df \o fo) \o de) = ((x2 \o df) \o fo) \o de
  <2>1. x2 \o ((df \o fo) \o de) = (x2 \o (df \o fo)) \o de
    <3>1. IsSeq(x2) /\ IsSeq(df \o fo) /\ IsSeq(de)
      BY <1>21, <1>27
    <3> QED BY <3>1, CatAssoc, SMTT(30)
  <2>2. x2 \o (df \o fo) = (x2 \o df) \o fo
    <3>1. IsSeq(x2) /\ IsSeq(df) /\ IsSeq(fo)
      BY <1>21, <1>27
    <3> QED BY <3>1, CatAssoc
  <2> QED BY <2>1, <2>2
<1>29. Reads(x2 \o df, m2 \o <<Meant(Inserts, "CarDiff", nobody)>>, A)
  BY <1>18, <1>24, ReadsAlso
<1> DEFINE m3 == m2 \o <<Meant(Inserts, "CarDiff", nobody)>>
<1>30. Reads(x2 \o df, m3, A)
  BY <1>29
<1> HIDE DEF m3
<1>31. Reads((x2 \o df) \o fo, m3 \o mf, A)
  BY <1>14, <1>30, ReadsCat
<1>32. Reads(((x2 \o df) \o fo) \o de, (m3 \o mf) \o md, A)
  BY <1>15, <1>31, ReadsCat
<1> QED BY <1>25, <1>26, <1>28, <1>32 DEF A, m3

LEMMA SecondReads ==
  ASSUME NEW s, IsSecond(s)
  PROVE  Reads(SecondToSQL(s), MeantSecond(s), SaidBySecond(s))
<1> DEFINE A == SaidBySecond(s)
           h == [k \in DOMAIN s.histories |-> SessionHistoryToSQL(s, s.histories[k])]
           e == [k \in DOMAIN s.events |-> EventToSQL(s.events[k])]
           st == IF s.enough THEN StateToSQL(s) ELSE <<>>
           mh == [k \in DOMAIN s.histories |-> MeantHistory(s, s.histories[k])]
           me == [k \in DOMAIN s.events |-> MeantEvent(s.events[k])]
           ms == IF s.enough THEN MeantState(s) ELSE <<>>
<1>1. SecondToSQL(s) = (FlattenSeq(h) \o FlattenSeq(e)) \o st
  BY Zenon DEF SecondToSQL, StateToSQL
<1>2. MeantSecond(s) = (FlattenSeq(mh) \o FlattenSeq(me)) \o ms
  BY Zenon DEF MeantSecond
<1>3. DOMAIN s.histories = 1..Len(s.histories) /\ Len(s.histories) \in Nat
      /\ \A k \in 1..Len(s.histories) : s.histories[k] \in Range(s.histories)
  BY DEF IsSecond
<1>4. Reads(FlattenSeq(h), FlattenSeq(mh), A)
  <2>1. IsSeq(h) /\ Len(h) = Len(s.histories)
        /\ IsSeq(mh) /\ Len(mh) = Len(s.histories)
    BY <1>3, FunSeq
  <2>2. \A k \in 1..Len(h) : Reads(h[k], mh[k], A)
    <3> SUFFICES ASSUME NEW k \in 1..Len(s.histories) PROVE Reads(h[k], mh[k], A)
      BY <2>1
    <3>1. s.histories[k] \in Range(s.histories) /\ IsHistory(s.histories[k])
      BY <1>3 DEF IsSecond
    <3>2. h[k] = SessionHistoryToSQL(s, s.histories[k])
          /\ mh[k] = MeantHistory(s, s.histories[k])
      BY <1>3
    <3> QED BY <3>1, <3>2, HistoryReads
  <2> HIDE DEF h, mh, A
  <2> QED BY <2>1, <2>2, ReadsFlatten
<1>5. Reads(FlattenSeq(e), FlattenSeq(me), A)
  <2>0. DOMAIN s.events = 1..Len(s.events) /\ Len(s.events) \in Nat
        /\ \A k \in 1..Len(s.events) : s.events[k] \in EventCodes \cup {"PENA", "BUTN", "OVTK"}
    BY DEF IsSecond
  <2>1. IsSeq(e) /\ Len(e) = Len(s.events)
        /\ IsSeq(me) /\ Len(me) = Len(s.events)
    BY <2>0, FunSeq
  <2>2. \A k \in 1..Len(e) : Reads(e[k], me[k], A)
    <3> SUFFICES ASSUME NEW k \in 1..Len(s.events) PROVE Reads(e[k], me[k], A)
      BY <2>1
    <3>1. s.events[k] \in EventCodes \cup {"PENA", "BUTN", "OVTK"}
      BY <2>0
    <3>2. e[k] = EventToSQL(s.events[k]) /\ me[k] = MeantEvent(s.events[k])
      BY <2>0
    <3> QED BY <3>1, <3>2, EventReads
  <2> HIDE DEF e, me, A
  <2> QED BY <2>1, <2>2, ReadsFlatten
<1>6. Reads(st, ms, A)
  <2>1. CASE s.enough
    BY <2>1, StateReads
  <2>2. CASE ~ s.enough
    BY <2>2, ReadsNothing
  <2> QED BY <2>1, <2>2
<1> HIDE DEF A, h, e, st, mh, me, ms
<1>7. Reads(FlattenSeq(h) \o FlattenSeq(e), FlattenSeq(mh) \o FlattenSeq(me), A)
  BY <1>4, <1>5, ReadsCat
<1>8. Reads((FlattenSeq(h) \o FlattenSeq(e)) \o st,
            (FlattenSeq(mh) \o FlattenSeq(me)) \o ms, A)
  BY <1>6, <1>7, ReadsCat
<1> QED BY <1>1, <1>2, <1>8 DEF A
----------------------------------------------------------------------------
(* The other texts: a statement of one line each. *)
LEMMA WholesRead ==
  ASSUME NEW n \in Nat, NEW x, NEW m, NEW d, NEW a, NEW t, NEW A,
         x = [k \in 1..n |-> Whole(a, t, d[k])],
         m = [k \in 1..n |-> Meant(a, t, FALSE)],
         \A k \in 1..n : Says(t, {d[k]}) \in A
  PROVE  Reads(x, m, A)
<1>1. IsSeq(x) /\ Len(x) = n /\ \A k \in 1..n : x[k] = Whole(a, t, d[k])
  <2>1. x = [k \in 1..n |-> x[k]] /\ \A k \in 1..n : x[k] = Whole(a, t, d[k])
    OBVIOUS
  <2> QED BY <2>1, FunSeq
<1>2. IsSeq(m) /\ Len(m) = n /\ \A k \in 1..n : m[k] = Meant(a, t, FALSE)
  <2>1. m = [k \in 1..n |-> m[k]] /\ \A k \in 1..n : m[k] = Meant(a, t, FALSE)
    OBVIOUS
  <2> QED BY <2>1, FunSeq
<1>3. \A k \in 1..n : ~ m[k].nothing /\ m[k].table = t /\ m[k].asks = a
  <2>1. /\ Meant(a, t, FALSE).nothing = FALSE
        /\ Meant(a, t, FALSE).table = t /\ Meant(a, t, FALSE).asks = a
    BY Zenon DEF Meant
  <2> QED BY <1>2, <2>1
<1>4. Written(m) = n
  <2>1. n \in 0..Len(m) /\ IsSeq(m) /\ Len(m) = n
    BY <1>2
  <2>2. \A k \in 1..n : ~ m[k].nothing
    BY <1>3
  <2>3. n # Len(m) => m[n + 1].nothing
    BY <2>1
  <2> QED BY <2>1, <2>2, <2>3, WrittenBy
<1>5. \A k \in 1..n : /\ x[k].kind = "whole" /\ x[k].table = t /\ x[k].data = d[k]
                      /\ Closes(x[k]) /\ x[k].asks = a
  <2> SUFFICES ASSUME NEW k \in 1..n
               PROVE  /\ x[k].kind = "whole" /\ x[k].table = t /\ x[k].data = d[k]
                      /\ Closes(x[k]) /\ x[k].asks = a
    OBVIOUS
  <2>1. x[k] = Whole(a, t, d[k])
    BY <1>1
  <2> QED BY <2>1, Zenon DEF Whole, Closes
<1> DEFINE c == [k \in 0..n |-> k]
<1>6. /\ c \in [0..n -> 0..n] /\ c[0] = 0 /\ c[n] = n
      /\ \A j, k \in 0..n : j < k => c[j] < c[k]
  OBVIOUS
<1>7. ASSUME NEW k \in 1..n PROVE Good(x, c[k - 1], c[k], m[k], A)
  <2>1. c[k - 1] = k - 1 /\ c[k] = k
    OBVIOUS
  <2> DEFINE p == k - 1
  <2>2. p \in Nat /\ k \in Nat /\ k = p + 1 /\ p < k /\ k <= n
    OBVIOUS
  <2>3. Ends(x, p, k)
    <3>1. \A i \in (p + 1)..(k - 1) : FALSE
      BY <2>2
    <3> QED BY <1>1, <1>5, <2>2, <3>1 DEF Ends
  <2>4. Shape(x, p, k) /\ x[p + 1].table = t
    BY <1>5, <2>2 DEF Shape
  <2>5. Content(x, p, k) = Says(t, {d[k]})
    <3>1. {x[i].data : i \in {j \in (p + 1)..k : x[j].kind # "head"}} = {d[k]}
      <4>1. {j \in (p + 1)..k : x[j].kind # "head"} = {k}
        BY <1>5, <2>2
      <4> QED BY <1>5, <4>1
    <3>2. x[p + 1].table = t
      BY <2>4
    <3> QED BY <3>1, <3>2, Zenon DEF Content, Says
  <2>6. \A D : Knows(D, x, p, k) <=> a \subseteq D
    <3>1. \A i \in (p + 1)..k : i = k
      BY <2>2
    <3>2. k \in (p + 1)..k
      BY <2>2
    <3> QED BY <1>5, <3>1, <3>2 DEF Knows
  <2> HIDE DEF p, c
  <2> QED BY <1>3, <2>1, <2>3, <2>4, <2>5, <2>6 DEF Good, p
<1> HIDE DEF c
<1>8. Cuts(x, m, A, c)
  BY <1>1, <1>2, <1>4, <1>6, <1>7 DEF Cuts
<1> QED BY <1>1, <1>2, <1>8 DEF Reads

Classified(c) == {k \in DOMAIN c.cars : c.cars[k].status # "not_classified"}

Leader(c) == c.cars[InOrder({k \in DOMAIN c.cars : c.cars[k].position = 1})[1]]

ResultRow(c, k) ==
    [position |-> c.cars[k].position,
     result |-> ToOverallResult(IsRace(c), c.cars[k], Leader(c))]

SaidByClassification(c) ==
    {Says("FinalClassification", {ResultRow(c, k)}) : k \in DOMAIN c.cars}

LEMMA ClassificationReads ==
  ASSUME NEW c, IsClassification(c)
  PROVE  Reads(FinalClassificationToSQL(c),
               [i \in 1..Cardinality(Classified(c)) |-> Meant(Replaces, "FinalClassification", FALSE)],
               SaidByClassification(c))
<1> DEFINE S == Classified(c)
           n == Cardinality(S)
           q == InOrder(S)
           t == "FinalClassification"
           R(k) == ResultRow(c, k)
           d == [k \in 1..n |-> R(q[k])]
<1>1. DOMAIN c.cars = 1..Len(c.cars) /\ Len(c.cars) \in Nat
  BY DEF IsClassification
<1>2. Len(c.cars) + 1 \in Nat /\ S \in SUBSET (0..((Len(c.cars) + 1) - 1))
  BY <1>1 DEF Classified
<1>3. n \in Nat /\ q \in [1..n -> S]
  BY <1>2, InOrderIs
<1>4. FinalClassificationToSQL(c) = [k \in DOMAIN q |-> Whole(Replaces, t, R(q[k]))]
  BY Zenon DEF FinalClassificationToSQL, Classified, ResultRow, Leader
<1>5. S \subseteq DOMAIN c.cars
  BY DEF Classified
<1>6. \A k \in DOMAIN c.cars : Says(t, {R(k)}) \in SaidByClassification(c)
  BY DEF SaidByClassification
<1> HIDE DEF R, q, n, S
<1>7. FinalClassificationToSQL(c) = [k \in 1..n |-> Whole(Replaces, t, d[k])]
  BY <1>3, <1>4
<1>8. \A k \in 1..n : Says(t, {d[k]}) \in SaidByClassification(c)
  BY <1>3, <1>5, <1>6
<1> HIDE DEF d
<1>9. Reads(FinalClassificationToSQL(c), [k \in 1..n |-> Meant(Replaces, t, FALSE)],
            SaidByClassification(c))
  BY <1>3, <1>7, <1>8, WholesRead
<1> QED BY <1>9 DEF n, S

LEMMA LobbyReads ==
  ASSUME NEW n \in Nat
  PROVE  Reads(LobbyInfoToSQL(n), [i \in 1..n |-> Meant(Replaces, "LobbyInfo", FALSE)],
               {Says("LobbyInfo", {i}) : i \in 1..n})
<1> DEFINE A == {Says("LobbyInfo", {i}) : i \in 1..n}
           d == [i \in 1..n |-> i]
<1>1. LobbyInfoToSQL(n) = [i \in 1..n |-> Whole(Replaces, "LobbyInfo", d[i])]
  BY DEF LobbyInfoToSQL
<1>2. \A i \in 1..n : Says("LobbyInfo", {d[i]}) \in A
  OBVIOUS
<1> HIDE DEF A, d
<1>3. Reads(LobbyInfoToSQL(n), [i \in 1..n |-> Meant(Replaces, "LobbyInfo", FALSE)], A)
  BY <1>1, <1>2, WholesRead
<1> QED BY <1>3 DEF A
----------------------------------------------------------------------------
(* Every text handed to Query, whatever it was written from, reads as the
   tables it was meant to store. *)
SaidBy(what) ==
    CASE what.batch = "none" -> {}
      [] what.batch = "client" -> {Says("IpList", {Unset})}
      [] what.batch = "header" -> {Says("SessionList", {Unset})}
      [] what.batch = "lobby" -> {Says("LobbyInfo", {i}) : i \in 1..what.players}
      [] what.batch = "classification" -> SaidByClassification(what.of)
      [] what.batch = "second" -> SaidBySecond(what.of)

Read(what, x) == Reads(x, MeantBy(what), SaidBy(what))

LEMMA NothingRead == Read(Nothing, <<>>)
<1>1. MeantBy(Nothing) = <<>>
  BY DEF MeantBy, Nothing
<1> QED BY <1>1, ReadsNothing DEF Read

LEMMA ClientRead == Read([batch |-> "client"], ClientToSQL)
<1> DEFINE w == [batch |-> "client"]
           a == Inserts \cup {"ON DUPLICATE KEY", "EMPTY JSON"}
<1>1. MeantBy(w) = <<Meant(a, "IpList", FALSE)>> /\ SaidBy(w) = {Says("IpList", {Unset})}
  BY DEF MeantBy, SaidBy
<1>2. ClientToSQL = <<Whole(a, "IpList", Unset)>>
  <2>1. a = {"INSERT", "NOW", "ON DUPLICATE KEY", "EMPTY JSON"}
    BY DEF Inserts
  <2> QED BY <2>1, Zenon DEF ClientToSQL
<1> HIDE DEF a
<1>3. Reads(ClientToSQL, <<Meant(a, "IpList", FALSE)>>, {Says("IpList", {Unset})})
  BY <1>2, SaidWhole
<1> QED BY <1>1, <1>3 DEF Read

LEMMA HeaderRead == Read([batch |-> "header"], HeaderToSQL)
<1> DEFINE w == [batch |-> "header"]
<1>1. MeantBy(w) = <<Meant(Inserts, "SessionList", FALSE)>> /\ SaidBy(w) = {Says("SessionList", {Unset})}
  BY DEF MeantBy, SaidBy
<1>2. Reads(HeaderToSQL, <<Meant(Inserts, "SessionList", FALSE)>>, {Says("SessionList", {Unset})})
  BY SaidWhole DEF HeaderToSQL
<1> QED BY <1>1, <1>2 DEF Read

LEMMA LobbyRead ==
  ASSUME NEW n \in Nat
  PROVE  Read([batch |-> "lobby", players |-> n], LobbyInfoToSQL(n))
<1> DEFINE w == [batch |-> "lobby", players |-> n]
<1>1. w.batch = "lobby" /\ w.players = n
  OBVIOUS
<1> HIDE DEF w
<1>2. MeantBy(w) = [i \in 1..n |-> Meant(Replaces, "LobbyInfo", FALSE)]
  BY <1>1 DEF MeantBy
<1>3. SaidBy(w) = {Says("LobbyInfo", {i}) : i \in 1..n}
  BY <1>1 DEF SaidBy
<1> QED BY <1>2, <1>3, LobbyReads DEF Read, w

LEMMA ClassificationRead ==
  ASSUME NEW c, IsClassification(c)
  PROVE  Read([batch |-> "classification", of |-> c], FinalClassificationToSQL(c))
<1> DEFINE w == [batch |-> "classification", of |-> c]
<1>1. w.batch = "classification" /\ w.of = c
  OBVIOUS
<1> HIDE DEF w
<1>2. MeantBy(w) = [i \in 1..Cardinality(Classified(c)) |-> Meant(Replaces, "FinalClassification", FALSE)]
  BY <1>1 DEF MeantBy, Classified
<1>3. SaidBy(w) = SaidByClassification(c)
  BY <1>1 DEF SaidBy
<1> QED BY <1>2, <1>3, ClassificationReads DEF Read, w

LEMMA SecondRead ==
  ASSUME NEW s, IsSecond(s)
  PROVE  Read([batch |-> "second", of |-> s], SecondToSQL(s))
<1> DEFINE w == [batch |-> "second", of |-> s]
<1>1. w.batch = "second" /\ w.of = s
  OBVIOUS
<1> HIDE DEF w
<1>2. MeantBy(w) = MeantSecond(s)
  BY <1>1 DEF MeantBy
<1>3. SaidBy(w) = SaidBySecond(s)
  BY <1>1 DEF SaidBy
<1> QED BY <1>2, <1>3, SecondReads DEF Read, w
----------------------------------------------------------------------------
(* What a database finds in a text: the statements its cuts mark. *)
LEMMA EndIs ==
  ASSUME IsSeq(text), NEW p, NEW e, Ends(text, p, e)
  PROVE  StatementEnd(p) = e
<1> DEFINE ends == {i \in (p + 1)..Len(text) : Closes(text[i]) \/ i = Len(text)}
<1>1. StatementEnd(p) = CHOOSE i \in ends : \A j \in ends : i <= j
  BY Zenon DEF StatementEnd, Closes
<1>2. /\ p \in Nat /\ e \in Nat /\ p < e /\ e <= Len(text) /\ Closes(text[e])
      /\ \A i \in (p + 1)..(e - 1) : ~ Closes(text[i])
      /\ Len(text) \in Nat
  BY SeqLen DEF Ends
<1>3. e \in ends
  BY <1>2
<1>4. ASSUME NEW j \in ends PROVE e <= j
  BY <1>2
<1>5. ends \subseteq Int
  BY <1>2
<1> HIDE DEF ends
<1>6. \A i \in ends : (\A j \in ends : i <= j) => i = e
  BY <1>2, <1>3, <1>4, <1>5
<1> QED BY <1>1, <1>3, <1>4, <1>6

LEMMA WellFormedIs ==
  ASSUME NEW x, IsSeq(x), NEW p, NEW e, Ends(x, p, e)
  PROVE  /\ WellFormed(SubSeq(x, p + 1, e)) <=>
               Shape(x, p, e) /\ Knows(Dialect[backend], x, p, e)
         /\ Stored(SubSeq(x, p + 1, e)) = Content(x, p, e)
<1> DEFINE l == SubSeq(x, p + 1, e)
           n == Len(l)
           closed(k) == Closes(l[k]) <=> k = n
<1>1. /\ p \in Nat /\ e \in Nat /\ p < e /\ e <= Len(x) /\ Closes(x[e])
      /\ \A i \in (p + 1)..(e - 1) : ~ Closes(x[i])
      /\ Len(x) \in Nat
  BY SeqLen DEF Ends
<1>2. n = e - p /\ DOMAIN l = 1..n /\ \A k \in 1..n : l[k] = x[p + k]
  <2>1. PICK S : x \in Seq(S)
    BY DEF IsSeq
  <2> QED BY <1>1, <2>1
<1> DEFINE known == \A k \in DOMAIN l : l[k].asks \subseteq Dialect[backend]
<1>3. WellFormed(l) <=>
        /\ known
        /\ \/ n = 1 /\ l[1].kind = "whole"
           \/ /\ n > 1
              /\ l[1].kind = "head"
              /\ \A k \in 2..n : l[k].kind = "row" /\ l[k].table = l[1].table /\ closed(k)
  BY Zenon DEF WellFormed, Closes
<1>k. known <=> Knows(Dialect[backend], x, p, e)
  <2> HIDE DEF l, n, known, closed
  <2>1. \A k \in 1..n : p + k \in (p + 1)..e /\ l[k] = x[p + k]
    BY <1>1, <1>2
  <2>2. \A i \in (p + 1)..e : i - p \in 1..n /\ l[i - p] = x[i]
    BY <1>1, <1>2
  <2>3. DOMAIN l = 1..n
    BY <1>2
  <2> QED BY <2>1, <2>2, <2>3, SMTT(30) DEF Knows, known
<1>4. Stored(l) = [table |-> l[1].table,
                   rows |-> {l[k].data : k \in {j \in 1..n : l[j].kind # "head"}}]
  BY <1>2 DEF Stored
<1> HIDE DEF l, n, known
<1>5. \A k \in 2..n : closed(k)
  <2> SUFFICES ASSUME NEW k \in 2..n PROVE closed(k)
    OBVIOUS
  <2>1. p + k \in (p + 1)..e /\ l[k] = x[p + k] /\ (k = n <=> p + k = e)
    BY <1>1, <1>2
  <2>2. CASE k = n
    BY <1>1, <2>1, <2>2
  <2>3. CASE k # n
    <3>1. p + k \in (p + 1)..(e - 1)
      BY <1>1, <2>1, <2>3
    <3> QED BY <1>1, <2>1, <2>3, <3>1
  <2> QED BY <2>2, <2>3
<1> HIDE DEF closed
<1>6. l[1] = x[p + 1]
  BY <1>1, <1>2
<1>7. WellFormed(l) <=> known /\ Shape(x, p, e)
  <2>1. (n = 1 <=> e = p + 1) /\ (n > 1 <=> e > p + 1)
    BY <1>1, <1>2
  <2>2. \A i \in (p + 2)..e : i - p \in 2..n /\ l[i - p] = x[i]
    BY <1>1, <1>2
  <2>3. \A k \in 2..n : p + k \in (p + 2)..e /\ l[k] = x[p + k]
    BY <1>1, <1>2
  <2>4. (\A k \in 2..n : l[k].kind = "row" /\ l[k].table = l[1].table) <=>
          (\A i \in (p + 2)..e : x[i].kind = "row" /\ x[i].table = x[p + 1].table)
    <3> HIDE <1>1, <1>2, <1>3, <1>4
    <3> QED BY <1>6, <2>2, <2>3
  <2> QED BY <1>3, <1>5, <1>6, <2>1, <2>4 DEF Shape
<1>8. Stored(l) = Content(x, p, e)
  <2>1. {l[k].data : k \in {j \in 1..n : l[j].kind # "head"}}
          = {x[i].data : i \in {j \in (p + 1)..e : x[j].kind # "head"}}
    <3>1. \A k \in {j \in 1..n : l[j].kind # "head"} :
            p + k \in {j \in (p + 1)..e : x[j].kind # "head"} /\ x[p + k] = l[k]
      BY <1>1, <1>2
    <3>2. \A i \in {j \in (p + 1)..e : x[j].kind # "head"} :
            i - p \in {j \in 1..n : l[j].kind # "head"} /\ l[i - p] = x[i]
      BY <1>1, <1>2
    <3> QED BY <3>1, <3>2
  <2> QED BY <1>4, <1>6, <2>1 DEF Content
<1> QED BY <1>k, <1>7, <1>8 DEF l

(* How many tables come before the first that the dialect D refuses. *)
Fails(D, q) == q.nothing \/ ~ (q.asks \subseteq D)

ReachIn(D, m) == Before(m, {k \in DOMAIN m : Fails(D, m[k])})

LEMMA ReachIs == \A m : Reach(m) = ReachIn(Dialect[backend], m)
BY DEF Reach, ReachIn, Before, Refused, Fails

LEMMA ReachInIs ==
  ASSUME NEW D, NEW m, IsSeq(m)
  PROVE  /\ ReachIn(D, m) \in 0..Written(m)
         /\ Written(m) \in 0..Len(m)
         /\ \A k \in 1..ReachIn(D, m) : m[k].asks \subseteq D
         /\ ReachIn(D, m) # Written(m) => ~ (m[ReachIn(D, m) + 1].asks \subseteq D)
<1> DEFINE F == {k \in DOMAIN m : Fails(D, m[k])}
           u == Before(m, F)
<1>1. DOMAIN m = 1..Len(m) /\ Len(m) \in Nat
  BY SeqLen
<1>2. F \in SUBSET (DOMAIN m)
  OBVIOUS
<1>3. \A k \in 1..Len(m) : k \in F <=> m[k].nothing \/ ~ (m[k].asks \subseteq D)
  BY <1>1 DEF Fails
<1>4. ReachIn(D, m) = u
  BY DEF ReachIn
<1> HIDE DEF F
<1>5. u \in 0..Len(m) /\ (\A k \in 1..u : k \notin F) /\ (u # Len(m) => u + 1 \in F)
  BY <1>2, BeforeIs
<1> HIDE DEF u
<1>6. /\ Written(m) \in 0..Len(m)
      /\ \A k \in 1..Written(m) : ~ m[k].nothing
      /\ Written(m) # Len(m) => m[Written(m) + 1].nothing
  BY WrittenIs
<1>n. Len(m) \in Nat /\ u \in 0..Len(m) /\ Written(m) \in 0..Len(m)
  BY <1>1, <1>5, <1>6
<1>7. u <= Written(m)
  <2>1. SUFFICES ASSUME Written(m) < u PROVE FALSE
    BY <1>n
  <2>2. Written(m) # Len(m) /\ Written(m) + 1 \in 1..u /\ Written(m) + 1 \in 1..Len(m)
    BY <1>n, <2>1
  <2> QED BY <1>3, <1>5, <1>6, <2>2
<1>8. u # Written(m) => ~ (m[u + 1].asks \subseteq D)
  <2>1. SUFFICES ASSUME u < Written(m) PROVE ~ (m[u + 1].asks \subseteq D)
    BY <1>n, <1>7
  <2>2. u # Len(m) /\ u + 1 \in 1..Written(m) /\ u + 1 \in 1..Len(m)
    BY <1>n, <2>1
  <2> QED BY <1>3, <1>5, <1>6, <2>2
<1>9. \A k \in 1..u : k \in 1..Len(m) /\ m[k].asks \subseteq D
  <2> SUFFICES ASSUME NEW k \in 1..u PROVE k \in 1..Len(m) /\ m[k].asks \subseteq D
    OBVIOUS
  <2>1. k \in 1..Len(m)
    BY <1>n
  <2> QED BY <1>3, <1>5, <2>1
<1>10. u \in 0..Written(m)
  BY <1>n, <1>7
<1> QED BY <1>n, <1>4, <1>8, <1>9, <1>10

(* The statement there is none the dialect's database can perform. *)
LEMMA Unread ==
  ASSUME NEW D, NEW x, NEW m, NEW A, NEW c, IsSeq(x), IsSeq(m), Cuts(x, m, A, c),
         ReachIn(D, m) # Len(m)
  PROVE  \E e : /\ Ends(x, c[ReachIn(D, m)], e)
                /\ ~ (Shape(x, c[ReachIn(D, m)], e) /\ Knows(D, x, c[ReachIn(D, m)], e))
<1> DEFINE r == Written(m)
           u == ReachIn(D, m)
<1>1. Len(m) \in Nat /\ r \in 0..Len(m) /\ u \in 0..r
      /\ (u # r => ~ (m[u + 1].asks \subseteq D))
  BY SeqLen, ReachInIs
<1>2. /\ \A k \in 1..r : Good(x, c[k - 1], c[k], m[k], A)
      /\ r # Len(m) => Stuck(x, c[r])
  BY DEF Cuts
<1> HIDE DEF r, u
<1>3. CASE u = r
  <2>1. Stuck(x, c[u])
    BY <1>2, <1>3 DEF u
  <2> QED BY <2>1 DEF Stuck, u
<1>4. CASE u # r
  <2>1. u + 1 \in 1..r /\ (u + 1) - 1 = u
    BY <1>1, <1>4
  <2>2. Good(x, c[u], c[u + 1], m[u + 1], A)
    <3>1. Good(x, c[(u + 1) - 1], c[u + 1], m[u + 1], A)
      BY <1>2, <2>1
    <3> QED BY <2>1, <3>1
  <2>3. Ends(x, c[u], c[u + 1]) /\ ~ Knows(D, x, c[u], c[u + 1])
    BY <1>1, <1>4, <2>2 DEF Good
  <2> QED BY <2>3 DEF u
<1> QED BY <1>3, <1>4

(* DuckDB parses the text exactly if all of it is within its reach. *)
LEMMA ParsesIs ==
  ASSUME IsSeq(text), NEW m, IsSeq(m), NEW A, NEW c, Cuts(text, m, A, c)
  PROVE  Parses <=> ReachIn(Dialect[backend], m) = Len(m)
<1> DEFINE r == Written(m)
           D == Dialect[backend]
           u == ReachIn(D, m)
<1>1. Len(text) \in Nat /\ Len(m) \in Nat /\ r \in 0..Len(m) /\ u \in 0..r
      /\ \A k \in 1..u : m[k].asks \subseteq D
  BY SeqLen, ReachInIs
<1>2. Statements = {i \in 0..(Len(text) - 1) : i = 0 \/ Closes(text[i])}
  BY Zenon DEF Statements, Closes
<1>g. \A k \in 1..r : Good(text, c[k - 1], c[k], m[k], A)
  BY DEF Cuts
<1>3. /\ c \in [0..r -> 0..Len(text)]
      /\ c[0] = 0
      /\ \A j, k \in 0..r : j < k => c[j] < c[k]
      /\ \A k \in 1..r : Ends(text, c[k - 1], c[k]) /\ Shape(text, c[k - 1], c[k])
      /\ r = Len(m) => c[r] = Len(text)
  BY DEF Cuts, Good
<1>u. u # Len(m) =>
        \E e : Ends(text, c[u], e) /\ ~ (Shape(text, c[u], e) /\ Knows(D, text, c[u], e))
  BY Unread
<1> HIDE DEF r, u
<1>4. CASE u # Len(m)
  <2>1. PICK e : Ends(text, c[u], e) /\ ~ (Shape(text, c[u], e) /\ Knows(D, text, c[u], e))
    BY <1>4, <1>u
  <2>2. c[u] \in 0..(Len(text) - 1)
    BY <1>1, <2>1 DEF Ends
  <2>3. c[u] = 0 \/ Closes(text[c[u]])
    <3>1. CASE u = 0
      BY <1>3, <3>1
    <3>2. CASE u # 0
      <4>1. u \in 1..r
        BY <1>1, <3>2
      <4>2. Ends(text, c[u - 1], c[u])
        BY <1>3, <4>1
      <4> QED BY <4>2 DEF Ends
    <3> QED BY <3>1, <3>2
  <2>4. c[u] \in Statements
    BY <1>2, <2>2, <2>3
  <2>5. ~ WellFormed(SubSeq(text, c[u] + 1, StatementEnd(c[u])))
    BY <2>1, EndIs, WellFormedIs
  <2> QED BY <1>4, <2>4, <2>5 DEF Parses, u
<1>5. CASE u = Len(m)
  <2>r. r = Len(m)
    BY <1>1, <1>5
  <2>1. ASSUME NEW i \in Statements
        PROVE  WellFormed(SubSeq(text, i + 1, StatementEnd(i)))
    <3> DEFINE K == {k \in 0..r : i < c[k]}
    <3>1. i \in Nat /\ i < Len(text) /\ (i = 0 \/ Closes(text[i]))
      BY <1>1, <1>2
    <3>2. r \in K
      BY <1>1, <1>3, <2>r, <3>1
    <3>3. K \in SUBSET Nat
      BY <1>1
    <3> HIDE DEF K
    <3>4. PICK k \in K : \A j \in K : k <= j
      BY <3>2, <3>3, LeastNat
    <3>5. k \in 0..r /\ i < c[k] /\ k # 0
      BY <1>3, <3>1, <3>4 DEF K
    <3>6. k \in 1..r /\ k - 1 \in 0..r /\ k - 1 \notin K
      BY <1>1, <3>3, <3>4, <3>5
    <3>7. c[k - 1] \in Nat /\ c[k - 1] <= i
      <4>1. c[k - 1] \in 0..Len(text)
        BY <1>3, <3>6
      <4>2. ~ (i < c[k - 1])
        BY <3>6 DEF K
      <4> QED BY <1>1, <3>1, <4>1, <4>2
    <3>8. Ends(text, c[k - 1], c[k]) /\ Shape(text, c[k - 1], c[k])
      BY <1>3, <3>6
    <3>9. c[k - 1] = i
      <4>1. SUFFICES ASSUME c[k - 1] < i PROVE FALSE
        BY <3>1, <3>7
      <4>2. i \in (c[k - 1] + 1)..(c[k] - 1)
        BY <3>1, <3>5, <3>7, <3>8, <4>1 DEF Ends
      <4>3. i # 0
        BY <3>1, <3>7, <4>1
      <4> QED BY <3>1, <3>8, <4>2, <4>3 DEF Ends
    <3>10. Knows(D, text, c[k - 1], c[k])
      <4>1. k \in 1..u /\ k \in 1..r
        BY <1>1, <1>5, <2>r, <3>6
      <4>2. m[k].asks \subseteq D /\ Good(text, c[k - 1], c[k], m[k], A)
        BY <1>1, <1>g, <4>1
      <4> QED BY <4>2 DEF Good
    <3> QED BY <3>8, <3>9, <3>10, EndIs, WellFormedIs
  <2> QED BY <1>5, <2>1 DEF Parses, u
<1> QED BY <1>4, <1>5
----------------------------------------------------------------------------
(* Where a query stands in a database of dialect D: n lines of the text x
   are performed, as the statements st, and these are the first tables that
   were meant, none of them one the dialect refuses. *)
Told(D, what, x, n, st) ==
    /\ Read(what, x)
    /\ st \in Seq(SaidBy(what))
    /\ Len(st) <= ReachIn(D, MeantBy(what))
    /\ \A k \in 1..Len(st) : st[k].table = MeantBy(what)[k].table
    /\ \E c : Cuts(x, MeantBy(what), SaidBy(what), c) /\ n = c[Len(st)]

Complete(D, what) == ReachIn(D, MeantBy(what)) = Len(MeantBy(what))

LEMMA ToldAtFirst ==
  ASSUME NEW D, NEW what, NEW x, Read(what, x)
  PROVE  Told(D, what, x, 0, <<>>)
<1> DEFINE m == MeantBy(what)
           A == SaidBy(what)
<1> HIDE DEF m, A
<1>1. IsSeq(m) /\ \E c : Cuts(x, m, A, c)
  BY DEF Read, Reads, m, A
<1>2. ReachIn(D, m) \in Nat
  BY <1>1, SeqLen, ReachInIs
<1>3. <<>> \in Seq(A) /\ Len(<<>>) = 0
  OBVIOUS
<1>4. \E c : Cuts(x, m, A, c) /\ 0 = c[Len(<<>>)]
  BY <1>1, <1>3 DEF Cuts
<1>5. \A k \in 1..Len(<<>>) : <<>>[k].table = m[k].table
  OBVIOUS
<1> QED BY <1>2, <1>3, <1>4, <1>5 DEF Told, m, A

(* The text is used up: it was whole. *)
LEMMA ToldToTheEnd ==
  ASSUME NEW D, NEW what, NEW x, NEW n, NEW st, Told(D, what, x, n, st), n = Len(x)
  PROVE  Complete(D, what) /\ Len(st) = ReachIn(D, MeantBy(what))
<1> DEFINE m == MeantBy(what)
           A == SaidBy(what)
           r == Written(m)
           u == ReachIn(D, m)
           l == Len(st)
<1>1. IsSeq(m) /\ IsSeq(x)
  BY DEF Told, Read, Reads
<1>2. PICK c : Cuts(x, m, A, c) /\ n = c[l]
  BY DEF Told
<1>3. Len(x) \in Nat /\ r \in Nat /\ u \in 0..r /\ l \in 0..u
  BY <1>1, SeqLen, ReachInIs DEF Told
<1>4. /\ c \in [0..r -> 0..Len(x)]
      /\ \A j, k \in 0..r : j < k => c[j] < c[k]
      /\ IF r = Len(m) THEN c[r] = Len(x) ELSE Stuck(x, c[r])
  BY <1>2 DEF Cuts
<1> HIDE DEF m, A, r, u, l
<1>5. c[l] <= c[r] /\ (l # r => c[l] < c[r])
  BY <1>3, <1>4
<1>6. c[r] <= Len(x) /\ c[r] \in Nat
  BY <1>3, <1>4
<1>7. r = Len(m)
  <2>1. SUFFICES ASSUME Stuck(x, c[r]) PROVE FALSE
    BY <1>4
  <2>2. c[r] < Len(x)
    BY <1>3, <2>1 DEF Stuck, Ends
  <2> QED BY <1>2, <1>3, <1>4, <1>5, <2>2
<1>8. l = r
  BY <1>2, <1>3, <1>4, <1>5, <1>6
<1>9. l = u /\ u = r
  BY <1>3, <1>8
<1> QED BY <1>7, <1>9 DEF Complete, m, u, l

(* The next statement is one of those meant, or none the database can read,
   and then all that were before it are stored. *)
LEMMA ToldNext ==
  ASSUME NEW what, NEW n, NEW st, Told(Dialect[backend], what, text, n, st), n # Len(text)
  PROVE  /\ WellFormed(SubSeq(text, n + 1, StatementEnd(n))) =>
               Told(Dialect[backend], what, text, StatementEnd(n),
                    Append(st, Stored(SubSeq(text, n + 1, StatementEnd(n)))))
         /\ ~ WellFormed(SubSeq(text, n + 1, StatementEnd(n))) =>
               ~ Complete(Dialect[backend], what) /\ Len(st) = ReachIn(Dialect[backend], MeantBy(what))
<1> DEFINE m == MeantBy(what)
           A == SaidBy(what)
           D == Dialect[backend]
           r == Written(m)
           u == ReachIn(D, m)
           l == Len(st)
           lines == SubSeq(text, n + 1, StatementEnd(n))
           s == Stored(lines)
<1>1. IsSeq(m) /\ IsSeq(text)
  BY DEF Told, Read, Reads
<1>2. PICK c : Cuts(text, m, A, c) /\ n = c[l]
  BY DEF Told
<1>3. /\ Len(text) \in Nat /\ r \in 0..Len(m) /\ u \in 0..r /\ l \in 0..u
      /\ Len(m) \in Nat /\ st \in Seq(A)
      /\ \A k \in 1..l : st[k].table = m[k].table
      /\ \A k \in 1..u : m[k].asks \subseteq D
  BY <1>1, SeqLen, ReachInIs DEF Told
<1>4. /\ c \in [0..r -> 0..Len(text)]
      /\ \A k \in 1..r : Good(text, c[k - 1], c[k], m[k], A)
      /\ IF r = Len(m) THEN c[r] = Len(text) ELSE Stuck(text, c[r])
  BY <1>2 DEF Cuts
<1>5. CASE l < u
  <2> HIDE DEF m, A, D, r, u, l, lines, s
  <2>1. l + 1 \in 1..r /\ l + 1 \in 1..u /\ (l + 1) - 1 = l
    BY <1>3, <1>5
  <2>2. Good(text, n, c[l + 1], m[l + 1], A)
    <3>1. Good(text, c[(l + 1) - 1], c[l + 1], m[l + 1], A)
      BY <1>4, <2>1
    <3> QED BY <1>2, <2>1, <3>1
  <2>3. Ends(text, n, c[l + 1])
    BY <2>2 DEF Good
  <2>4. StatementEnd(n) = c[l + 1]
    BY <1>1, <2>3, EndIs
  <2>5. WellFormed(lines) /\ s = Content(text, n, c[l + 1])
    <3>1. Shape(text, n, c[l + 1]) /\ Knows(D, text, n, c[l + 1])
      BY <1>3, <2>1, <2>2 DEF Good
    <3> QED BY <1>1, <2>3, <2>4, <3>1, WellFormedIs DEF D, lines, s
  <2>6. s \in A /\ s.table = m[l + 1].table
    BY <2>2, <2>5 DEF Good, Content
  <2>7. /\ Append(st, s) \in Seq(A)
        /\ Len(Append(st, s)) = l + 1
        /\ \A k \in 1..l : Append(st, s)[k] = st[k]
        /\ Append(st, s)[l + 1] = s
    BY <1>3, <2>6 DEF l
  <2>8. \A k \in 1..(l + 1) : Append(st, s)[k].table = m[k].table
    <3> HIDE DEF Told
    <3>1. \A k \in 1..(l + 1) : k \in 1..l \/ k = l + 1
      BY <1>3
    <3> QED BY <1>3, <2>6, <2>7, <3>1
  <2>9. Read(what, text)
    BY DEF Told
  <2>10. \E d : Cuts(text, m, A, d) /\ StatementEnd(n) = d[Len(Append(st, s))]
    BY <1>2, <2>4, <2>7
  <2>11. Len(Append(st, s)) <= u
    BY <1>3, <1>5, <2>7
  <2>12. \A k \in 1..Len(Append(st, s)) : Append(st, s)[k].table = m[k].table
    BY <2>7, <2>8
  <2> DEFINE a == Append(st, s)
  <2>13. a \in Seq(A)
    BY <2>7
  <2> HIDE DEF a
  <2>14. Told(Dialect[backend], what, text, StatementEnd(n), a)
    BY <2>9, <2>10, <2>11, <2>12, <2>13 DEF Told, D, m, A, u, a
  <2> QED BY <2>5, <2>14 DEF a, s, lines
<1>6. CASE l = u
  <2>1. u # Len(m)
    <3> HIDE DEF m, A, D, r, u, l
    <3>1. SUFFICES ASSUME u = Len(m) PROVE FALSE
      OBVIOUS
    <3>2. r = Len(m) /\ l = r
      BY <1>3, <1>6, <3>1
    <3> QED BY <1>2, <1>4, <3>2
  <2>2. PICK e : /\ Ends(text, c[u], e)
                 /\ ~ (Shape(text, c[u], e) /\ Knows(D, text, c[u], e))
    <3> HIDE DEF m, A, D, r, l
    <3> QED BY <1>1, <1>2, <2>1, Unread
  <2> HIDE DEF m, A, r, u, l
  <2>3. ~ WellFormed(lines)
    BY <1>1, <1>2, <1>6, <2>2, EndIs, WellFormedIs
  <2> QED BY <1>6, <2>1, <2>3 DEF Complete, m, u, l
<1>7. l < u \/ l = u
  <2> HIDE DEF m, A, D, r, u, l, lines, s
  <2> QED BY <1>3
<1> QED BY <1>5, <1>6, <1>7

LEMMA ToldParses ==
  ASSUME NEW what, NEW n, NEW st, Told(Dialect[backend], what, text, n, st)
  PROVE  Parses <=> Complete(Dialect[backend], what)
<1>1. PICK c : Cuts(text, MeantBy(what), SaidBy(what), c)
  BY DEF Told
<1>2. IsSeq(MeantBy(what)) /\ IsSeq(text)
  BY DEF Told, Read, Reads
<1> QED BY <1>1, <1>2, ParsesIs DEF Complete
----------------------------------------------------------------------------
(* What the last text was written from. *)
Known(what) ==
    \/ what = Nothing
    \/ what = [batch |-> "client"]
    \/ what = [batch |-> "header"]
    \/ \E n \in Lobbies : what = [batch |-> "lobby", players |-> n]
    \/ \E c \in Classifications : what = [batch |-> "classification", of |-> c]
    \/ \E s \in Seconds : what = [batch |-> "second", of |-> s]

(* StoredPrefix is not inductive: that the statements stored are the first
   ones does not say that the lines not yet performed are the others. *)
RInv ==
    /\ Known(source)
    /\ Told(Dialect[backend], source, text, performed, stored)
    /\ mishap \in BOOLEAN
    /\ phase = "query" => verdict = "none" /\ mishap = FALSE
    /\ backend = "duckdb" /\ ~ Complete(Dialect[backend], source) => stored = <<>>
    /\ verdict # "none" /\ mishap = FALSE =>
          IF backend = "duckdb" /\ ~ Complete(Dialect[backend], source) THEN Len(stored) = 0
          ELSE Len(stored) = ReachIn(Dialect[backend], MeantBy(source))
    /\ verdict = "true" /\ backend # "duckdb" =>
          Complete(Dialect[backend], source) /\ Len(stored) = ReachIn(Dialect[backend], MeantBy(source))

(* What is stored changes only in a query and when a text is handed over. *)
LEMMA RInvKept ==
  ASSUME RInv, phase' # "query", UNCHANGED <<backend, query>>
  PROVE  RInv'
BY DEF RInv, query

LEMMA RInvHandedOver ==
  ASSUME NEW what, NEW x, Known(what), Read(what, x), HandOver(what, x)
  PROVE  RInv'
<1>1. /\ backend' = backend /\ source' = what /\ text' = x /\ performed' = 0 /\ stored' = <<>>
      /\ verdict' = "none" /\ mishap' = FALSE
  BY DEF HandOver, connection
<1>2. Told(Dialect[backend], what, x, 0, <<>>)
  BY ToldAtFirst
<1> QED BY <1>1, <1>2 DEF RInv

LEMMA RInvInit == Init => RInv
<1> SUFFICES ASSUME Init PROVE RInv
  OBVIOUS
<1>1. /\ source = Nothing /\ text = <<>> /\ performed = 0 /\ stored = <<>>
      /\ verdict = "none" /\ mishap = FALSE /\ phase = "new"
  BY DEF Init
<1>2. Told(Dialect[backend], Nothing, <<>>, 0, <<>>)
  BY NothingRead, ToldAtFirst
<1> QED BY <1>1, <1>2 DEF RInv, Known

LEMMA RInvStep == RInv /\ [Next]_vars => RInv'
<1> SUFFICES ASSUME RInv, [Next]_vars PROVE RInv'
  OBVIOUS
<1>1. CASE Open
  BY <1>1, RInvKept DEF Open
<1>2. CASE OpenFails
  BY <1>2, RInvKept DEF OpenFails, connection
<1>3. CASE ExecuteFile
  BY <1>3, RInvKept DEF ExecuteFile
<1>4. CASE FileFails
  BY <1>4, RInvKept DEF FileFails
<1>5. CASE SchemaReady
  BY <1>5, RInvKept DEF SchemaReady, connection
<1>6. CASE Destroy
  BY <1>6, RInvKept DEF Destroy
<1>16. CASE HandOverClient
  BY <1>16, ClientRead, RInvHandedOver DEF HandOverClient, Known
<1>7. CASE HandOverHeader
  BY <1>7, HeaderRead, RInvHandedOver DEF HandOverHeader, Known
<1>8. CASE HandOverLobby
  <2>1. PICK n \in Lobbies :
          HandOver([batch |-> "lobby", players |-> n], LobbyInfoToSQL(n))
    BY <1>8 DEF HandOverLobby
  <2>2. n \in Nat
    BY RecordingAssumption
  <2> QED BY <2>1, <2>2, LobbyRead, RInvHandedOver DEF Known
<1>9. CASE HandOverClassification
  <2>1. PICK c \in Classifications :
          HandOver([batch |-> "classification", of |-> c], FinalClassificationToSQL(c))
    BY <1>9 DEF HandOverClassification
  <2>2. IsClassification(c)
    BY RecordingAssumption
  <2> QED BY <2>1, <2>2, ClassificationRead, RInvHandedOver DEF Known
<1>10. CASE HandOverSecond
  <2>1. PICK s \in Seconds : HandOver([batch |-> "second", of |-> s], SecondToSQL(s))
    BY <1>10 DEF HandOverSecond
  <2>2. IsSecond(s)
    BY RecordingAssumption
  <2> QED BY <2>1, <2>2, SecondRead, RInvHandedOver DEF Known
<1>11. CASE Perform
  <2> DEFINE lines == SubSeq(text, performed + 1, StatementEnd(performed))
  <2>1. /\ performed # Len(text)
        /\ WellFormed(lines)
        /\ stored' = Append(stored, Stored(lines))
        /\ performed' = StatementEnd(performed)
        /\ UNCHANGED <<backend, phase, source, text, verdict, mishap>>
        /\ phase = "query"
        /\ backend = "duckdb" => Parses
    <3>1. performed < Len(text) => performed # Len(text)
      <4>1. PICK c : /\ Cuts(text, MeantBy(source), SaidBy(source), c)
                     /\ performed = c[Len(stored)]
        BY DEF RInv, Told
      <4>2. IsSeq(text) /\ IsSeq(MeantBy(source))
        BY DEF RInv, Told, Read, Reads
      <4> QED BY <4>2, SeqLen
    <3> QED BY <1>11, <3>1 DEF Perform, connection
  <2>2. Told(Dialect[backend], source, text, performed', stored')
    <3> HIDE DEF lines
    <3>1. Told(Dialect[backend], source, text, performed, stored)
      BY DEF RInv
    <3> QED BY <2>1, <3>1, ToldNext DEF lines
  <2>3. backend = "duckdb" => Complete(Dialect[backend], source)
    BY <2>1, ToldParses DEF RInv
  <2> HIDE DEF lines
  <2> QED BY <2>1, <2>2, <2>3 DEF RInv
<1>12. CASE StopsAtMalformed
  <2>1. /\ phase' = "idle" /\ verdict' = OnError
        /\ UNCHANGED <<backend, source, text, performed, stored, mishap>>
        /\ phase = "query" /\ performed < Len(text)
        /\ IF backend = "duckdb" THEN ~ Parses
           ELSE ~ WellFormed(SubSeq(text, performed + 1, StatementEnd(performed)))
    BY <1>12 DEF StopsAtMalformed, Return, connection
  <2>2. Told(Dialect[backend], source, text, performed, stored) /\ mishap = FALSE
    BY <2>1 DEF RInv
  <2>3. CASE backend = "duckdb"
    <3>1. ~ Complete(Dialect[backend], source)
      BY <2>1, <2>2, <2>3, ToldParses
    <3>2. stored = <<>> /\ Len(stored) = 0
      BY <2>3, <3>1 DEF RInv
    <3> QED BY <2>1, <2>2, <2>3, <3>1, <3>2 DEF RInv
  <2>4. CASE backend # "duckdb"
    <3>1. performed # Len(text)
      <4>1. IsSeq(text)
        BY <2>2 DEF Told, Read, Reads
      <4> QED BY <2>1, <4>1, SeqLen
    <3>2. Len(stored) = ReachIn(Dialect[backend], MeantBy(source))
      BY <2>1, <2>2, <2>4, <3>1, ToldNext
    <3>3. verdict' = "false"
      BY <2>1, <2>4 DEF OnError
    <3> QED BY <2>1, <2>2, <2>4, <3>2, <3>3 DEF RInv
  <2> QED BY <2>3, <2>4
<1>13. CASE StopsAtMishap
  <2>1. /\ phase' = "idle" /\ verdict' = OnError /\ mishap' = TRUE
        /\ UNCHANGED <<backend, source, text, performed, stored>>
    BY <1>13 DEF StopsAtMishap, Return, connection
  <2>2. backend # "duckdb" => verdict' = "false"
    BY <2>1 DEF OnError
  <2> QED BY <2>1, <2>2 DEF RInv
<1>14. CASE Done
  <2>1. /\ phase' = "idle" /\ verdict' = "true"
        /\ UNCHANGED <<backend, source, text, performed, stored, mishap>>
        /\ performed = Len(text)
    BY <1>14 DEF Done, Return, connection
  <2>2. Complete(Dialect[backend], source) /\ Len(stored) = ReachIn(Dialect[backend], MeantBy(source))
    BY <2>1, ToldToTheEnd DEF RInv
  <2> QED BY <2>1, <2>2 DEF RInv
<1>15. CASE UNCHANGED vars
  BY <1>15 DEF RInv, vars, connection, query
<1> QED BY <1>1, <1>2, <1>3, <1>4, <1>5, <1>6, <1>7, <1>8, <1>9, <1>10,
           <1>11, <1>12, <1>13, <1>14, <1>15, <1>16 DEF Next

LEMMA RInvAlways == Spec => []RInv
BY RInvInit, RInvStep, PTL DEF Spec

LEMMA RInvStores == RInv => StoredPrefix
<1> SUFFICES ASSUME RInv PROVE StoredPrefix
  OBVIOUS
<1> DEFINE m == MeantBy(source)
           D == Dialect[backend]
           r == ReachIn(D, m)
           l == Len(stored)
           meant == [k \in DOMAIN m |-> m[k].table]
           A == SaidBy(source)
<1>1. IsSeq(m) /\ stored \in Seq(A) /\ l <= r /\ \A k \in 1..l : stored[k].table = m[k].table
  BY DEF RInv, Told, Read, Reads
<1>2. /\ Len(m) \in Nat /\ DOMAIN m = 1..Len(m) /\ r \in 0..Len(m) /\ l \in 0..r
      /\ DOMAIN stored = 1..l
  BY <1>1, SeqLen, ReachInIs
<1> HIDE DEF A, l, r, m
<1> DEFINE T == {m[k].table : k \in DOMAIN m}
<1>3. meant \in Seq(T) /\ Len(meant) = Len(m)
  BY <1>2
<1>4. StoredTables = [k \in 1..l |-> meant[k]] /\ StoredTables \in Seq(T) /\ Len(StoredTables) = l
  BY <1>1, <1>2 DEF StoredTables
<1>5. IsPrefix(StoredTables, SubSeq(meant, 1, r))
  <2> HIDE DEF meant, T
  <2>1. SubSeq(meant, 1, r) \in Seq(T) /\ Len(SubSeq(meant, 1, r)) = r
    BY <1>2, <1>3
  <2>2. SubSeq(StoredTables, 1, l) = SubSeq(SubSeq(meant, 1, r), 1, l)
    <3>1. SubSeq(StoredTables, 1, l) \in Seq(T) /\ Len(SubSeq(StoredTables, 1, l)) = l
      BY <1>2, <1>4
    <3>2. /\ SubSeq(SubSeq(meant, 1, r), 1, l) \in Seq(T)
          /\ Len(SubSeq(SubSeq(meant, 1, r), 1, l)) = l
      BY <1>2, <2>1
    <3>3. \A k \in 1..l : SubSeq(StoredTables, 1, l)[k] = meant[k]
      BY <1>2, <1>4
    <3>4. \A k \in 1..l : SubSeq(SubSeq(meant, 1, r), 1, l)[k] = meant[k]
      BY <1>2, <1>3, <2>1
    <3> QED BY <3>1, <3>2, <3>3, <3>4, SeqEqual
  <2> QED BY <1>2, <1>4, <2>1, <2>2 DEF IsPrefix
<1>6. Complete(D, source) <=> r = Len(m)
  BY DEF Complete, m, r
<1>7. r = Len(m) /\ l = r => StoredTables = meant
  <2> HIDE DEF meant, T
  <2>1. \A k \in 1..l : StoredTables[k] = meant[k]
    BY <1>4
  <2> QED BY <1>3, <1>4, <2>1, SeqEqual
<1>8. verdict # "none" /\ ~ mishap =>
        l = IF backend = "duckdb" /\ ~ (r = Len(m)) THEN 0 ELSE r
  BY <1>6 DEF RInv, m, r, l
<1>9. verdict = "true" /\ backend # "duckdb" => r = Len(m) /\ l = r
  BY <1>6 DEF RInv, m, r, l
<1>10. MeantTables = m /\ Reachable = r
  BY ReachIs DEF MeantTables, Reachable, m, r
<1> HIDE DEF RInv
<1>11. r = Len(meant) <=> r = Len(m)
  BY <1>3
<1> HIDE DEF meant
<1> QED BY <1>5, <1>7, <1>8, <1>9, <1>10, <1>11, Zenon DEF StoredPrefix, MeantNames, l, meant

(* Whatever a database stored of a text are the tables Handle wrote first,
   in its order: PerCarToSQL, SessionToSQL and the rest close every
   statement, except one without rows, and none goes past it. *)
THEOREM StoresPrefix == Spec => []StoredPrefix
BY RInvAlways, RInvStores, PTL
----------------------------------------------------------------------------
(* RowsAgree: a row in a table was written by one of the statements that
   the source may say. *)
LEMMA RowFrom ==
  ASSUME RInv, NEW t, NEW row \in RowsOf(t)
  PROVE  \E a \in SaidBy(source) :
            /\ \E k \in 1..Len(stored) : stored[k] = a
            /\ a.table = t /\ row \in a.rows
<1>1. stored \in Seq(SaidBy(source))
  BY DEF RInv, Told
<1>2. PICK k \in DOMAIN stored : stored[k].table = t /\ row \in stored[k].rows
  BY DEF RowsOf
<1> QED BY <1>1, <1>2

LEMMA SaysFields ==
  ASSUME NEW t, NEW rows
  PROVE  Says(t, rows).table = t /\ Says(t, rows).rows = rows
BY DEF Says

(* Only a second's text and a classification's have the tables at issue. *)
LEMMA SecondSaid ==
  ASSUME RInv, NEW a \in SaidBy(source),
         a.table \notin {"IpList", "SessionList", "LobbyInfo", "FinalClassification"}
  PROVE  \E s \in Seconds : /\ source = [batch |-> "second", of |-> s]
                            /\ SaidBy(source) = SaidBySecond(s)
<1>1. Known(source)
  BY DEF RInv
<1>2. CASE source = Nothing
  BY <1>2 DEF SaidBy, Nothing
<1>7. CASE source = [batch |-> "client"]
  BY <1>7, SaysFields DEF SaidBy
<1>3. CASE source = [batch |-> "header"]
  BY <1>3, SaysFields DEF SaidBy
<1>4. ASSUME NEW n \in Lobbies, source = [batch |-> "lobby", players |-> n] PROVE FALSE
  <2>1. SaidBy(source) = {Says("LobbyInfo", {i}) : i \in 1..n}
    BY <1>4 DEF SaidBy
  <2> QED BY <2>1 DEF Says
<1>5. ASSUME NEW c \in Classifications, source = [batch |-> "classification", of |-> c]
      PROVE  FALSE
  <2>1. SaidBy(source) = SaidByClassification(c)
    BY <1>5 DEF SaidBy
  <2> QED BY <2>1 DEF Says, SaidByClassification
<1>6. ASSUME NEW s \in Seconds, source = [batch |-> "second", of |-> s]
      PROVE  SaidBy(source) = SaidBySecond(s)
  BY <1>6 DEF SaidBy
<1> QED BY <1>1, <1>2, <1>3, <1>4, <1>5, <1>6, <1>7 DEF Known

LEMMA ClassificationSaid ==
  ASSUME RInv, NEW a \in SaidBy(source), a.table = "FinalClassification"
  PROVE  \E c \in Classifications : SaidBy(source) = SaidByClassification(c)
<1>1. Known(source)
  BY DEF RInv
<1>2. CASE source = Nothing
  BY <1>2 DEF SaidBy, Nothing
<1>7. CASE source = [batch |-> "client"]
  BY <1>7, SaysFields DEF SaidBy
<1>3. CASE source = [batch |-> "header"]
  BY <1>3, SaysFields DEF SaidBy
<1>4. ASSUME NEW n \in Lobbies, source = [batch |-> "lobby", players |-> n] PROVE FALSE
  <2>1. SaidBy(source) = {Says("LobbyInfo", {i}) : i \in 1..n}
    BY <1>4 DEF SaidBy
  <2> QED BY <2>1 DEF Says
<1>5. ASSUME NEW c \in Classifications, source = [batch |-> "classification", of |-> c]
      PROVE  SaidBy(source) = SaidByClassification(c)
  BY <1>5 DEF SaidBy
<1>6. ASSUME NEW s \in Seconds, source = [batch |-> "second", of |-> s] PROVE FALSE
  <2>1. SaidBy(source) = SaidBySecond(s)
    BY <1>6 DEF SaidBy
  <2> QED BY <2>1 DEF Says, SaidBySecond, PerCarTables
<1> QED BY <1>1, <1>2, <1>3, <1>4, <1>5, <1>6, <1>7 DEF Known
----------------------------------------------------------------------------
(* The best lap. *)
LEMMA SectorsAre ==
  ASSUME NEW h, IsHistory(h), NEW l \in Nat
  PROVE  /\ LapOrNone(h, l).sector1 \in Nat
         /\ LapOrNone(h, l).sector2 \in Nat
         /\ LapOrNone(h, l).sector3 \in Nat
<1>1. CASE 0 < l /\ l < LapSlots
  <2>1. l \in DOMAIN h.laps
    BY <1>1, RowWritersAssumption DEF IsHistory
  <2> QED BY <1>1, <2>1 DEF IsHistory, LapOrNone
<1>2. CASE ~ (0 < l /\ l < LapSlots)
  <2>1. LapOrNone(h, l) = NoLap
    BY <1>2 DEF LapOrNone
  <2> QED BY <2>1 DEF NoLap
<1> QED BY <1>1, <1>2

LEMMA TheoryIsNotSlower ==
  ASSUME NEW h, IsHistory(h), BestLap(h).best > 0, BestLap(h).theoretical > 0
  PROVE  BestLap(h).theoretical <= BestLap(h).best
<1> DEFINE s1 == LapOrNone(h, h.bestSector1LapNum).sector1
           s2 == LapOrNone(h, h.bestSector2LapNum).sector2
           s3 == LapOrNone(h, h.bestSector3LapNum).sector3
           best == LapOrNone(h, h.bestLapTimeLapNum)
<1>1. /\ BestLap(h).best = best.time
      /\ BestLap(h).theoretical = IF s1 > 0 /\ s2 > 0 /\ s3 > 0 THEN s1 + s2 + s3 ELSE 0
  BY DEF BestLap
<1>2. s1 \in Nat /\ s2 \in Nat /\ s3 \in Nat
  BY SectorsAre DEF IsHistory
<1>3. best.sector1 \in Nat /\ best.sector2 \in Nat /\ best.sector3 \in Nat
  BY SectorsAre DEF IsHistory
<1>4. /\ best.time = best.sector1 + best.sector2 + best.sector3
      /\ best.time > 0 => /\ s1 <= best.sector1
                          /\ s2 <= best.sector2
                          /\ s3 <= best.sector3
  BY DEF IsHistory
<1> HIDE DEF s1, s2, s3, best
<1> QED BY <1>1, <1>2, <1>3, <1>4

LEMMA RInvTheory == RInv => TheoryNotSlower
<1> SUFFICES ASSUME RInv, NEW row \in RowsOf("BestLap"), row.best > 0, row.theoretical > 0
             PROVE  row.theoretical <= row.best
  BY DEF TheoryNotSlower
<1>1. PICK a \in SaidBy(source) : a.table = "BestLap" /\ row \in a.rows
  BY RowFrom
<1>2. PICK s \in Seconds : SaidBy(source) = SaidBySecond(s)
  BY <1>1, SecondSaid
<1>3. PICK h \in Range(s.histories) : row = BestLap(h)
  BY <1>1, <1>2 DEF Says, SaidBySecond, PerCarTables
<1>4. IsHistory(h)
  BY RecordingAssumption DEF IsSecond
<1> QED BY <1>3, <1>4, TheoryIsNotSlower
----------------------------------------------------------------------------
(* The classification. *)
LEMMA MillisOfText ==
  ASSUME NEW ms \in Nat
  PROVE  Millis(TimeText(ms)) = ms
<1>1. CASE ms = 0
  BY <1>1 DEF Millis, TimeText
<1>2. CASE ms # 0
  <2> DEFINE s == ms \div 1000
             t == <<s \div 60, s % 60, ms % 1000>>
  <2>1. TimeText(ms) = t
    BY <1>2 DEF TimeText
  <2>2. t # <<>> /\ t[1] = s \div 60 /\ t[2] = s % 60 /\ t[3] = ms % 1000
    OBVIOUS
  <2>3. Millis(t) = (t[1] * 60 + t[2]) * 1000 + t[3]
    <3> HIDE DEF t
    <3> QED BY <2>2 DEF Millis
  <2>4. s \in Nat /\ s * 1000 + (ms % 1000) = ms /\ ms % 1000 \in Nat
    OBVIOUS
  <2> HIDE DEF s
  <2>5. (s \div 60) * 60 + (s % 60) = s
    BY <2>4
  <2> QED BY <2>1, <2>2, <2>3, <2>4, <2>5
<1> QED BY <1>1, <1>2

LEMMA LeaderLeads ==
  ASSUME NEW c, IsClassification(c)
  PROVE  Leader(c) \in Range(c.cars) /\ Leader(c).position = 1
<1> DEFINE S == {k \in DOMAIN c.cars : c.cars[k].position = 1}
           q == InOrder(S)
<1>1. DOMAIN c.cars = 1..Len(c.cars) /\ Len(c.cars) \in Nat
  BY DEF IsClassification
<1>2. Len(c.cars) + 1 \in Nat /\ S \in SUBSET (0..((Len(c.cars) + 1) - 1))
  BY <1>1
<1>3. S # {}
  <2>1. PICK p \in Range(c.cars) : p.position = 1
    BY DEF IsClassification
  <2> QED BY <2>1 DEF Range
<1> HIDE DEF S
<1>4. /\ Cardinality(S) \in Nat /\ Cardinality(S) # 0
      /\ q \in [1..Cardinality(S) -> S]
  BY <1>2, <1>3, InOrderIs
<1>5. q[1] \in S
  BY <1>4
<1> QED BY <1>5 DEF Leader, Range, S

LEMMA ResultsAreOrdered ==
  ASSUME NEW c, IsClassification(c), NEW j \in DOMAIN c.cars, NEW k \in DOMAIN c.cars,
         c.cars[j].position < c.cars[k].position
  PROVE  LET a == ResultRow(c, j).result
             b == ResultRow(c, k).result
         IN  /\ a.kind = "gap" /\ b.kind = "gap" => Millis(a.text) <= Millis(b.text)
             /\ a.kind = "laps" =>
                   /\ b.kind \notin {"time", "gap"}
                   /\ b.kind = "laps" => a.text[1] <= b.text[1]
<1> DEFINE p == c.cars[j]
           q == c.cars[k]
           f == Leader(c)
           race == IsRace(c)
           P == Range(c.cars)
           Over(x) == ToOverallResult(race, x, f)
<1>1. p \in P /\ q \in P
  BY DEF Range
<1>2. f \in P /\ f.position = 1
  BY LeaderLeads
<1>3. /\ \A x \in P : /\ x.position \in Nat \ {0}
                      /\ x.laps \in Nat /\ x.total \in Nat
                      /\ x.penalties \in Nat /\ x.best \in Nat
                      /\ x.position = 1 /\ race => x.status = "finished"
      /\ \A x, y \in P : x.position < y.position =>
            IF race
            THEN x.status = "finished" /\ y.status = "finished" =>
                    \/ x.laps > y.laps
                    \/ x.laps = y.laps /\ x.total + x.penalties <= y.total + y.penalties
            ELSE y.best > 0 => x.best > 0 /\ x.best <= y.best
  BY DEF IsClassification
<1>4. ResultRow(c, j).result = Over(p) /\ ResultRow(c, k).result = Over(q)
  BY DEF ResultRow
<1>5. q.position # 1 /\ p.position < q.position
  BY <1>1, <1>3
<1> HIDE DEF p, q, f, P
<1>6. CASE race
  <2>1. \A x \in P : x.position # 1 =>
          \/ Over(x).kind = "DNF"
          \/ /\ x.status = "finished" /\ f.laps = x.laps
             /\ Over(x) = Result("gap", TimeText(x.total + x.penalties - f.total))
          \/ /\ x.status = "finished" /\ f.laps # x.laps
             /\ Over(x) = Result("laps", <<f.laps - x.laps>>)
    BY <1>6 DEF ToOverallResult, Result
  <2>2. \A x \in P : x.position = 1 => Over(x).kind = "time"
    BY <1>6 DEF ToOverallResult, Result
  <2> HIDE DEF race, Over
  <2>3. \A x \in P : x.position # 1 /\ x.status = "finished" =>
          \/ f.laps > x.laps
          \/ f.laps = x.laps /\ f.total + f.penalties <= x.total + x.penalties
    <3> SUFFICES ASSUME NEW x \in P, x.position # 1, x.status = "finished"
                 PROVE  \/ f.laps > x.laps
                        \/ f.laps = x.laps /\ f.total + f.penalties <= x.total + x.penalties
      OBVIOUS
    <3>1. f.position < x.position /\ f.status = "finished"
      BY <1>2, <1>3, <1>6
    <3> QED BY <1>2, <1>3, <1>6, <3>1
  <2>4. p.status = "finished" /\ q.status = "finished" =>
          \/ p.laps > q.laps
          \/ p.laps = q.laps /\ p.total + p.penalties <= q.total + q.penalties
    BY <1>1, <1>3, <1>5, <1>6
  <2>5. \A x \in P : x.position # 1 /\ Over(x).kind = "gap" =>
          /\ x.status = "finished" /\ f.laps = x.laps
          /\ Millis(Over(x).text) = (x.total + x.penalties) - f.total
    <3> SUFFICES ASSUME NEW x \in P, x.position # 1, Over(x).kind = "gap"
                 PROVE  /\ x.status = "finished" /\ f.laps = x.laps
                        /\ Millis(Over(x).text) = (x.total + x.penalties) - f.total
      OBVIOUS
    <3>1. /\ x.status = "finished" /\ f.laps = x.laps
          /\ Over(x).text = TimeText(x.total + x.penalties - f.total)
      BY <2>1 DEF Result
    <3>2. /\ x.total + x.penalties - f.total \in Nat
          /\ x.total + x.penalties - f.total = (x.total + x.penalties) - f.total
      BY <1>2, <1>3, <2>3, <3>1
    <3> QED BY <3>1, <3>2, MillisOfText
  <2>6. \A x \in P : Over(x).kind = "laps" =>
          /\ x.position # 1 /\ x.status = "finished" /\ f.laps # x.laps
          /\ Over(x).text[1] = f.laps - x.laps
    BY <2>1, <2>2 DEF Result
  <2>7. ASSUME Over(p).kind = "gap", Over(q).kind = "gap"
        PROVE  Millis(Over(p).text) <= Millis(Over(q).text)
    <3>1. p.position # 1
      BY <1>1, <2>2, <2>7
    <3> QED BY <1>1, <1>2, <1>3, <1>5, <2>4, <2>5, <2>7, <3>1
  <2>8. ASSUME Over(p).kind = "laps", Over(q).kind = "laps"
        PROVE  Over(p).text[1] <= Over(q).text[1]
    BY <1>1, <1>2, <1>3, <2>4, <2>6, <2>8
  <2>9. ASSUME Over(p).kind = "laps" PROVE Over(q).kind \notin {"time", "gap"}
    <3>1. Over(q).kind # "time"
      BY <1>1, <1>5, <2>1 DEF Result
    <3>2. Over(q).kind # "gap"
      BY <1>1, <1>2, <1>3, <1>5, <2>3, <2>4, <2>5, <2>6, <2>9
    <3> QED BY <3>1, <3>2
  <2> QED BY <1>4, <2>7, <2>8, <2>9
<1>7. CASE ~ race
  <2>1. \A x \in P : Over(x).kind # "laps"
    BY <1>7 DEF ToOverallResult, Result
  <2>2. \A x \in P : Over(x).kind = "gap" =>
          /\ x.position # 1 /\ x.best > 0
          /\ Over(x).text = TimeText(x.best - f.best)
    BY <1>7 DEF ToOverallResult, Result
  <2> HIDE DEF race, Over
  <2>3. \A x \in P : Over(x).kind = "gap" => Millis(Over(x).text) = x.best - f.best
    <3> SUFFICES ASSUME NEW x \in P, Over(x).kind = "gap"
                 PROVE  Millis(Over(x).text) = x.best - f.best
      OBVIOUS
    <3>1. x.position # 1 /\ x.best > 0 /\ Over(x).text = TimeText(x.best - f.best)
      BY <2>2
    <3>2. x.best - f.best \in Nat
      BY <1>2, <1>3, <1>7, <3>1
    <3> QED BY <3>1, <3>2, MillisOfText
  <2>4. ASSUME Over(p).kind = "gap", Over(q).kind = "gap"
        PROVE  Millis(Over(p).text) <= Millis(Over(q).text)
    <3>1. q.best > 0
      BY <1>1, <2>2, <2>4
    <3>2. p.best <= q.best
      BY <1>1, <1>3, <1>5, <1>7, <3>1
    <3> QED BY <1>1, <1>2, <1>3, <2>3, <2>4, <3>2
  <2> QED BY <1>1, <1>4, <2>1, <2>4
<1> QED BY <1>6, <1>7

LEMMA RInvResults == RInv => ResultsOrdered
<1> SUFFICES ASSUME RInv,
                    NEW p \in RowsOf("FinalClassification"),
                    NEW q \in RowsOf("FinalClassification"),
                    p.position < q.position
             PROVE  /\ p.result.kind = "gap" /\ q.result.kind = "gap" =>
                          Millis(p.result.text) <= Millis(q.result.text)
                    /\ p.result.kind = "laps" =>
                          /\ q.result.kind \notin {"time", "gap"}
                          /\ q.result.kind = "laps" => p.result.text[1] <= q.result.text[1]
  BY DEF ResultsOrdered
<1>1. PICK a \in SaidBy(source) : a.table = "FinalClassification" /\ p \in a.rows
  BY RowFrom
<1>2. PICK b \in SaidBy(source) : b.table = "FinalClassification" /\ q \in b.rows
  BY RowFrom
<1>3. PICK c \in Classifications : SaidBy(source) = SaidByClassification(c)
  BY <1>1, ClassificationSaid
<1>4. PICK j \in DOMAIN c.cars : p = ResultRow(c, j)
  BY <1>1, <1>3 DEF Says, SaidByClassification
<1>5. PICK k \in DOMAIN c.cars : q = ResultRow(c, k)
  BY <1>2, <1>3 DEF Says, SaidByClassification
<1>6. c.cars[j].position < c.cars[k].position
  BY <1>4, <1>5 DEF ResultRow
<1>7. IsClassification(c)
  BY RecordingAssumption
<1> QED BY <1>4, <1>5, <1>6, <1>7, ResultsAreOrdered
----------------------------------------------------------------------------
(* The tyres: TyresUpTo's recursive function exists, and goes lap by lap. *)
NewTyres == [stint |-> 1, used |-> 0]

NextLap(h, n, before) ==
    IF n > h.endLap[before.stint]
    THEN [stint |-> before.stint + 1, used |-> 0]
    ELSE [stint |-> before.stint, used |-> before.used + 1]

LEMMA TyresUnfold ==
  ASSUME NEW h, h.numLaps \in Nat
  PROVE  /\ TyresUpTo(h)[0] = NewTyres
         /\ \A n \in 1..h.numLaps : TyresUpTo(h)[n] = NextLap(h, n, TyresUpTo(h)[n - 1])
<1> DEFINE N == h.numLaps
           L(n, b) == NextLap(h, n, b)
           Laps(f, k) == f = [n \in 0..k |-> IF n = 0 THEN NewTyres ELSE L(n, f[n - 1])]
           S == {k \in Nat : \E f : Laps(f, k)}
           t == CHOOSE f : Laps(f, N)
<1>1. TyresUpTo(h) = t
  BY Zenon DEF TyresUpTo, NextLap, NewTyres
<1>2. \A n, b : L(n, b) = NextLap(h, n, b)
  OBVIOUS
<1> HIDE DEF L, N
<1>3. 0 \in S
  <2> DEFINE g == [n \in 0..0 |-> NewTyres]
  <2>1. Laps(g, 0)
    OBVIOUS
  <2> QED BY <2>1
<1>4. ASSUME NEW k \in S PROVE k + 1 \in S
  <2>1. PICK f : Laps(f, k)
    OBVIOUS
  <2> DEFINE g == [n \in 0..(k + 1) |-> IF n = k + 1 THEN L(n, f[n - 1]) ELSE f[n]]
  <2>2. k \in Nat
    OBVIOUS
  <2> HIDE DEF S
  <2>3. \A n \in 0..k : g[n] = f[n]
    BY <2>2
  <2>4. \A n \in 0..k : f[n] = IF n = 0 THEN NewTyres ELSE L(n, f[n - 1])
    BY <2>1
  <2>5. \A n \in 0..(k + 1) : g[n] = IF n = 0 THEN NewTyres ELSE L(n, g[n - 1])
    BY <2>2, <2>3, <2>4
  <2>6. g = [n \in 0..(k + 1) |-> g[n]]
    OBVIOUS
  <2>7. Laps(g, k + 1)
    <3> HIDE DEF g
    <3> QED BY <2>5, <2>6
  <2>8. \E f1 : Laps(f1, k + 1)
    <3> HIDE DEF g, Laps
    <3> QED BY <2>7
  <2> HIDE DEF Laps
  <2> QED BY <2>2, <2>8 DEF S
<1>5. N \in Nat /\ N \in S
  <2>1. N \in Nat
    BY DEF N
  <2> HIDE DEF S
  <2>2. S \in SUBSET Nat
    BY DEF S
  <2> QED BY <1>3, <1>4, <2>1, <2>2, NatInd
<1>6. Laps(t, N)
  BY <1>5
<1> HIDE DEF t
<1>7. t[0] = NewTyres
  BY <1>5, <1>6
<1>8. \A n \in 1..N : t[n] = L(n, t[n - 1])
  BY <1>5, <1>6
<1> QED BY <1>1, <1>2, <1>7, <1>8 DEF N

(* After n laps of stints that end one after another. *)
OnTyres(h, n, on) ==
    /\ on.stint \in DOMAIN h.endLap
    /\ \A r \in DOMAIN h.endLap : r < on.stint => h.endLap[r] < n
    /\ n > 0 => n <= h.endLap[on.stint]
    /\ n = 0 => on.stint = 1
    /\ on.used = IF on.stint = 1 THEN n ELSE n - h.endLap[on.stint - 1] - 1

OneAfterAnother(h) ==
    \A s, r \in DOMAIN h.endLap : s < r => h.endLap[s] < h.endLap[r]

LEMMA NextOnTyres ==
  ASSUME NEW h, IsHistory(h), OneAfterAnother(h),
         NEW k \in 0..(h.numLaps - 1), NEW on, OnTyres(h, k, on)
  PROVE  OnTyres(h, k + 1, NextLap(h, k + 1, on))
<1> DEFINE e == h.endLap
           s == on.stint
           m == NextLap(h, k + 1, on)
<1>1. e \in Seq(Nat) /\ DOMAIN e = 1..Len(e) /\ Len(e) \in Nat /\ k \in Nat
  BY DEF IsHistory
<1>2. PICK i \in 1..Len(e) : h.numLaps <= e[i]
  BY <1>1 DEF IsHistory
<1>3. /\ s \in 1..Len(e)
      /\ \A r \in 1..Len(e) : r < s => e[r] < k
      /\ k > 0 => k <= e[s]
      /\ k = 0 => s = 1
      /\ on.used = IF s = 1 THEN k ELSE k - e[s - 1] - 1
  BY <1>1 DEF OnTyres
<1>4. \A p, r \in 1..Len(e) : p < r => e[p] < e[r]
  BY <1>1 DEF OneAfterAnother
<1>5. h.numLaps \in Nat /\ k + 1 <= e[i] /\ \A r \in 1..Len(e) : e[r] \in Nat
  <2>1. h.numLaps \in Nat
    BY DEF IsHistory
  <2> HIDE DEF e
  <2> QED BY <1>1, <1>2, <2>1
<1>6. CASE k + 1 > e[s]
  <2>1. m.stint = s + 1 /\ m.used = 0
    BY <1>6 DEF NextLap
  <2> HIDE DEF m, e, s
  <2>2. s < i
    BY <1>2, <1>3, <1>4, <1>5, <1>6
  <2>3. s + 1 \in 1..Len(e)
    BY <1>1, <1>2, <1>3, <2>2
  <2>4. e[s] = k
    BY <1>1, <1>3, <1>5, <1>6
  <2>5. k + 1 <= e[s + 1]
    <3>1. e[s] < e[s + 1]
      BY <1>3, <1>4, <2>3
    <3> QED BY <1>1, <1>5, <2>3, <2>4, <3>1
  <2>6. \A r \in 1..Len(e) : r < s + 1 => e[r] < k + 1
    <3> SUFFICES ASSUME NEW r \in 1..Len(e), r < s + 1 PROVE e[r] < k + 1
      OBVIOUS
    <3>1. r < s \/ r = s
      BY <1>3
    <3> QED BY <1>1, <1>3, <1>5, <1>6, <3>1
  <2>7. s + 1 # 1 /\ (s + 1) - 1 = s /\ (k + 1) - e[s] - 1 = 0
    BY <1>1, <1>3, <2>4
  <2>8. m.used = IF m.stint = 1 THEN k + 1 ELSE (k + 1) - e[m.stint - 1] - 1
    BY <2>1, <2>7
  <2>9. /\ m.stint \in 1..Len(e)
        /\ \A r \in 1..Len(e) : r < m.stint => e[r] < k + 1
        /\ k + 1 <= e[m.stint]
    BY <2>1, <2>3, <2>5, <2>6
  <2>10. OnTyres(h, k + 1, m)
    <3>1. k + 1 # 0 /\ m.stint \in DOMAIN e
      BY <1>1, <2>9
    <3>2. \A r \in DOMAIN e : r < m.stint => e[r] < k + 1
      BY <1>1, <2>9
    <3> QED BY <2>8, <2>9, <3>1, <3>2, Zenon DEF OnTyres, e
  <2> QED BY <2>10 DEF m
<1>7. CASE ~ (k + 1 > e[s])
  <2>1. m.stint = s /\ m.used = on.used + 1
    BY <1>7 DEF NextLap
  <2> HIDE DEF m, e, s
  <2>2. k + 1 <= e[s]
    BY <1>1, <1>3, <1>5, <1>7
  <2>3. \A r \in 1..Len(e) : r < s => e[r] < k + 1
    BY <1>1, <1>3, <1>5
  <2>4. m.used = IF s = 1 THEN k + 1 ELSE (k + 1) - e[s - 1] - 1
    <3>1. CASE s = 1
      BY <1>3, <2>1, <3>1
    <3>2. CASE s # 1
      <4>1. s - 1 \in 1..Len(e) /\ e[s - 1] \in Nat
        BY <1>1, <1>3, <1>5, <3>2, SMTT(30)
      <4>2. on.used = k - e[s - 1] - 1
        BY <1>3, <3>2
      <4> QED BY <1>1, <2>1, <3>2, <4>1, <4>2
    <3> QED BY <3>1, <3>2
  <2>5. /\ m.stint \in 1..Len(e)
        /\ \A r \in 1..Len(e) : r < m.stint => e[r] < k + 1
        /\ k + 1 <= e[m.stint]
        /\ m.used = IF m.stint = 1 THEN k + 1 ELSE (k + 1) - e[m.stint - 1] - 1
    BY <1>3, <2>1, <2>2, <2>3, <2>4
  <2>6. OnTyres(h, k + 1, m)
    <3>1. k + 1 # 0 /\ m.stint \in DOMAIN e
      BY <1>1, <2>5
    <3>2. \A r \in DOMAIN e : r < m.stint => e[r] < k + 1
      BY <1>1, <2>5
    <3> QED BY <2>5, <3>1, <3>2, Zenon DEF OnTyres, e
  <2> QED BY <2>6 DEF m
<1> QED BY <1>6, <1>7

LEMMA TyresAre ==
  ASSUME NEW h, IsHistory(h), OneAfterAnother(h)
  PROVE  \A n \in 0..h.numLaps : OnTyres(h, n, TyresUpTo(h)[n])
<1> DEFINE S == {n \in 0..h.numLaps : OnTyres(h, n, TyresUpTo(h)[n])}
<1>1. h.numLaps \in Nat
  BY DEF IsHistory
<1>2. 0 \in S
  <2>1. 1 \in DOMAIN h.endLap /\ h.endLap \in Seq(Nat)
    BY DEF IsHistory
  <2>2. \A r \in DOMAIN h.endLap : ~ (r < 1)
    BY <2>1
  <2>3. TyresUpTo(h)[0] = NewTyres
    BY <1>1, TyresUnfold
  <2>4. OnTyres(h, 0, NewTyres)
    BY <2>1, <2>2 DEF OnTyres, NewTyres
  <2> QED BY <1>1, <2>3, <2>4
<1>3. ASSUME NEW k \in 0..(h.numLaps - 1), k \in S PROVE k + 1 \in S
  <2>1. k + 1 \in 1..h.numLaps /\ (k + 1) - 1 = k
    BY <1>1
  <2>2. TyresUpTo(h)[k + 1] = NextLap(h, k + 1, TyresUpTo(h)[k])
    BY <1>1, <2>1, TyresUnfold
  <2>3. OnTyres(h, k + 1, NextLap(h, k + 1, TyresUpTo(h)[k]))
    BY <1>3, NextOnTyres
  <2> QED BY <2>1, <2>2, <2>3
<1> HIDE DEF S
<1>4. 0..h.numLaps \subseteq S
  BY <1>1, <1>2, <1>3, NatIndUpTo
<1> QED BY <1>4 DEF S
LEMMA SecondKnown ==
  ASSUME RInv, source.batch = "second"
  PROVE  /\ source.of \in Seconds /\ IsSecond(source.of)
         /\ SaidBy(source) = SaidBySecond(source.of)
<1>1. \E s \in Seconds : source = [batch |-> "second", of |-> s]
  BY DEF RInv, Known, Nothing
<1>2. source.of \in Seconds
  BY <1>1
<1> QED BY <1>2, RecordingAssumption DEF SaidBy

LEMMA StintIs ==
  ASSUME NEW h, IsHistory(h), OneAfterAnother(h), NEW n \in 1..h.numLaps
  PROVE  (CHOOSE s \in DOMAIN h.endLap :
             /\ n <= h.endLap[s]
             /\ \A r \in DOMAIN h.endLap : r < s => h.endLap[r] < n)
           = TyresUpTo(h)[n].stint
<1> DEFINE e == h.endLap
           S == DOMAIN e
           on == TyresUpTo(h)[n]
           That(s) == n <= e[s] /\ \A r \in S : r < s => e[r] < n
<1>1. h.numLaps \in Nat /\ e \in Seq(Nat)
  BY DEF IsHistory
<1>2. n \in Nat /\ n > 0 /\ n \in 0..h.numLaps
  BY <1>1
<1>3. S \subseteq Nat /\ \A s \in S : e[s] \in Nat
  BY <1>1
<1>4. OnTyres(h, n, on)
  BY <1>2, TyresAre
<1>5. on.stint \in S /\ That(on.stint)
  BY <1>2, <1>4 DEF OnTyres
<1> DEFINE o == on.stint
<1>o. o \in S /\ o \in Nat /\ n <= e[o] /\ e[o] \in Nat /\ \A r \in S : r < o => e[r] < n
  BY <1>3, <1>5
<1> HIDE DEF e, S, on, o
<1>6. ASSUME NEW s \in S, That(s) PROVE s = o
  <2>1. /\ s \in Nat /\ n <= e[s] /\ e[s] \in Nat
        /\ \A r \in S : r < s => e[r] < n
    BY <1>3, <1>6
  <2>2. s < o => FALSE
    BY <1>2, <1>o, <1>6, <2>1
  <2>3. o < s => FALSE
    BY <1>2, <1>o, <2>1
  <2> QED BY <1>o, <2>1, <2>2, <2>3
<1> HIDE DEF That
<1>7. (CHOOSE s \in S : That(s)) = o
  BY <1>5, <1>6, <1>o DEF o
<1> QED BY <1>7, Zenon DEF That, e, S, on, o

LEMMA RInvLaps == RInv => LapsOnRightTyres
<1> SUFFICES ASSUME RInv, source.batch = "second" PROVE LapsOnRightTyres
  BY Zenon DEF LapsOnRightTyres
<1> DEFINE hs == source.of.histories
           StintOf(h, lap) == CHOOSE s \in DOMAIN h.endLap :
                                /\ lap <= h.endLap[s]
                                /\ \A r \in DOMAIN h.endLap : r < s => h.endLap[r] < lap
           Right(h, row) ==
             /\ row.stint = StintOf(h, row.lap)
             /\ row.used = IF StintOf(h, row.lap) = 1 THEN row.lap
                           ELSE row.lap - h.endLap[StintOf(h, row.lap) - 1] - 1
<1>1. IsSecond(source.of) /\ SaidBy(source) = SaidBySecond(source.of)
  BY SecondKnown
<1>2. ASSUME NEW k \in DOMAIN hs, OneAfterAnother(hs[k]),
             NEW row \in RowsOf("LapHistoryData"), row.car = hs[k].carIdx
      PROVE  Right(hs[k], row)
  <2>1. PICK a \in SaidBySecond(source.of) : a.table = "LapHistoryData" /\ row \in a.rows
    BY <1>1, RowFrom
  <2>2. PICK g \in Range(hs) : row \in HistoryRows(g)
    BY <2>1 DEF Says, SaidBySecond, PerCarTables
  <2>3. PICK j \in DOMAIN hs : g = hs[j]
    BY DEF Range
  <2>4. PICK n \in 1..g.numLaps : row = HistoryRow(g, n)
    BY <2>2 DEF HistoryRows
  <2>5. row.car = g.carIdx /\ row.lap = n /\ row.stint = TyresUpTo(g)[n].stint
          /\ row.used = TyresUpTo(g)[n].used
    BY <2>4 DEF HistoryRow
  <2>6. g = hs[k]
    BY <1>1, <1>2, <2>3, <2>5 DEF IsSecond
  <2>7. IsHistory(g) /\ OneAfterAnother(g)
    BY <1>1, <1>2, <2>6 DEF IsSecond
  <2>8. StintOf(g, n) = TyresUpTo(g)[n].stint
    BY <2>7, StintIs
  <2>9. OnTyres(g, n, TyresUpTo(g)[n])
    <3>1. g.numLaps \in Nat
      BY <2>7 DEF IsHistory
    <3> QED BY <2>7, <3>1, TyresAre
  <2> HIDE DEF StintOf
  <2>10. TyresUpTo(g)[n].used = IF StintOf(g, n) = 1 THEN n
                                ELSE n - g.endLap[StintOf(g, n) - 1] - 1
    BY <2>8, <2>9, Zenon DEF OnTyres
  <2> QED BY <2>5, <2>6, <2>8, <2>10
<1> QED BY <1>2, Zenon DEF LapsOnRightTyres, OneAfterAnother
----------------------------------------------------------------------------
(* The tables of the cars: the participants' comes before them. *)
Plain(m) ==
    /\ IsSeq(m)
    /\ \A k \in 1..Len(m) : m[k].table \notin PerCarTables

Announced(m) ==
    /\ IsSeq(m)
    /\ \E j \in 1..Len(m) :
          /\ m[j].table = "Participants"
          /\ \A k \in 1..j : m[k].table \notin PerCarTables

LEMMA PlainOne ==
  ASSUME NEW q, NEW t, NEW b, t \notin PerCarTables
  PROVE  Plain(<<Meant(q, t, b)>>)
<1> DEFINE m == <<Meant(q, t, b)>>
<1>1. IsSeq(m) /\ Len(m) = 1 /\ m[1] = Meant(q, t, b)
  BY OneSeq
<1> HIDE DEF m
<1>2. \A k \in 1..Len(m) : m[k].table = t
  BY <1>1, MeantFields
<1>3. Plain(m)
  BY <1>1, <1>2 DEF Plain
<1> QED BY <1>3 DEF m

LEMMA PlainNone == Plain(<<>>)
BY NoSeq DEF Plain

LEMMA PlainCat ==
  ASSUME NEW m, NEW n, Plain(m), Plain(n)
  PROVE  Plain(m \o n)
<1> DEFINE mn == m \o n
<1>0. IsSeq(m) /\ IsSeq(n)
  BY DEF Plain
<1>1. /\ IsSeq(mn) /\ Len(mn) = Len(m) + Len(n)
      /\ \A i \in 1..Len(m) : mn[i] = m[i]
      /\ \A i \in 1..Len(n) : mn[Len(m) + i] = n[i]
  BY <1>0, CatSeq
<1>2. Len(m) \in Nat /\ Len(n) \in Nat
  BY <1>0, SeqLen
<1> HIDE DEF mn
<1>3. ASSUME NEW k \in 1..Len(mn) PROVE mn[k].table \notin PerCarTables
  <2>1. CASE k <= Len(m)
    BY <1>1, <1>2, <2>1 DEF Plain
  <2>2. CASE k > Len(m)
    <3>1. k - Len(m) \in 1..Len(n) /\ k = Len(m) + (k - Len(m))
      BY <1>1, <1>2, <2>2
    <3>2. mn[k] = n[k - Len(m)]
      BY <1>1, <3>1
    <3> QED BY <3>1, <3>2 DEF Plain
  <2> QED BY <1>2, <2>1, <2>2
<1>4. Plain(mn)
  BY <1>1, <1>3 DEF Plain
<1> QED BY <1>4 DEF mn

LEMMA AnnouncedFirst ==
  ASSUME NEW m, NEW n, Announced(m), IsSeq(n)
  PROVE  Announced(m \o n)
<1> DEFINE mn == m \o n
<1>0. IsSeq(m)
  BY DEF Announced
<1>1. /\ IsSeq(mn) /\ Len(mn) = Len(m) + Len(n)
      /\ \A i \in 1..Len(m) : mn[i] = m[i]
  BY <1>0, CatSeq
<1>2. Len(m) \in Nat /\ Len(n) \in Nat
  BY <1>0, SeqLen
<1> HIDE DEF mn
<1>3. PICK j \in 1..Len(m) : /\ m[j].table = "Participants"
                             /\ \A k \in 1..j : m[k].table \notin PerCarTables
  BY DEF Announced
<1>4. j \in 1..Len(mn) /\ mn[j] = m[j] /\ \A k \in 1..j : mn[k] = m[k]
  BY <1>1, <1>2
<1>5. Announced(mn)
  BY <1>1, <1>3, <1>4 DEF Announced
<1> QED BY <1>5 DEF mn

LEMMA AnnouncedLater ==
  ASSUME NEW m, NEW n, Plain(m), Announced(n)
  PROVE  Announced(m \o n)
<1> DEFINE mn == m \o n
<1>0. IsSeq(m) /\ IsSeq(n)
  BY DEF Plain, Announced
<1>1. /\ IsSeq(mn) /\ Len(mn) = Len(m) + Len(n)
      /\ \A i \in 1..Len(m) : mn[i] = m[i]
      /\ \A i \in 1..Len(n) : mn[Len(m) + i] = n[i]
  BY <1>0, CatSeq
<1>2. Len(m) \in Nat /\ Len(n) \in Nat
  BY <1>0, SeqLen
<1> HIDE DEF mn
<1>3. PICK i \in 1..Len(n) : /\ n[i].table = "Participants"
                             /\ \A k \in 1..i : n[k].table \notin PerCarTables
  BY DEF Announced
<1> DEFINE j == Len(m) + i
<1>4. j \in 1..Len(mn) /\ mn[j].table = "Participants"
  BY <1>1, <1>2, <1>3
<1>5. ASSUME NEW k \in 1..j PROVE mn[k].table \notin PerCarTables
  <2>1. CASE k <= Len(m)
    BY <1>1, <1>2, <2>1 DEF Plain
  <2>2. CASE k > Len(m)
    <3>1. k - Len(m) \in 1..i /\ k - Len(m) \in 1..Len(n) /\ k = Len(m) + (k - Len(m))
      BY <1>2, <2>2
    <3>2. mn[k] = n[k - Len(m)]
      BY <1>1, <3>1
    <3> QED BY <1>3, <3>1, <3>2
  <2> QED BY <1>2, <2>1, <2>2
<1> HIDE DEF j
<1>6. Announced(mn)
  BY <1>1, <1>4, <1>5 DEF Announced
<1> QED BY <1>6 DEF mn

LEMMA PlainFlatten ==
  ASSUME NEW p, IsSeq(p), \A k \in 1..Len(p) : Plain(p[k])
  PROVE  Plain(FlattenSeq(p))
<1>1. CASE Len(p) = 0
  <2>1. p = <<>>
    BY <1>1, EmptySeq DEF IsSeq
  <2>2. FlattenSeq(p) = p
    BY <1>1 DEF FlattenSeq
  <2> QED BY <2>1, <2>2, PlainNone
<1>2. CASE Len(p) # 0
  <2> DEFINE n == Len(p)
  <2>1. n \in Nat \ {0}
    BY <1>2, SeqLen
  <2>2. PICK f : Flattens(p, f)
    BY <1>2, FlattenUnfolds
  <2>3. /\ FlattenSeq(p) = f[n] /\ f[1] = p[1]
        /\ \A i \in 1..(n - 1) : f[i + 1] = f[i] \o p[i + 1]
    BY <2>2, Zenon DEF Flattens
  <2>p. \A k \in 1..n : Plain(p[k])
    OBVIOUS
  <2> HIDE DEF n
  <2> DEFINE S == {k \in Nat : Plain(f[k + 1])}
  <2>4. 0 \in S
    BY <2>1, <2>3, <2>p
  <2>5. ASSUME NEW k \in 0..((n - 1) - 1), k \in S PROVE k + 1 \in S
    <3>1. k + 1 \in 1..(n - 1) /\ (k + 1) + 1 \in 1..n /\ k + 1 \in Nat
      BY <2>1
    <3>2. f[(k + 1) + 1] = f[k + 1] \o p[(k + 1) + 1]
      BY <2>3, <3>1
    <3>3. Plain(f[k + 1]) /\ Plain(p[(k + 1) + 1])
      BY <2>5, <2>p, <3>1
    <3>4. Plain(f[(k + 1) + 1])
      BY <3>2, <3>3, PlainCat
    <3> QED BY <3>1, <3>4
  <2>6. n - 1 \in S
    <3> HIDE DEF S
    <3>1. n - 1 \in Nat /\ n - 1 \in 0..(n - 1)
      BY <2>1
    <3> QED BY <2>4, <2>5, <3>1, NatIndUpTo
  <2>7. (n - 1) + 1 = n
    BY <2>1
  <2> QED BY <2>3, <2>6, <2>7
<1> QED BY <1>1, <1>2

LEMMA SessionPlain ==
  ASSUME NEW s
  PROVE  Plain(Session(s))
<1> DEFINE a == <<Meant(Inserts, "SessionData", FALSE)>>
           b == <<Meant(Inserts, "WeatherForecast", FALSE)>>
           w == IF s.samples # 0 THEN b ELSE <<>>
           z == <<Meant(Inserts, "MarshalZones", s.zones = 0)>>
<1>1. Plain(a) /\ Plain(b) /\ Plain(z)
  BY PlainOne DEF PerCarTables
<1>2. Session(s) = (a \o w) \o z
  BY Zenon DEF Session
<1>3. Plain(w)
  <2> HIDE DEF b
  <2> QED BY <1>1, PlainNone
<1> HIDE DEF a, b, w, z
<1>4. Plain(a \o w)
  BY <1>1, <1>3, PlainCat
<1>5. Plain((a \o w) \o z)
  BY <1>1, <1>4, PlainCat
<1> QED BY <1>2, <1>5

LEMMA AnnouncedNow ==
  ASSUME NEW q, NEW b
  PROVE  Announced(<<Meant(q, "Participants", b)>>)
<1> DEFINE m == <<Meant(q, "Participants", b)>>
<1>1. IsSeq(m) /\ Len(m) = 1 /\ m[1] = Meant(q, "Participants", b)
  BY OneSeq
<1>2. m[1].table = "Participants"
  BY <1>1, MeantFields
<1> HIDE DEF m
<1>3. 1 \in 1..Len(m) /\ \A k \in 1..1 : m[k].table \notin PerCarTables
  BY <1>1, <1>2 DEF PerCarTables
<1>4. Announced(m)
  BY <1>1, <1>2, <1>3 DEF Announced
<1> QED BY <1>4 DEF m
LEMMA AnnouncedAlso ==
  ASSUME NEW m, NEW q, NEW t, NEW b, Announced(m)
  PROVE  Announced(m \o <<Meant(q, t, b)>>)
<1> DEFINE n == <<Meant(q, t, b)>>
<1>1. IsSeq(n)
  BY OneSeq
<1> HIDE DEF n
<1>2. Announced(m \o n)
  BY <1>1, AnnouncedFirst
<1> QED BY <1>2 DEF n

LEMMA StateAnnounced ==
  ASSUME NEW s
  PROVE  Announced(MeantState(s))
<1> DEFINE counted == {i \in Cars : Counted(s, i)}
           nobody == counted = {}
           empty == \A i \in Cars : s.grid[i] = "empty"
           first == {i \in Cars : i < Cardinality(counted) /\ Recorded(s, i)}
           unplaced == first \cap s.placed = {}
           details == \E i \in s.snapshots : i < Cardinality(counted)
           focus == <<Meant(Inserts, "CarFocus", FALSE)>>
           lap == <<Meant(Replaces, "LapDetails", FALSE)>>
           mf == IF s.focus # Unset THEN focus ELSE <<>>
           md == IF details THEN lap ELSE <<>>
           m1 == Session(s) \o <<Meant(Replaces, "Participants", empty)>>
           m2 == m1 \o <<Meant({"UPDATE"}, "SessionList", FALSE)>>
           m3 == m2 \o <<Meant({"UPDATE", "NOW"}, "IpList", FALSE)>>
           m4 == m3 \o <<Meant(Inserts, "CarMotion", unplaced)>>
           m5 == m4 \o <<Meant(Inserts, "LapData", nobody)>>
           m6 == m5 \o <<Meant(Inserts, "CarTelemetry", nobody)>>
           m7 == m6 \o <<Meant(Inserts, "CarStatus", nobody)>>
           m8 == m7 \o <<Meant(Inserts, "CarDamage", nobody)>>
           m9 == m8 \o <<Meant(Inserts, "CarDiff", nobody)>>
<1>1. MeantState(s) = (m9 \o mf) \o md
  BY Zenon DEF MeantState, Session
<1>2. IsSeq(mf) /\ IsSeq(md)
  <2>1. IsSeq(focus) /\ IsSeq(lap)
    BY OneSeq
  <2> HIDE DEF focus, lap, details
  <2> QED BY <2>1, NoSeq
<1> HIDE DEF counted, nobody, empty, first, unplaced, details, focus, lap, mf, md
<1>3. Announced(m1)
  <2> DEFINE n == <<Meant(Replaces, "Participants", empty)>>
  <2>1. Plain(Session(s)) /\ Announced(n)
    BY SessionPlain, AnnouncedNow
  <2> HIDE DEF n
  <2>2. Announced(Session(s) \o n)
    BY <2>1, AnnouncedLater
  <2> QED BY <2>2 DEF n
<1> HIDE DEF m1
<1>4. Announced(m2)
  BY <1>3, AnnouncedAlso
<1> HIDE DEF m2
<1>5. Announced(m3)
  BY <1>4, AnnouncedAlso
<1> HIDE DEF m3
<1>6. Announced(m4)
  BY <1>5, AnnouncedAlso
<1> HIDE DEF m4
<1>7. Announced(m5)
  BY <1>6, AnnouncedAlso
<1> HIDE DEF m5
<1>8. Announced(m6)
  BY <1>7, AnnouncedAlso
<1> HIDE DEF m6
<1>9. Announced(m7)
  BY <1>8, AnnouncedAlso
<1> HIDE DEF m7
<1>10. Announced(m8)
  BY <1>9, AnnouncedAlso
<1> HIDE DEF m8
<1>11. Announced(m9)
  BY <1>10, AnnouncedAlso
<1> HIDE DEF m9
<1>12. Announced(m9 \o mf)
  BY <1>2, <1>11, AnnouncedFirst
<1> QED BY <1>1, <1>2, <1>12, AnnouncedFirst

LEMMA SecondAnnounced ==
  ASSUME NEW s, IsSecond(s)
  PROVE  Plain(MeantSecond(s)) \/ Announced(MeantSecond(s))
<1> DEFINE mh == [k \in DOMAIN s.histories |-> MeantHistory(s, s.histories[k])]
           me == [k \in DOMAIN s.events |-> MeantEvent(s.events[k])]
           ms == IF s.enough THEN MeantState(s) ELSE <<>>
<1>1. MeantSecond(s) = (FlattenSeq(mh) \o FlattenSeq(me)) \o ms
  BY Zenon DEF MeantSecond
<1>2. Plain(FlattenSeq(mh))
  <2>1. DOMAIN s.histories = 1..Len(s.histories) /\ Len(s.histories) \in Nat
    BY DEF IsSecond
  <2>2. IsSeq(mh) /\ Len(mh) = Len(s.histories)
    BY <2>1, FunSeq
  <2>3. \A k \in 1..Len(mh) : Plain(mh[k])
    <3> SUFFICES ASSUME NEW k \in 1..Len(s.histories) PROVE Plain(mh[k])
      BY <2>2
    <3> DEFINE h == s.histories[k]
               a == <<Meant(Replaces, "LapHistoryData", h.numLaps = 0)>>
               b == <<Meant(Inserts, "BestLap", FALSE)>>
    <3>1. mh[k] = MeantHistory(s, h)
      BY <2>1
    <3>2. MeantHistory(s, h) = a \o b \/ MeantHistory(s, h) = <<>>
      <4>1. a \o b = <<Meant(Replaces, "LapHistoryData", h.numLaps = 0),
                      Meant(Inserts, "BestLap", FALSE)>>
        BY CatPair, Zenon
      <4> QED BY <4>1, Zenon DEF MeantHistory
    <3>3. Plain(a) /\ Plain(b)
      BY PlainOne DEF PerCarTables
    <3> HIDE DEF a, b, h, mh
    <3> QED BY <3>1, <3>2, <3>3, PlainCat, PlainNone
  <2> HIDE DEF mh
  <2> QED BY <2>2, <2>3, PlainFlatten
<1>3. Plain(FlattenSeq(me))
  <2>1. DOMAIN s.events = 1..Len(s.events) /\ Len(s.events) \in Nat
    BY DEF IsSecond
  <2>2. IsSeq(me) /\ Len(me) = Len(s.events)
    BY <2>1, FunSeq
  <2>3. \A k \in 1..Len(me) : Plain(me[k])
    <3> SUFFICES ASSUME NEW k \in 1..Len(s.events) PROVE Plain(me[k])
      BY <2>2
    <3> DEFINE a == <<Meant(Inserts, "PenaltyUpdate", FALSE)>>
               b == <<Meant(Inserts, "EventUpdate", FALSE)>>
    <3>1. me[k] = MeantEvent(s.events[k])
      BY <2>1
    <3>2. MeantEvent(s.events[k]) \in {a, b, <<>>}
      BY DEF MeantEvent
    <3>3. Plain(a) /\ Plain(b)
      BY PlainOne DEF PerCarTables
    <3> HIDE DEF a, b, me
    <3> QED BY <3>1, <3>2, <3>3, PlainNone
  <2> HIDE DEF me
  <2> QED BY <2>2, <2>3, PlainFlatten
<1> HIDE DEF mh, me
<1>4. Plain(FlattenSeq(mh) \o FlattenSeq(me))
  BY <1>2, <1>3, PlainCat
<1> DEFINE early == FlattenSeq(mh) \o FlattenSeq(me)
<1>5. Plain(early) /\ MeantSecond(s) = early \o ms
  BY <1>1, <1>4
<1> HIDE DEF early
<1>6. CASE s.enough
  BY <1>5, <1>6, StateAnnounced, AnnouncedLater
<1>7. CASE ~ s.enough
  BY <1>5, <1>7, PlainNone, PlainCat
<1> QED BY <1>6, <1>7
----------------------------------------------------------------------------
(* While the counted drivers have the first places, they are the first
   DriverNum cars. *)
LEMMA NoGapIs ==
  ASSUME NEW s, NoGap(s)
  PROVE  \A i \in Cars : Counted(s, i) <=> i < DriverNum(s)
<1> DEFINE S == {i \in Cars : Counted(s, i)}
           O == Nat \ S
<1>1. NumCars \in Nat /\ Cars = 0..(NumCars - 1) /\ S \subseteq Cars
  BY RowWritersAssumption DEF Cars
<1>2. NumCars \in O
  BY <1>1
<1>3. \A i \in S : \A j \in 0..i : j \in S
  <2> SUFFICES ASSUME NEW i \in S, NEW j \in 0..i PROVE j \in S
    OBVIOUS
  <2>1. Counted(s, j) /\ j \in Cars
    BY <1>1 DEF NoGap
  <2> QED BY <2>1
<1>4. O \in SUBSET Nat
  OBVIOUS
<1> HIDE DEF S
<1>5. PICK m \in O : \A k \in O : m <= k
  <2> HIDE DEF O
  <2> QED BY <1>2, <1>4, LeastNat
<1>6. m \in Nat /\ m \notin S
  BY <1>5
<1>7. \A k \in 0..(m - 1) : k \in S
  <2> SUFFICES ASSUME NEW k \in 0..(m - 1), k \notin S PROVE FALSE
    OBVIOUS
  <2>1. k \in O /\ k < m
    BY <1>6
  <2> QED BY <1>5, <1>6, <2>1
<1>8. \A k \in S : k \in 0..(m - 1)
  <2> SUFFICES ASSUME NEW k \in S PROVE k < m /\ k \in Nat
    BY <1>6
  <2>1. k \in Nat
    BY <1>1
  <2>2. ~ (m \in 0..k)
    BY <1>3, <1>6
  <2> QED BY <1>6, <2>1, <2>2
<1>9. S = 0..(m - 1)
  BY <1>7, <1>8
<1>10. Cardinality(S) = m
  <2>1. Cardinality(0..(m - 1)) = IF 0 > m - 1 THEN 0 ELSE ((m - 1) - 0) + 1
    <3>1. m - 1 \in Int
      BY <1>6
    <3> QED BY <3>1, FS_Interval
  <2> QED BY <1>6, <1>9, <2>1
<1>11. DriverNum(s) = m
  BY <1>10, DriverNumIs DEF S
<1>12. \A i \in Cars : i \in S <=> i < m
  BY <1>1, <1>6, <1>9
<1> QED BY <1>11, <1>12 DEF S
(* What a second has stored of each table, if anything. *)
LEMMA StoredOfSecond ==
  ASSUME RInv, source.batch = "second"
  PROVE  LET s == source.of
         IN  /\ \A t \in PerCarTables \cap {StoredTables[k] : k \in DOMAIN stored} :
                   RowsOf(t) = WrittenCars(s)
             /\ RowsOf("CarMotion") \subseteq WrittenCars(s)
             /\ RowsOf("Participants") \subseteq Named(s)
             /\ (\E k \in DOMAIN stored : stored[k].table = "Participants") =>
                   RowsOf("Participants") = Named(s)
<1> DEFINE s == source.of
<1>1. SaidBy(source) = SaidBySecond(s)
  BY SecondKnown
<1>2. stored \in Seq(SaidBySecond(s))
  BY <1>1 DEF RInv, Told
<1>3. \A a \in SaidBySecond(s) :
        /\ a.table \in PerCarTables => a.rows = WrittenCars(s)
        /\ a.table = "CarMotion" => a.rows \subseteq WrittenCars(s)
        /\ a.table = "Participants" => a.rows = Named(s)
  BY DEF SaidBySecond, Says, PerCarTables
<1>4. \A k \in DOMAIN stored : stored[k] \in SaidBySecond(s)
  BY <1>2
<1>5. StoredTables = [k \in DOMAIN stored |-> stored[k].table]
  BY DEF StoredTables
<1> HIDE DEF s
<1>6. \A t \in PerCarTables \cap {StoredTables[k] : k \in DOMAIN stored} :
        RowsOf(t) = WrittenCars(s)
  <2> SUFFICES ASSUME NEW t \in PerCarTables,
                      NEW k \in DOMAIN stored, stored[k].table = t
               PROVE  RowsOf(t) = WrittenCars(s)
    BY <1>5
  <2>1. \A j \in DOMAIN stored : stored[j].table = t => stored[j].rows = WrittenCars(s)
    BY <1>3, <1>4
  <2> QED BY <2>1 DEF RowsOf
<1>7. RowsOf("CarMotion") \subseteq WrittenCars(s)
  BY <1>3, <1>4 DEF RowsOf
<1>8. RowsOf("Participants") \subseteq Named(s)
  BY <1>3, <1>4 DEF RowsOf
<1>9. ASSUME NEW k \in DOMAIN stored, stored[k].table = "Participants"
      PROVE  Named(s) \subseteq RowsOf("Participants")
  <2>1. stored[k].rows = Named(s)
    BY <1>3, <1>4, <1>9
  <2> QED BY <1>9, <2>1 DEF RowsOf
<1> QED BY <1>6, <1>7, <1>8, <1>9 DEF s

LEMMA RInvCars == RInv => CarsAgree
<1> SUFFICES ASSUME RInv, source.batch = "second" PROVE CarsAgree
  BY Zenon DEF CarsAgree
<1> DEFINE s == source.of
           m == MeantSecond(s)
           written == PerCarTables \cap {StoredTables[k] : k \in DOMAIN stored}
<1>1. /\ \A t \in written : RowsOf(t) = WrittenCars(s)
      /\ RowsOf("CarMotion") \subseteq WrittenCars(s)
      /\ (\E k \in DOMAIN stored : stored[k].table = "Participants") =>
            RowsOf("Participants") = Named(s)
  BY StoredOfSecond, Zenon
<1>2. IsSecond(s)
  BY SecondKnown
<1>3. \A k \in DOMAIN stored : stored[k].table = m[k].table
  <2>1. MeantBy(source) = m
    BY DEF MeantBy
  <2> QED BY <2>1 DEF RInv, Told
<1>4. StoredTables = [k \in DOMAIN stored |-> stored[k].table]
  BY DEF StoredTables
<1>5. DOMAIN stored = 1..Len(stored) /\ Len(stored) \in Nat /\ Len(stored) <= Len(m) /\ IsSeq(m)
  <2>1. MeantBy(source) = m
    BY DEF MeantBy
  <2>2. IsSeq(m) /\ Len(stored) <= ReachIn(Dialect[backend], m) /\ Len(stored) \in Nat
          /\ DOMAIN stored = 1..Len(stored)
    BY <2>1 DEF RInv, Told, Read, Reads
  <2> QED BY <2>2, ReachInIs, SeqLen
<1> HIDE DEF s, m
<1>6. ASSUME NEW t \in written
      PROVE  \E k \in DOMAIN stored : stored[k].table = "Participants"
  <2>1. PICK k \in 1..Len(stored) : m[k].table \in PerCarTables
    BY <1>3, <1>4, <1>5
  <2>2. k \in 1..Len(m)
    BY <1>5, SeqLen
  <2>3. ~ Plain(m)
    BY <2>1, <2>2 DEF Plain
  <2>4. PICK j \in 1..Len(m) : /\ m[j].table = "Participants"
                               /\ \A i \in 1..j : m[i].table \notin PerCarTables
    BY <1>2, <2>3, SecondAnnounced DEF Announced, m
  <2>5. j < k
    <3>1. Len(m) \in Nat
      BY <1>5, SeqLen
    <3> QED BY <2>1, <2>2, <2>4, <3>1
  <2>6. j \in 1..Len(stored)
    BY <1>5, <2>1, <2>2, <2>4, <2>5
  <2> QED BY <1>3, <1>5, <2>4, <2>6
<1>7. ASSUME NoGap(s)
      PROVE  WrittenCars(s) = {i \in Named(s) : Counted(s, i) /\ Recorded(s, i)}
  <2>1. WrittenCars(s) = {i \in Cars : i < DriverNum(s) /\ Recorded(s, i)}
    BY WrittenCarsIs
  <2>2. \A i \in Cars : Counted(s, i) <=> i < DriverNum(s)
    BY <1>7, NoGapIs
  <2>3. Named(s) \subseteq Cars /\ \A i \in Cars : Counted(s, i) => i \in Named(s)
    BY DEF Named, Counted
  <2> QED BY <2>1, <2>2, <2>3
<1>8. ASSUME NEW t \in written
      PROVE  /\ RowsOf("CarMotion") \subseteq RowsOf(t)
             /\ \A u \in written : RowsOf(t) = RowsOf(u)
             /\ NoGap(s) => RowsOf(t) = {i \in RowsOf("Participants") :
                                           Counted(s, i) /\ Recorded(s, i)}
  <2>1. RowsOf(t) = WrittenCars(s) /\ RowsOf("Participants") = Named(s)
    BY <1>1, <1>6
  <2> QED BY <1>1, <1>7, <2>1
<1> QED BY <1>8, Zenon DEF CarsAgree, s

LEMMA RInvAgrees == RInv => RowsAgree
BY RInvCars, RInvLaps, RInvTheory, RInvResults DEF RowsAgree

(* Whatever a database stored of a text, what its rows say is what the
   packets said: the per-car writers agree on the cars, the history's laps
   are on the tyres they were driven on, the theoretical best lap is no
   slower than the best, and the results read as the classification. *)
THEOREM RowsSayWhatPacketsSaid == Spec => []RowsAgree
BY RInvAlways, RInvAgrees, PTL
=============================================================================
