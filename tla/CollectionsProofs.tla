------------------------- MODULE CollectionsProofs --------------------------
(***************************************************************************)
(* What Only selects, for every sequence and every set, what Total sums,   *)
(* for every function and every finite set, and what FoldLeft computes,    *)
(* for every operator.  Induction is over sets of naturals: the smallest   *)
(* counterexample is taken from the fact that < is well founded on Nat.    *)
(*                                                                         *)
(* No prover instantiates an operator that a fact quantifies over, but     *)
(* INSTANCE does: Step is what a fold does at each element, in a context,  *)
(* and a module with folds instantiates this one once, WITH a Step whose   *)
(* context says which of its folds is meant.                               *)
(* Modules that need the other lemmas only leave Step open.                *)
(***************************************************************************)
EXTENDS Subsequences, Sums, Integers, WellFoundedInduction, SequenceTheorems,
        FiniteSetTheorems, TLAPS

CONSTANT Step(_, _, _)

\* Every nonempty set of naturals has a smallest element.
LEMMA Smallest ==
    ASSUME NEW T \in SUBSET Nat, T # {}
    PROVE  \E x \in T : \A y \in T : ~(y < x)
  <1>1. PICK x \in T : \A y \in T : <<y, x>> \notin OpToRel(<, Nat)
    BY WFMin, NatLessThanWellFounded, Zenon
  <1>2. QED
    BY <1>1, Zenon DEF OpToRel

\* Induction: a set of naturals with 0 and every successor is Nat.
LEMMA AllNaturals ==
    ASSUME NEW T \in SUBSET Nat, 0 \in T, \A n \in T : n + 1 \in T
    PROVE  T = Nat
  <1>1. SUFFICES ASSUME Nat \ T # {} PROVE FALSE
    OBVIOUS
  <1>2. PICK x \in Nat \ T : \A y \in Nat \ T : ~(y < x)
    BY <1>1, Smallest
  <1>3. x # 0 /\ x - 1 \in Nat /\ x - 1 + 1 = x
    OBVIOUS
  <1>4. x - 1 \notin T
    BY <1>3
  <1>5. QED
    BY <1>2, <1>3, <1>4

-----------------------------------------------------------------------------
(* The recursion defines a function.                                       *)

\* One step of the recursion of OnlyOfFirst.
Kept(s, S, kept, n) ==
    IF n = 0 THEN <<>>
    ELSE IF s[n] \in S THEN Append(kept[n - 1], s[n])
    ELSE kept[n - 1]

LEMMA KeptExists ==
    ASSUME NEW s, NEW S
    PROVE  \A m \in Nat : \E f : f = [n \in 0..m |-> Kept(s, S, f, n)]
  <1> DEFINE T == {m \in Nat : \E f : f = [n \in 0..m |-> Kept(s, S, f, n)]}
  <1>1. 0 \in T
    <2> DEFINE f == [n \in 0..0 |-> <<>>]
    <2>1. f = [n \in 0..0 |-> Kept(s, S, f, n)]
      BY DEF Kept
    <2>2. QED
      BY <2>1
  <1>2. ASSUME NEW m \in T PROVE m + 1 \in T
    <2>1. PICK f : f = [n \in 0..m |-> Kept(s, S, f, n)]
      OBVIOUS
    <2> DEFINE g == [n \in 0..(m + 1) |-> IF n = m + 1 THEN Kept(s, S, f, n) ELSE f[n]]
    <2>2. ASSUME NEW n \in 0..(m + 1) PROVE g[n] = Kept(s, S, g, n)
      <3>1. CASE n = m + 1
        BY <3>1 DEF Kept
      <3>2. CASE n # m + 1
        <4>1. n \in 0..m
          BY <3>2
        <4>2. g[n] = f[n] /\ f[n] = Kept(s, S, f, n)
          BY <3>2, <4>1, <2>1
        <4>3. n # 0 => n - 1 \in 0..m /\ n - 1 # m + 1 /\ g[n - 1] = f[n - 1]
          BY <4>1
        <4>4. QED
          BY <4>2, <4>3 DEF Kept
      <3>3. QED
        BY <3>1, <3>2
    <2>3. g = [n \in 0..(m + 1) |-> Kept(s, S, g, n)]
      BY <2>2
    <2> HIDE DEF g
    <2>4. \E h : h = [n \in 0..(m + 1) |-> Kept(s, S, h, n)]
      BY <2>3
    <2>5. QED
      BY <2>4
  <1>3. T = Nat
    <2>1. T \in SUBSET Nat
      OBVIOUS
    <2> HIDE DEF T
    <2>2. QED
      BY <2>1, <1>1, <1>2, AllNaturals
  <1>4. QED
    BY <1>3

\* The equations by which OnlyOfFirst is defined.
LEMMA OnlyUnfolds ==
    ASSUME NEW M, NEW s \in Seq(M), NEW S
    PROVE  /\ OnlyOfFirst(s, S)[0] = <<>>
           /\ \A n \in 0..(Len(s) - 1) :
                OnlyOfFirst(s, S)[n + 1] =
                  IF s[n + 1] \in S THEN Append(OnlyOfFirst(s, S)[n], s[n + 1])
                  ELSE OnlyOfFirst(s, S)[n]
  <1> DEFINE F == CHOOSE f : f = [n \in 0..Len(s) |-> Kept(s, S, f, n)]
  <1>1. OnlyOfFirst(s, S) = F
    BY DEF OnlyOfFirst, Kept
  <1>2. Len(s) \in Nat
    OBVIOUS
  <1>3. F = [n \in 0..Len(s) |-> Kept(s, S, F, n)]
    BY <1>2, KeptExists
  <1> HIDE DEF F
  <1>4. F[0] = <<>>
    BY <1>2, <1>3 DEF Kept
  <1>5. ASSUME NEW n \in 0..(Len(s) - 1)
        PROVE  F[n + 1] = IF s[n + 1] \in S THEN Append(F[n], s[n + 1]) ELSE F[n]
    <2>1. n + 1 \in 0..Len(s) /\ n + 1 # 0 /\ n + 1 - 1 = n
      BY <1>2
    <2>2. F[n + 1] = Kept(s, S, F, n + 1)
      BY <2>1, <1>3
    <2>3. QED
      BY <2>1, <2>2 DEF Kept
  <1>6. QED
    BY <1>1, <1>4, <1>5

-----------------------------------------------------------------------------
(* Selecting from longer and shorter sequences.                            *)

LEMMA OnlyEmpty == ASSUME NEW S PROVE Only(<<>>, S) = <<>>
  <1>1. <<>> \in Seq({}) /\ Len(<<>>) = 0
    OBVIOUS
  <1>2. QED
    BY <1>1, OnlyUnfolds DEF Only

\* What is kept of the first elements depends on those only.
LEMMA OnlyOfPrefix ==
    ASSUME NEW M, NEW s \in Seq(M), NEW e \in M, NEW S
    PROVE  \A n \in 0..Len(s) : OnlyOfFirst(Append(s, e), S)[n] = OnlyOfFirst(s, S)[n]
  <1> DEFINE t == Append(s, e)
             T == {n \in Nat : n \in 0..Len(s) => OnlyOfFirst(t, S)[n] = OnlyOfFirst(s, S)[n]}
  <1>1. t \in Seq(M) /\ Len(t) = Len(s) + 1 /\ \A n \in 1..Len(s) : t[n] = s[n]
    OBVIOUS
  <1> HIDE DEF t
  <1>2. Len(s) \in Nat
    OBVIOUS
  <1>3. 0 \in T
    BY <1>1, OnlyUnfolds
  <1>4. ASSUME NEW n \in T PROVE n + 1 \in T
    <2> SUFFICES ASSUME n + 1 \in 0..Len(s)
                 PROVE  OnlyOfFirst(t, S)[n + 1] = OnlyOfFirst(s, S)[n + 1]
      OBVIOUS
    <2>1. n \in 0..(Len(s) - 1) /\ n \in 0..(Len(t) - 1) /\ n \in 0..Len(s)
      BY <1>1, <1>2
    <2>2. t[n + 1] = s[n + 1] /\ OnlyOfFirst(t, S)[n] = OnlyOfFirst(s, S)[n]
      BY <1>1, <1>2, <2>1
    <2>3. QED
      BY <1>1, <2>1, <2>2, OnlyUnfolds
  <1>5. T = Nat
    <2>1. T \in SUBSET Nat
      OBVIOUS
    <2> HIDE DEF T
    <2>2. QED
      BY <2>1, <1>3, <1>4, AllNaturals
  <1>6. QED
    BY <1>2, <1>5 DEF t

\* Selecting from a sequence with one more element.
LEMMA OnlyAppend ==
    ASSUME NEW M, NEW s \in Seq(M), NEW e \in M, NEW S
    PROVE  Only(Append(s, e), S) = IF e \in S THEN Append(Only(s, S), e) ELSE Only(s, S)
  <1> DEFINE t == Append(s, e)
             l == Len(s)
  <1>1. t \in Seq(M) /\ Len(t) = l + 1 /\ t[l + 1] = e /\ l \in Nat
    OBVIOUS
  <1>2. l \in 0..(Len(t) - 1) /\ l \in 0..Len(s)
    BY <1>1
  <1>3. OnlyOfFirst(t, S)[l] = OnlyOfFirst(s, S)[l]
    BY <1>2, OnlyOfPrefix
  <1>4. Only(s, S) = OnlyOfFirst(s, S)[l]
    BY DEF Only
  <1> HIDE DEF t, l
  <1>5. OnlyOfFirst(t, S)[l + 1]
          = IF t[l + 1] \in S THEN Append(OnlyOfFirst(t, S)[l], t[l + 1])
            ELSE OnlyOfFirst(t, S)[l]
    BY <1>1, <1>2, OnlyUnfolds
  <1>6. Only(t, S) = OnlyOfFirst(t, S)[l + 1]
    BY <1>1 DEF Only
  <1>7. Only(t, S) = IF e \in S THEN Append(Only(s, S), e) ELSE Only(s, S)
    BY <1>1, <1>3, <1>4, <1>5, <1>6
  <1>8. QED
    BY <1>7 DEF t

\* What holds of the empty sequence and is kept by Append holds of every sequence:
\* T is the set of the sequences of which it holds.
LEMMA AllSequences ==
    ASSUME NEW M, NEW T, <<>> \in T,
           \A s \in Seq(M), e \in M : s \in T => Append(s, e) \in T
    PROVE  Seq(M) \subseteq T
  <1> DEFINE N == {n \in Nat : \A s \in Seq(M) : Len(s) = n => s \in T}
  <1>1. 0 \in N
    OBVIOUS
  <1>2. ASSUME NEW n \in N PROVE n + 1 \in N
    <2> SUFFICES ASSUME NEW s \in Seq(M), Len(s) = n + 1 PROVE s \in T
      OBVIOUS
    <2>1. s # <<>>
      OBVIOUS
    <2>2. PICK r \in Seq(M), e \in M : s = Append(r, e)
      BY <2>1, SequenceEmptyOrAppend
    <2>3. Len(r) = n
      BY <2>2
    <2>4. QED
      BY <2>2, <2>3
  <1>3. N = Nat
    <2>1. N \in SUBSET Nat
      OBVIOUS
    <2> HIDE DEF N
    <2>2. QED
      BY <2>1, <1>1, <1>2, AllNaturals
  <1>4. QED
    BY <1>3

LEMMA OnlyType ==
    ASSUME NEW M, NEW S
    PROVE  \A s \in Seq(M) : Only(s, S) \in Seq(M)
  <1> DEFINE T == {s \in Seq(M) : Only(s, S) \in Seq(M)}
  <1>1. <<>> \in T
    <2>1. <<>> \in Seq(M)
      OBVIOUS
    <2>2. QED
      BY <2>1, OnlyEmpty
  <1>2. ASSUME NEW s \in Seq(M), NEW e \in M, s \in T PROVE Append(s, e) \in T
    <2>1. Append(s, e) \in Seq(M) /\ Append(Only(s, S), e) \in Seq(M)
      BY <1>2
    <2>2. Only(Append(s, e), S) = IF e \in S THEN Append(Only(s, S), e) ELSE Only(s, S)
      BY OnlyAppend
    <2>3. QED
      BY <1>2, <2>1, <2>2
  <1> HIDE DEF T
  <1>3. Seq(M) \subseteq T
    BY <1>1, <1>2, AllSequences
  <1>4. QED
    BY <1>3 DEF T

\* Selecting from two sequences one after the other.
LEMMA OnlyConcat ==
    ASSUME NEW M, NEW s \in Seq(M), NEW S
    PROVE  \A t \in Seq(M) : Only(s \o t, S) = Only(s, S) \o Only(t, S)
  <1> DEFINE T == {t \in Seq(M) : Only(s \o t, S) = Only(s, S) \o Only(t, S)}
  <1>1. <<>> \in T
    <2>1. s \o <<>> = s /\ Only(s, S) \in Seq(M)
      BY OnlyType
    <2>2. Only(s, S) \o <<>> = Only(s, S)
      BY <2>1
    <2>3. QED
      BY <2>1, <2>2, OnlyEmpty
  <1>2. ASSUME NEW t \in Seq(M), NEW e \in M, t \in T PROVE Append(t, e) \in T
    <2>1. s \o Append(t, e) = Append(s \o t, e) /\ s \o t \in Seq(M)
      OBVIOUS
    <2>2. Only(s, S) \in Seq(M) /\ Only(t, S) \in Seq(M)
      BY OnlyType
    <2>3. Only(s, S) \o Append(Only(t, S), e) = Append(Only(s, S) \o Only(t, S), e)
      BY <2>2
    <2>4. Only(Append(s \o t, e), S)
            = IF e \in S THEN Append(Only(s \o t, S), e) ELSE Only(s \o t, S)
      BY <2>1, OnlyAppend
    <2>5. Only(Append(t, e), S) = IF e \in S THEN Append(Only(t, S), e) ELSE Only(t, S)
      BY OnlyAppend
    <2>6. Only(s \o Append(t, e), S) = Only(s, S) \o Only(Append(t, e), S)
      <3>1. Only(s \o t, S) = Only(s, S) \o Only(t, S)
        BY <1>2
      <3>2. CASE e \in S
        BY <3>1, <3>2, <2>1, <2>3, <2>4, <2>5
      <3>3. CASE e \notin S
        BY <3>1, <3>3, <2>1, <2>4, <2>5
      <3>4. QED
        BY <3>2, <3>3
    <2>7. Append(t, e) \in Seq(M)
      OBVIOUS
    <2>8. QED
      BY <2>6, <2>7
  <1> HIDE DEF T
  <1>3. Seq(M) \subseteq T
    BY <1>1, <1>2, AllSequences
  <1>4. QED
    BY <1>3 DEF T

LEMMA OnlySingle ==
    ASSUME NEW M, NEW e \in M, NEW S
    PROVE  Only(<<e>>, S) = IF e \in S THEN <<e>> ELSE <<>>
  <1>1. <<>> \in Seq(M) /\ <<e>> = Append(<<>>, e)
    OBVIOUS
  <1>2. Only(Append(<<>>, e), S)
          = IF e \in S THEN Append(Only(<<>>, S), e) ELSE Only(<<>>, S)
    BY <1>1, OnlyAppend
  <1>3. Only(<<>>, S) = <<>>
    BY OnlyEmpty
  <1>4. QED
    BY <1>1, <1>2, <1>3

\* Selecting from a sequence that loses its head.
LEMMA OnlyTail ==
    ASSUME NEW M, NEW s \in Seq(M), s # <<>>, NEW S
    PROVE  /\ Head(s) \in S => /\ Only(s, S) # <<>>
                               /\ Head(Only(s, S)) = Head(s)
                               /\ Only(Tail(s), S) = Tail(Only(s, S))
           /\ Head(s) \notin S => Only(Tail(s), S) = Only(s, S)
  <1>1. /\ Head(s) \in M /\ Tail(s) \in Seq(M) /\ <<Head(s)>> \in Seq(M)
        /\ s = <<Head(s)>> \o Tail(s)
    OBVIOUS
  <1>2. Only(s, S) = Only(<<Head(s)>>, S) \o Only(Tail(s), S)
    <2> DEFINE h == <<Head(s)>>
               r == Tail(s)
    <2>1. h \in Seq(M) /\ r \in Seq(M) /\ s = h \o r
      BY <1>1
    <2> HIDE DEF h, r
    <2>2. Only(h \o r, S) = Only(h, S) \o Only(r, S)
      BY <2>1, OnlyConcat
    <2>3. QED
      BY <2>1, <2>2 DEF h, r
  <1>3. Only(Tail(s), S) \in Seq(M)
    BY <1>1, OnlyType
  <1>4. CASE Head(s) \in S
    <2>1. Only(s, S) = <<Head(s)>> \o Only(Tail(s), S)
      BY <1>1, <1>2, <1>4, OnlySingle
    <2>2. QED
      BY <2>1, <1>1, <1>3, <1>4
  <1>5. CASE Head(s) \notin S
    <2>1. Only(s, S) = <<>> \o Only(Tail(s), S)
      BY <1>1, <1>2, <1>5, OnlySingle
    <2>2. QED
      BY <2>1, <1>3, <1>5
  <1>6. QED
    BY <1>4, <1>5

\* Selecting everything, and selecting nothing.
LEMMA OnlyAll ==
    ASSUME NEW M, NEW S, M \subseteq S
    PROVE  \A s \in Seq(M) : Only(s, S) = s
  <1> DEFINE T == {s \in Seq(M) : Only(s, S) = s}
  <1>1. <<>> \in T
    BY OnlyEmpty
  <1>2. ASSUME NEW s \in Seq(M), NEW e \in M, s \in T PROVE Append(s, e) \in T
    BY <1>2, OnlyAppend
  <1> HIDE DEF T
  <1>3. Seq(M) \subseteq T
    BY <1>1, <1>2, AllSequences
  <1>4. QED
    BY <1>3 DEF T

LEMMA OnlyNone ==
    ASSUME NEW M, NEW S, M \cap S = {}
    PROVE  \A s \in Seq(M) : Only(s, S) = <<>>
  <1> DEFINE T == {s \in Seq(M) : Only(s, S) = <<>>}
  <1>1. <<>> \in T
    BY OnlyEmpty
  <1>2. ASSUME NEW s \in Seq(M), NEW e \in M, s \in T PROVE Append(s, e) \in T
    BY <1>2, OnlyAppend
  <1> HIDE DEF T
  <1>3. Seq(M) \subseteq T
    BY <1>1, <1>2, AllSequences
  <1>4. QED
    BY <1>3 DEF T

\* The elements of a sequence, and that none of them is there twice.
Entries(s) == {s[i] : i \in 1..Len(s)}
Distinct(s) == \A i, j \in 1..Len(s) : s[i] = s[j] => i = j

LEMMA AppendEntries ==
    ASSUME NEW M, NEW s \in Seq(M), NEW e \in M
    PROVE  /\ Entries(Append(s, e)) = Entries(s) \cup {e}
           /\ Distinct(Append(s, e)) <=> Distinct(s) /\ e \notin Entries(s)
  <1> DEFINE t == Append(s, e)
             l == Len(s)
  <1>1. /\ l \in Nat /\ Len(t) = l + 1 /\ t[l + 1] = e
        /\ \A i \in 1..l : t[i] = s[i]
    OBVIOUS
  <1> HIDE DEF t
  <1>2. \A i \in 1..(l + 1) : i \in 1..l \/ i = l + 1
    BY <1>1
  <1>3. 1..l \subseteq 1..(l + 1) /\ l + 1 \in 1..(l + 1) /\ l + 1 \notin 1..l
    BY <1>1
  <1> HIDE DEF l
  <1>4. Entries(t) = {t[i] : i \in 1..(l + 1)} /\ Entries(s) = {s[i] : i \in 1..l}
    BY <1>1 DEF Entries, l
  <1>5. Entries(t) = Entries(s) \cup {e}
    BY <1>1, <1>2, <1>3, <1>4
  <1>6. ASSUME Distinct(t) PROVE Distinct(s) /\ e \notin Entries(s)
    <2>1. \A i, j \in 1..(l + 1) : t[i] = t[j] => i = j
      BY <1>1, <1>6 DEF Distinct
    <2>2. \A i, j \in 1..l : s[i] = s[j] => i = j
      BY <1>1, <1>3, <2>1
    <2>3. \A i \in 1..l : s[i] # e
      BY <1>1, <1>3, <2>1
    <2>4. QED
      BY <1>4, <2>2, <2>3 DEF Distinct, l
  <1>7. ASSUME Distinct(s), e \notin Entries(s) PROVE Distinct(t)
    <2>1. \A i, j \in 1..l : s[i] = s[j] => i = j
      BY <1>7 DEF Distinct, l
    <2>2. \A i, j \in 1..(l + 1) : t[i] = t[j] => i = j
      BY <1>1, <1>2, <1>4, <1>7, <2>1
    <2>3. QED
      BY <1>1, <2>2 DEF Distinct
  <1>8. QED
    BY <1>5, <1>6, <1>7 DEF t

LEMMA OnlyEntries ==
    ASSUME NEW M, NEW S
    PROVE  \A s \in Seq(M) : /\ Entries(Only(s, S)) = Entries(s) \cap S
                             /\ Distinct(s) => Distinct(Only(s, S))
  <1> DEFINE T == {s \in Seq(M) : /\ Entries(Only(s, S)) = Entries(s) \cap S
                                  /\ Distinct(s) => Distinct(Only(s, S))}
  <1>1. <<>> \in T
    <2>1. <<>> \in Seq(M) /\ Entries(<<>>) = {} /\ Distinct(<<>>)
      BY DEF Entries, Distinct
    <2>2. QED
      BY <2>1, OnlyEmpty
  <1>2. ASSUME NEW s \in Seq(M), NEW e \in M, s \in T PROVE Append(s, e) \in T
    <2> DEFINE t == Append(s, e)
               o == Only(s, S)
               u == Append(o, e)
    <2>1. t \in Seq(M) /\ o \in Seq(M)
      BY OnlyType
    <2>2. /\ Entries(t) = Entries(s) \cup {e}
          /\ Distinct(t) <=> Distinct(s) /\ e \notin Entries(s)
      BY AppendEntries
    <2>3. Only(t, S) = IF e \in S THEN u ELSE o
      BY OnlyAppend
    <2>4. Entries(o) = Entries(s) \cap S /\ (Distinct(s) => Distinct(o))
      BY <1>2
    <2> HIDE DEF t, o
    <2>5. /\ Entries(u) = Entries(o) \cup {e}
          /\ Distinct(u) <=> Distinct(o) /\ e \notin Entries(o)
      BY <2>1, AppendEntries
    <2> HIDE DEF u
    <2>6. Entries(Only(t, S)) = Entries(t) \cap S
      BY <2>2, <2>3, <2>4, <2>5
    <2>7. Distinct(t) => Distinct(Only(t, S))
      BY <2>2, <2>3, <2>4, <2>5
    <2>8. QED
      BY <2>1, <2>6, <2>7 DEF t
  <1> HIDE DEF T
  <1>3. Seq(M) \subseteq T
    BY <1>1, <1>2, AllSequences
  <1>4. QED
    BY <1>3 DEF T

-----------------------------------------------------------------------------
(* Sums.  MapThenSumSet removes one chosen element after the other; what   *)
(* it returns does not depend on the order.                                *)

Chosen(s) == CHOOSE x \in s : TRUE

\* What the sum over s is when g has the sums over smaller sets.
SumOf(f, g, s) == IF s = {} THEN 0 ELSE f[Chosen(s)] + g[s \ {Chosen(s)}]

\* g has the sums of f over the subsets of S.
IsSums(g, f, S) == g = [s \in SUBSET S |-> SumOf(f, g, s)]

LEMMA ChosenFacts ==
    ASSUME NEW s, IsFiniteSet(s), s # {}
    PROVE  /\ Chosen(s) \in s /\ IsFiniteSet(s \ {Chosen(s)})
           /\ Cardinality(s) \in Nat /\ Cardinality(s) # 0
           /\ Cardinality(s \ {Chosen(s)}) = Cardinality(s) - 1
  <1>1. Chosen(s) \in s
    BY DEF Chosen
  <1>2. QED
    BY <1>1, FS_RemoveElement, FS_CardinalityType, FS_EmptySet

\* The recursive function of the sums over the subsets of a finite set exists: it is
\* built for the subsets of at most m elements first.
LEMMA SumsExist ==
    ASSUME NEW S, IsFiniteSet(S), NEW f
    PROVE  \E g : g = [s \in SUBSET S |-> SumOf(f, g, s)]
  <1> DEFINE Small(m) == {s \in SUBSET S : Cardinality(s) <= m}
             T == {m \in Nat : \E g : g = [s \in Small(m) |-> SumOf(f, g, s)]}
  <1>1. \A s \in SUBSET S : IsFiniteSet(s) /\ Cardinality(s) \in Nat
    BY FS_Subset, FS_CardinalityType
  <1>2. 0 \in T
    <2> DEFINE g == [s \in Small(0) |-> 0]
    <2>1. \A s \in Small(0) : s = {}
      BY <1>1, FS_EmptySet
    <2>2. \A s \in Small(0) : SumOf(f, g, s) = 0
      BY <2>1 DEF SumOf
    <2>3. g = [s \in Small(0) |-> SumOf(f, g, s)]
      BY <2>2
    <2>4. QED
      BY <2>3
  <1>3. ASSUME NEW m \in T PROVE m + 1 \in T
    <2>1. PICK g : g = [s \in Small(m) |-> SumOf(f, g, s)]
      OBVIOUS
    <2> DEFINE h == [s \in Small(m + 1) |-> SumOf(f, g, s)]
    <2>2. ASSUME NEW s \in Small(m + 1) PROVE SumOf(f, h, s) = SumOf(f, g, s)
      <3>1. CASE s = {}
        BY <3>1 DEF SumOf
      <3>2. CASE s # {}
        <4> DEFINE r == s \ {Chosen(s)}
        <4>1. r \in SUBSET S /\ Cardinality(r) = Cardinality(s) - 1 /\ Cardinality(s) \in Nat
          BY <1>1, <3>2, ChosenFacts
        <4>2. r \in Small(m) /\ r \in Small(m + 1)
          BY <4>1
        <4> HIDE DEF r
        <4>3. h[r] = SumOf(f, g, r) /\ g[r] = SumOf(f, g, r)
          BY <2>1, <4>2
        <4>4. QED
          BY <3>2, <4>3 DEF SumOf, r
      <3>3. QED
        BY <3>1, <3>2
    <2>3. h = [s \in Small(m + 1) |-> SumOf(f, h, s)]
      BY <2>2
    <2> HIDE DEF h
    <2>4. \E q : q = [s \in Small(m + 1) |-> SumOf(f, q, s)]
      BY <2>3
    <2>5. m + 1 \in Nat
      BY <1>3
    <2>6. QED
      BY <2>4, <2>5
  <1>4. T = Nat
    <2>1. T \in SUBSET Nat
      OBVIOUS
    <2> HIDE DEF T
    <2>2. QED
      BY <2>1, <1>2, <1>3, AllNaturals
  <1>5. Cardinality(S) \in T
    BY <1>1, <1>4
  <1>6. Small(Cardinality(S)) = SUBSET S
    BY <1>1, FS_Subset
  <1>7. QED
    BY <1>5, <1>6

\* The sums over the subsets of T do not depend on the set they are computed in, and
\* only on the values in T.
LEMMA SumsAgree ==
    ASSUME NEW S, IsFiniteSet(S), NEW T \in SUBSET S, NEW e, NEW f,
           \A x \in T : e[x] = f[x],
           NEW g, IsSums(g, e, S), NEW h, IsSums(h, f, T)
    PROVE  \A s \in SUBSET T : g[s] = h[s]
  <1> DEFINE N == {n \in Nat : \A s \in SUBSET T : Cardinality(s) = n => g[s] = h[s]}
  <1>1. \A s \in SUBSET T : IsFiniteSet(s) /\ Cardinality(s) \in Nat /\ s \in SUBSET S
    BY FS_Subset, FS_CardinalityType
  <1>2. 0 \in N
    <2> SUFFICES ASSUME NEW s \in SUBSET T, Cardinality(s) = 0 PROVE g[s] = h[s]
      OBVIOUS
    <2>1. s = {}
      BY <1>1, FS_EmptySet
    <2>2. QED
      BY <1>1, <2>1 DEF SumOf, IsSums
  <1>3. ASSUME NEW n \in N PROVE n + 1 \in N
    <2>0. n \in Nat /\ n + 1 \in Nat /\ n + 1 # 0
      BY <1>3
    <2> SUFFICES ASSUME NEW s \in SUBSET T, Cardinality(s) = n + 1 PROVE g[s] = h[s]
      BY <2>0
    <2> DEFINE r == s \ {Chosen(s)}
    <2>1. s # {}
      BY <2>0, FS_EmptySet
    <2>2. /\ Chosen(s) \in T /\ r \in SUBSET T /\ Cardinality(r) = n
      BY <1>1, <2>0, <2>1, ChosenFacts
    <2> HIDE DEF r
    <2>3. g[r] = h[r]
      BY <1>3, <2>2
    <2>4. g[s] = e[Chosen(s)] + g[r] /\ h[s] = f[Chosen(s)] + h[r]
      BY <1>1, <2>1 DEF SumOf, IsSums, r
    <2>5. QED
      BY <2>2, <2>3, <2>4
  <1>4. N = Nat
    <2>1. N \in SUBSET Nat
      OBVIOUS
    <2> HIDE DEF N
    <2>2. QED
      BY <2>1, <1>2, <1>3, AllNaturals
  <1>5. QED
    BY <1>1, <1>4

\* The recursive function behind Total.
Sums(f, S) == CHOOSE g : g = [s \in SUBSET S |-> SumOf(f, g, s)]

LEMMA TotalIsSum ==
    ASSUME NEW S, IsFiniteSet(S), NEW f
    PROVE  /\ Total(f, S) = Sums(f, S)[S]
           /\ IsSums(Sums(f, S), f, S)
  <1>1. Total(f, S) = Sums(f, S)[S]
    BY DEF Total, Sums, SumOf, Chosen, MapThenSumSet, MapThenFoldSet
  <1>2. \E g : g = [s \in SUBSET S |-> SumOf(f, g, s)]
    BY SumsExist
  <1>3. QED
    BY <1>1, <1>2 DEF Sums, IsSums

LEMMA TotalUnfolds ==
    ASSUME NEW S, IsFiniteSet(S), NEW f
    PROVE  Total(f, S) = IF S = {} THEN 0
                         ELSE f[Chosen(S)] + Total(f, S \ {Chosen(S)})
  <1> DEFINE g == Sums(f, S)
             R == S \ {Chosen(S)}
             h == Sums(f, R)
  <1>1. Total(f, S) = g[S] /\ IsSums(g, f, S)
    BY TotalIsSum
  <1>2. IsFiniteSet(R) /\ R \in SUBSET S
    BY FS_Subset
  <1> HIDE DEF R
  <1>3. Total(f, R) = h[R] /\ IsSums(h, f, R)
    BY <1>2, TotalIsSum
  <1> HIDE DEF g, h
  <1>4. \A s \in SUBSET R : g[s] = h[s]
    BY <1>1, <1>2, <1>3, SumsAgree
  <1>5. g[S] = SumOf(f, g, S)
    BY <1>1 DEF IsSums
  <1>6. g[R] = h[R]
    BY <1>4
  <1>7. QED
    BY <1>1, <1>3, <1>5, <1>6 DEF SumOf, R

\* The sum depends on the values that are summed only.
LEMMA TotalSame ==
    ASSUME NEW S, IsFiniteSet(S), NEW e, NEW f, \A x \in S : e[x] = f[x]
    PROVE  Total(e, S) = Total(f, S)
  <1> DEFINE g == Sums(e, S)
             h == Sums(f, S)
  <1>1. Total(e, S) = g[S] /\ IsSums(g, e, S)
    BY TotalIsSum
  <1>2. Total(f, S) = h[S] /\ IsSums(h, f, S)
    BY TotalIsSum
  <1> HIDE DEF g, h
  <1>3. \A s \in SUBSET S : g[s] = h[s]
    BY <1>1, <1>2, SumsAgree
  <1>4. QED
    BY <1>1, <1>2, <1>3

\* A sum of integers is an integer, and of naturals a natural; of zeros it is zero.
LEMMA TotalType ==
    ASSUME NEW S, IsFiniteSet(S), NEW f, NEW V \in {Int, Nat, {0}}, \A x \in S : f[x] \in V
    PROVE  \A s \in SUBSET S : Total(f, s) \in V
  <1> DEFINE N == {n \in Nat : \A s \in SUBSET S : Cardinality(s) = n => Total(f, s) \in V}
  <1>1. \A s \in SUBSET S : IsFiniteSet(s) /\ Cardinality(s) \in Nat
    BY FS_Subset, FS_CardinalityType
  <1>2. 0 \in V /\ \A i, j \in V : i + j \in V
    OBVIOUS
  <1>3. 0 \in N
    <2> SUFFICES ASSUME NEW s \in SUBSET S, Cardinality(s) = 0 PROVE Total(f, s) \in V
      OBVIOUS
    <2>1. s = {}
      BY <1>1, FS_EmptySet
    <2>2. QED
      BY <1>1, <1>2, <2>1, TotalUnfolds
  <1>4. ASSUME NEW n \in N PROVE n + 1 \in N
    <2>0. n \in Nat /\ n + 1 \in Nat /\ n + 1 # 0
      BY <1>4
    <2> SUFFICES ASSUME NEW s \in SUBSET S, Cardinality(s) = n + 1 PROVE Total(f, s) \in V
      BY <2>0
    <2> DEFINE r == s \ {Chosen(s)}
    <2>1. s # {}
      BY <2>0, FS_EmptySet
    <2>2. Chosen(s) \in S /\ r \in SUBSET S /\ Cardinality(r) = n
      BY <1>1, <2>0, <2>1, ChosenFacts
    <2>3. Total(f, s) = f[Chosen(s)] + Total(f, r)
      BY <1>1, <2>1, TotalUnfolds
    <2> HIDE DEF r
    <2>4. Total(f, r) \in V
      BY <1>4, <2>2
    <2>5. QED
      BY <1>2, <2>2, <2>3, <2>4
  <1>5. N = Nat
    <2>1. N \in SUBSET Nat
      OBVIOUS
    <2> HIDE DEF N
    <2>2. QED
      BY <2>1, <1>3, <1>4, AllNaturals
  <1>6. QED
    BY <1>1, <1>5

\* Any element can be taken out of a sum first.
LEMMA TotalSplits ==
    ASSUME NEW S, IsFiniteSet(S), NEW f, \A x \in S : f[x] \in Int
    PROVE  \A x \in S : Total(f, S) = f[x] + Total(f, S \ {x})
  <1> DEFINE Splits(s) == \A x \in s : Total(f, s) = f[x] + Total(f, s \ {x})
             N == {n \in Nat : \A s \in SUBSET S : Cardinality(s) = n => Splits(s)}
  <1>1. \A s \in SUBSET S : IsFiniteSet(s) /\ Cardinality(s) \in Nat
    BY FS_Subset, FS_CardinalityType
  <1>2. \A s \in SUBSET S : Total(f, s) \in Int
    BY TotalType
  <1>3. 0 \in N
    BY <1>1, FS_EmptySet
  <1>4. ASSUME NEW n \in N PROVE n + 1 \in N
    <2>0. n \in Nat /\ n + 1 \in Nat /\ n + 1 # 0
      BY <1>4
    <2>1. \A s \in SUBSET S : Cardinality(s) = n => Splits(s)
      BY <1>4
    <2> SUFFICES ASSUME NEW s \in SUBSET S, Cardinality(s) = n + 1, NEW x \in s
                 PROVE  Total(f, s) = f[x] + Total(f, s \ {x})
      BY <2>0
    <2> DEFINE c == Chosen(s)
               r == s \ {c}
               q == s \ {x}
    <2> s # {}
      OBVIOUS
    <2>2. c \in s /\ Cardinality(r) = n /\ Total(f, s) = f[c] + Total(f, r)
      BY <1>1, <2>0, ChosenFacts, TotalUnfolds
    <2>3. r \in SUBSET S /\ q \in SUBSET S /\ Cardinality(q) = n
      <3>1. r \in SUBSET S /\ q \in SUBSET S
        OBVIOUS
      <3>2. IsFiniteSet(s)
        BY <1>1
      <3>3. Cardinality(s \ {x}) = Cardinality(s) - 1
        BY <3>2, FS_RemoveElement
      <3>4. QED
        BY <2>0, <3>1, <3>3
    <2> HIDE DEF c
    <2>4. CASE x = c
      BY <2>2, <2>4
    <2>5. CASE x # c
      <3>1. x \in r /\ c \in q /\ r \ {x} = q \ {c} /\ q \ {c} \in SUBSET S
        BY <2>2, <2>3, <2>5
      <3> DEFINE both == q \ {c}
      <3>2. Splits(r) /\ Splits(q)
        BY <2>1, <2>2, <2>3
      <3>3. Total(f, r) = f[x] + Total(f, r \ {x})
        BY <3>1, <3>2
      <3>4. Total(f, q) = f[c] + Total(f, q \ {c})
        BY <3>1, <3>2
      <3>5. Total(f, q \ {c}) \in Int /\ f[x] \in Int /\ f[c] \in Int
        BY <1>2, <2>2, <3>1
      <3>6. QED
        BY <2>2, <3>1, <3>3, <3>4, <3>5
    <2>6. QED
      BY <2>4, <2>5
  <1>5. N = Nat
    <2>1. N \in SUBSET Nat
      OBVIOUS
    <2> HIDE DEF N
    <2>2. QED
      BY <2>1, <1>3, <1>4, AllNaturals
  <1>6. QED
    BY <1>1, <1>5

\* When one value changes, the sum changes by the difference.
LEMMA TotalMoves ==
    ASSUME NEW S, IsFiniteSet(S), NEW e, NEW f,
           \A x \in S : e[x] \in Int /\ f[x] \in Int,
           NEW p \in S, \A x \in S : x # p => e[x] = f[x]
    PROVE  Total(e, S) = Total(f, S) + (e[p] - f[p])
  <1>1. \A x \in S : e[x] \in Int
    OBVIOUS
  <1>2. \A x \in S : f[x] \in Int
    OBVIOUS
  <1>3. Total(e, S) = e[p] + Total(e, S \ {p})
    BY <1>1, TotalSplits
  <1>4. Total(f, S) = f[p] + Total(f, S \ {p})
    BY <1>2, TotalSplits
  <1> DEFINE R == S \ {p}
  <1>5. IsFiniteSet(R) /\ R \in SUBSET S /\ \A x \in R : e[x] = f[x]
    BY FS_Subset
  <1> HIDE DEF R
  <1>6. Total(e, R) = Total(f, R)
    BY <1>5, TotalSame
  <1>7. Total(f, R) \in Int
    <2>1. \A s \in SUBSET S : Total(f, s) \in Int
      BY <1>2, TotalType
    <2>2. QED
      BY <2>1, <1>5
  <1> DEFINE te == Total(e, R)
             tf == Total(f, R)
  <1>8. Total(e, S) = e[p] + te /\ Total(f, S) = f[p] + tf
    BY <1>3, <1>4 DEF R
  <1>9. te = tf /\ tf \in Int /\ e[p] \in Int /\ f[p] \in Int
    BY <1>6, <1>7
  <1> HIDE DEF te, tf
  <1>10. QED
    BY <1>8, <1>9

-----------------------------------------------------------------------------
(* Folds.                                                                  *)

\* What the fold over the positions in d is when g has those over fewer.
FoldOf(context, base, s, g, d) ==
    IF d = {} THEN base ELSE Step(context, g[d \ {Max(d)}], s[Max(d)])

IsFolds(g, context, base, s, n) ==
    g = [d \in SUBSET (1..n) |-> FoldOf(context, base, s, g, d)]

LEMMA MaxFacts ==
    ASSUME NEW n \in Nat, NEW d \in SUBSET (1..n), d # {}
    PROVE  Max(d) \in d /\ \A y \in d : Max(d) >= y
  <1> DEFINE T == {n - x : x \in d}
  <1>1. \A x \in d : x \in Int /\ n - x \in Nat
    OBVIOUS
  <1>2. T \in SUBSET Nat /\ T # {}
    BY <1>1
  <1>3. PICK t \in T : \A y \in T : ~(y < t)
    BY <1>2, Smallest
  <1>4. PICK x \in d : t = n - x
    OBVIOUS
  <1>5. ASSUME NEW y \in d PROVE x >= y
    <2>1. ~(n - y < n - x)
      BY <1>3, <1>4
    <2>2. QED
      BY <2>1, <1>1
  <1>6. QED
    BY <1>5 DEF Max

\* The last of the first positions.
LEMMA MaxOfFirst == ASSUME NEW n \in Nat, n > 0 PROVE Max(1..n) = n
  <1>1. 1..n \in SUBSET (1..n) /\ 1..n # {} /\ n \in 1..n
    OBVIOUS
  <1>2. Max(1..n) \in 1..n /\ Max(1..n) >= n
    BY <1>1, MaxFacts
  <1>3. QED
    BY <1>2

LEMMA FoldsExist ==
    ASSUME NEW context, NEW base, NEW s, NEW n \in Nat
    PROVE  \E g : IsFolds(g, context, base, s, n)
  <1> DEFINE Of(g, d) == FoldOf(context, base, s, g, d)
             Small(m) == {d \in SUBSET (1..n) : Cardinality(d) <= m}
             T == {m \in Nat : \E g : g = [d \in Small(m) |-> Of(g, d)]}
  <1>1. /\ IsFiniteSet(1..n) /\ Cardinality(1..n) \in Nat
        /\ \A d \in SUBSET (1..n) : IsFiniteSet(d) /\ Cardinality(d) \in Nat
    <2>1. IsFiniteSet(1..n)
      BY FS_Interval
    <2>2. QED
      BY <2>1, FS_Subset, FS_CardinalityType
  <1>2. 0 \in T
    <2> DEFINE g == [d \in Small(0) |-> base]
    <2>1. \A d \in Small(0) : d = {}
      BY <1>1, FS_EmptySet
    <2>2. \A d \in Small(0) : Of(g, d) = base
      BY <2>1 DEF FoldOf
    <2>3. g = [d \in Small(0) |-> Of(g, d)]
      BY <2>2
    <2>4. QED
      BY <2>3
  <1>3. ASSUME NEW m \in T PROVE m + 1 \in T
    <2>1. PICK g : g = [d \in Small(m) |-> Of(g, d)]
      OBVIOUS
    <2> DEFINE h == [d \in Small(m + 1) |-> Of(g, d)]
    <2>2. ASSUME NEW d \in Small(m + 1) PROVE Of(h, d) = Of(g, d)
      <3>1. CASE d = {}
        BY <3>1 DEF FoldOf
      <3>2. CASE d # {}
        <4> DEFINE r == d \ {Max(d)}
        <4>1. r \in SUBSET (1..n) /\ Cardinality(r) = Cardinality(d) - 1
              /\ Cardinality(d) \in Nat
          BY <1>1, <3>2, MaxFacts, FS_RemoveElement
        <4>2. r \in Small(m) /\ r \in Small(m + 1)
          BY <4>1
        <4> HIDE DEF r
        <4>3. h[r] = Of(g, r) /\ g[r] = Of(g, r)
          BY <2>1, <4>2
        <4>4. QED
          BY <3>2, <4>3 DEF FoldOf, r
      <3>3. QED
        BY <3>1, <3>2
    <2>3. h = [d \in Small(m + 1) |-> Of(h, d)]
      BY <2>2
    <2> HIDE DEF h
    <2>4. \E q : q = [d \in Small(m + 1) |-> Of(q, d)]
      BY <2>3
    <2>5. m + 1 \in Nat
      BY <1>3
    <2>6. QED
      BY <2>4, <2>5
  <1>4. T = Nat
    <2>1. T \in SUBSET Nat
      OBVIOUS
    <2> HIDE DEF T
    <2>2. QED
      BY <2>1, <1>2, <1>3, AllNaturals
  <1>5. Cardinality(1..n) \in T
    BY <1>1, <1>4
  <1>6. Small(Cardinality(1..n)) = SUBSET (1..n)
    BY <1>1, FS_Subset
  <1>7. QED
    BY <1>5, <1>6 DEF IsFolds

\* The fold over the first positions depends on the elements there only.
LEMMA FoldsAgree ==
    ASSUME NEW context, NEW base, NEW s, NEW t, NEW m \in Nat, NEW n \in Nat, m <= n,
           \A i \in 1..m : s[i] = t[i],
           NEW g, IsFolds(g, context, base, s, m), NEW h, IsFolds(h, context, base, t, n)
    PROVE  g[1..m] = h[1..m]
  <1> DEFINE T == {k \in Nat : k <= m => g[1..k] = h[1..k]}
  <1>1. 0 \in T
    <2>1. 1..0 = {} /\ {} \in SUBSET (1..m) /\ {} \in SUBSET (1..n)
      OBVIOUS
    <2>2. QED
      BY <2>1 DEF IsFolds, FoldOf
  <1>2. ASSUME NEW k \in T PROVE k + 1 \in T
    <2> SUFFICES ASSUME k + 1 <= m PROVE g[1..(k + 1)] = h[1..(k + 1)]
      OBVIOUS
    <2> DEFINE d == 1..(k + 1)
    <2>1. k \in Nat /\ k + 1 \in 1..m /\ k + 1 > 0 /\ k + 1 \in Nat
      OBVIOUS
    <2>0. d \in SUBSET (1..m) /\ d \in SUBSET (1..n) /\ d # {}
      <3>1. \A i \in d : i \in 1..m /\ i \in 1..n
        BY <2>1
      <3>2. k + 1 \in d
        BY <2>1
      <3> HIDE DEF d
      <3>3. QED
        BY <3>1, <3>2
    <2>2. Max(d) = k + 1
      BY <2>1, MaxOfFirst
    <2>3. d \ {k + 1} = 1..k
      OBVIOUS
    <2> HIDE DEF d
    <2>4. g[1..k] = h[1..k]
      OBVIOUS
    <2>5. g[d] = Step(context, g[1..k], s[k + 1]) /\ h[d] = Step(context, h[1..k], t[k + 1])
      BY <2>0, <2>2, <2>3 DEF IsFolds, FoldOf
    <2>6. g[d] = h[d]
      BY <2>1, <2>4, <2>5
    <2>7. QED
      BY <2>6 DEF d
  <1>3. T = Nat
    <2>1. T \in SUBSET Nat
      OBVIOUS
    <2> HIDE DEF T
    <2>2. QED
      BY <2>1, <1>1, <1>2, AllNaturals
  <1>4. QED
    BY <1>3

\* The recursive function behind a fold, and the fold.
FoldsOver(context, base, s, n) ==
    CHOOSE g : g = [d \in SUBSET (1..n) |-> FoldOf(context, base, s, g, d)]

Fold(context, base, s) == FoldsOver(context, base, s, Len(s))[1..Len(s)]

LEMMA FoldIsLast ==
    ASSUME NEW context, NEW base, NEW M, NEW s \in Seq(M)
    PROVE  /\ Len(s) \in Nat
           /\ Fold(context, base, s) = FoldsOver(context, base, s, Len(s))[1..Len(s)]
           /\ IsFolds(FoldsOver(context, base, s, Len(s)), context, base, s, Len(s))
  <1>1. Len(s) \in Nat
    OBVIOUS
  <1>2. Fold(context, base, s) = FoldsOver(context, base, s, Len(s))[1..Len(s)]
    BY DEF Fold
  <1>3. \E g : g = [d \in SUBSET (1..Len(s)) |-> FoldOf(context, base, s, g, d)]
    <2>1. \A n \in Nat : \E g : IsFolds(g, context, base, s, n)
      BY FoldsExist
    <2>2. \E g : IsFolds(g, context, base, s, Len(s))
      BY <1>1, <2>1
    <2>3. QED
      BY <2>2 DEF IsFolds
  <1>4. QED
    BY <1>1, <1>2, <1>3 DEF FoldsOver, IsFolds

\* FoldLeft is such a fold: its recursive function, which f stands for, is one of them.
LEMMA FoldIs ==
    ASSUME NEW context, NEW base, NEW M, NEW s \in Seq(M), NEW f,
           (\E g : IsFolds(g, context, base, s, Len(s)))
             => IsFolds(f, context, base, s, Len(s))
    PROVE  f[1..Len(s)] = Fold(context, base, s)
  <1> DEFINE l == Len(s)
             h == FoldsOver(context, base, s, l)
  <1>1. l \in Nat /\ Fold(context, base, s) = h[1..l] /\ IsFolds(h, context, base, s, l)
    BY FoldIsLast
  <1>2. IsFolds(f, context, base, s, l)
    BY <1>1
  <1> HIDE DEF l, h
  <1>3. f[1..l] = h[1..l]
    BY <1>1, <1>2, FoldsAgree
  <1>4. QED
    BY <1>1, <1>3 DEF l

\* A fold from left to right.
LEMMA FoldEmpty == \A context, base : Fold(context, base, <<>>) = base
  <1> SUFFICES ASSUME NEW context, NEW base PROVE Fold(context, base, <<>>) = base
    OBVIOUS
  <1>1. <<>> \in Seq({}) /\ Len(<<>>) = 0 /\ 1..0 = {} /\ {} \in SUBSET (1..0)
    OBVIOUS
  <1> DEFINE g == FoldsOver(context, base, <<>>, 0)
  <1>2. Fold(context, base, <<>>) = g[1..0] /\ IsFolds(g, context, base, <<>>, 0)
    BY <1>1, FoldIsLast
  <1> HIDE DEF g
  <1>3. QED
    BY <1>1, <1>2 DEF IsFolds, FoldOf

LEMMA FoldAppend ==
    \A context, base, M : \A s \in Seq(M), e \in M :
        Fold(context, base, Append(s, e)) = Step(context, Fold(context, base, s), e)
  <1> SUFFICES ASSUME NEW context, NEW base, NEW M, NEW s \in Seq(M), NEW e \in M
               PROVE  Fold(context, base, Append(s, e))
                        = Step(context, Fold(context, base, s), e)
    OBVIOUS
  <1> DEFINE t == Append(s, e)
             m == Len(s)
             g == FoldsOver(context, base, s, m)
             h == FoldsOver(context, base, t, m + 1)
  <1>1. /\ t \in Seq(M) /\ Len(t) = m + 1 /\ m \in Nat /\ t[m + 1] = e
        /\ \A i \in 1..m : s[i] = t[i]
    OBVIOUS
  <1>2. Fold(context, base, s) = g[1..m] /\ IsFolds(g, context, base, s, m)
    BY FoldIsLast
  <1> HIDE DEF t, m
  <1>3. Fold(context, base, t) = h[1..(m + 1)] /\ IsFolds(h, context, base, t, m + 1)
    BY <1>1, FoldIsLast
  <1> HIDE DEF g, h
  <1>4. g[1..m] = h[1..m]
    BY <1>1, <1>2, <1>3, FoldsAgree
  <1>5. Max(1..(m + 1)) = m + 1
    BY <1>1, MaxOfFirst
  <1>6. (1..(m + 1)) \ {m + 1} = 1..m /\ 1..(m + 1) # {}
    BY <1>1
  <1>7. h[1..(m + 1)] = Step(context, h[1..m], t[m + 1])
    BY <1>3, <1>5, <1>6 DEF IsFolds, FoldOf
  <1>8. QED
    BY <1>1, <1>2, <1>3, <1>4, <1>7 DEF t

\* Folding over two sequences one after the other.
LEMMA FoldConcat ==
    \A context, base, M : \A s \in Seq(M), t \in Seq(M) :
        Fold(context, base, s \o t) = Fold(context, Fold(context, base, s), t)
  <1> SUFFICES ASSUME NEW context, NEW base, NEW M, NEW s \in Seq(M)
               PROVE  \A t \in Seq(M) :
                        Fold(context, base, s \o t) = Fold(context, Fold(context, base, s), t)
    OBVIOUS
  <1> DEFINE T == {t \in Seq(M) : Fold(context, base, s \o t)
                                   = Fold(context, Fold(context, base, s), t)}
  <1>1. <<>> \in T
    <2>1. s \o <<>> = s
      OBVIOUS
    <2>2. QED
      BY <2>1, FoldEmpty
  <1>2. ASSUME NEW t \in Seq(M), NEW e \in M, t \in T PROVE Append(t, e) \in T
    <2>1. s \o Append(t, e) = Append(s \o t, e) /\ s \o t \in Seq(M) /\ Append(t, e) \in Seq(M)
      OBVIOUS
    <2>2. Fold(context, base, Append(s \o t, e))
            = Step(context, Fold(context, base, s \o t), e)
      <3> DEFINE r == s \o t
      <3>1. r \in Seq(M)
        BY <2>1
      <3> HIDE DEF r
      <3>2. Fold(context, base, Append(r, e)) = Step(context, Fold(context, base, r), e)
        BY <3>1, FoldAppend
      <3>3. QED
        BY <3>2 DEF r
    <2>3. Fold(context, Fold(context, base, s), Append(t, e))
            = Step(context, Fold(context, Fold(context, base, s), t), e)
      BY FoldAppend
    <2>4. Fold(context, base, s \o t) = Fold(context, Fold(context, base, s), t)
      BY <1>2
    <2>5. QED
      BY <2>1, <2>2, <2>3, <2>4
  <1> HIDE DEF T
  <1>3. Seq(M) \subseteq T
    BY <1>1, <1>2, AllSequences
  <1>4. QED
    BY <1>3 DEF T

\* A function is defined by recursion, if what it is at an argument depends only on what
\* it is at those of a smaller rank.
DependsBelow(context, S, rank) ==
    \A f, g : \A n \in S : (\A m \in S : rank[m] < rank[n] => f[m] = g[m])
                             => Step(context, f, n) = Step(context, g, n)

IsRecursion(context, S, f) == f = [n \in S |-> Step(context, f, n)]

LEMMA RecursionExists ==
    \A context, S, rank : \A B \in Nat :
        rank \in [S -> 0..B] /\ DependsBelow(context, S, rank)
          => \E f : IsRecursion(context, S, f)
  <1> SUFFICES ASSUME NEW context, NEW S, NEW B \in Nat, NEW rank \in [S -> 0..B],
                      DependsBelow(context, S, rank)
               PROVE  \E f : f = [n \in S |-> Step(context, f, n)]
    BY DEF IsRecursion
  <1> DEFINE Holds(f, k) == \A n \in S : rank[n] < k => f[n] = Step(context, f, n)
             T == {k \in Nat : \E f : Holds(f, k)}
             Next1(f) == [n \in S |-> Step(context, f, n)]
  <1>1. \A n \in S : rank[n] \in Nat /\ rank[n] < B + 1
    OBVIOUS
  <1>2. 0 \in T
    <2>1. Holds([n \in S |-> 0], 0)
      BY <1>1
    <2>2. QED
      BY <2>1
  <1>3. ASSUME NEW k \in T PROVE k + 1 \in T
    <2>1. PICK f : Holds(f, k)
      OBVIOUS
    <2> DEFINE g == Next1(f)
    <2>2. \A n \in S : g[n] = Step(context, f, n)
      OBVIOUS
    <2> HIDE DEF g
    <2>3. \A n \in S : rank[n] < k => g[n] = f[n]
      BY <2>1, <2>2
    <2>4. ASSUME NEW n \in S, rank[n] < k + 1 PROVE g[n] = Step(context, g, n)
      <3>1. \A m \in S : rank[m] < rank[n] => f[m] = g[m]
        BY <1>1, <2>3, <2>4
      <3>2. Step(context, f, n) = Step(context, g, n)
        BY <3>1 DEF DependsBelow
      <3>3. QED
        BY <2>2, <3>2
    <2>5. Holds(g, k + 1)
      BY <2>4
    <2>6. QED
      BY <2>5
  <1> HIDE DEF T
  <1>4. B + 1 \in T
    <2>1. T \in SUBSET Nat
      BY DEF T
    <2>2. QED
      BY <1>2, <1>3, <2>1, AllNaturals
  <1>5. PICK f : Holds(f, B + 1)
    BY <1>4 DEF T
  <1> DEFINE g == Next1(f)
  <1>6. \A n \in S : f[n] = Step(context, f, n)
    BY <1>1, <1>5
  <1>7. g = [n \in S |-> f[n]] /\ \A n \in S : g[n] = f[n]
    BY <1>6
  <1> HIDE DEF g
  <1>8. \A n \in S : Step(context, f, n) = Step(context, g, n)
    BY <1>7 DEF DependsBelow
  <1>9. g = [n \in S |-> Step(context, g, n)]
    BY <1>8 DEF g
  <1>10. QED
    BY <1>9

=============================================================================
