--------------------------- MODULE CompositeProofs ---------------------------
(***************************************************************************)
(* Theorems about Composite, for any declarations, any replies and any     *)
(* number of children, messages and effects.  In this order:               *)
(*   - folds, and the flattening of sequences of sequences;                *)
(*   - the parser, function by function, up to ParserExactHolds;           *)
(*   - the tree of models that one declaration gives, and the contexts     *)
(*     and constructors on the way to a model: where its key comes from    *)
(*     (KeyOf) and what becomes of its messages (Home);                    *)
(*   - commands on the way up the tree, messages on their way down;        *)
(*   - what is in flight, and what executing a sequence of commands does;  *)
(*   - the command of init, and the subscriptions that models declare;     *)
(*   - the inductive invariant CompositeInv, and the theorems.             *)
(***************************************************************************)
EXTENDS Composite, CollectionsProofs

-----------------------------------------------------------------------------
(* What the folds of the parser and of the models do at each element, and  *)
(* what the recursions over the models do at each model.                   *)

RouteStep(message, at, k) ==
    IF k = 0 THEN [by |-> RootModel, message |-> message]
    ELSE IF Matching(at[k - 1].by, at[k - 1].message) = {} THEN at[k - 1]
    ELSE [by |-> Append(at[k - 1].by, FirstMatch(at[k - 1].by, at[k - 1].message)),
          message |-> Unwrap(at[k - 1].message)]

InitsOf(of, n) == [i \in 1..Len(SpecsOf(n)) |-> InScope(Append(n, i), of[Append(n, i)])]

InitStep(reply, of, n) ==
    IF InitsOf(of, n) = <<>> THEN ReplyCommand(n, reply[n])
    ELSE Batch(<<Batch(InitsOf(of, n)), ReplyCommand(n, reply[n])>>)

PushAll(p, s) == FoldLeft(Push, [list |-> <<>>, panics |-> p], s)

FromChild(of, n, i) ==
    [j \in 1..Len(of[Append(n, i)].list) |->
       SubscriptionInScope(Append(n, i), of[Append(n, i)].list[j])]

FromChildren(of, n) == [i \in 1..Len(SpecsOf(n)) |-> FromChild(of, n, i)]

OwnSubscription(n) == [key |-> LocalKey, message |-> Local(n)]

AllOf(of, n) == FlattenSeq(FromChildren(of, n)) \o <<OwnSubscription(n)>>

BelowPanics(of, n) == \E i \in 1..Len(SpecsOf(n)) : of[Append(n, i)].panics

DeclaredStep(of, n) == PushAll(BelowPanics(of, n), AllOf(of, n))

\* A fold or a recursion, and what it depends on.
For(what, x) == <<what, x>>

WalkStep(context, state, e) ==
    CASE context[1] = "child metas" -> ChildMeta(state, context[2], e)
      [] context[1] = "attributes" -> FieldAttribute(state, context[2], e)
      [] context[1] = "struct metas" -> CompositeMeta(state, e)
      [] context[1] = "struct attributes" -> StructAttribute(state, e)
      [] context[1] = "contexts" -> Scope(state, SpecOf(e).path)
      [] context[1] = "commands" -> InScope(e, state)
      [] context[1] = "messages" -> Lift(SpecOf(e).lift, state)
      [] context[1] = "leaves" -> ExecuteLeaf(state, e)
      [] context[1] = "busy" -> BusyAfterCommand(context[2], state, e)
      [] context[1] = "replies" -> BusyAfterReply(state, e)
      [] context[1] = "subscriptions" -> Push(state, e)
      [] context[1] = "route" -> RouteStep(context[2], state, e)
      [] context[1] = "init" -> InitStep(context[2], state, e)
      [] context[1] = "declared" -> DeclaredStep(state, e)

Walk == INSTANCE CollectionsProofs WITH Step <- WalkStep

LEMMA StepOfChildMetas ==
    \A x, s, e : WalkStep(For("child metas", x), s, e) = ChildMeta(s, x, e)
  BY DEF WalkStep, For

LEMMA StepOfAttributes ==
    \A x, s, e : WalkStep(For("attributes", x), s, e) = FieldAttribute(s, x, e)
  BY DEF WalkStep, For

LEMMA StepOfStructMetas ==
    \A x, s, e : WalkStep(For("struct metas", x), s, e) = CompositeMeta(s, e)
  BY DEF WalkStep, For

LEMMA StepOfStructAttributes ==
    \A x, s, e : WalkStep(For("struct attributes", x), s, e) = StructAttribute(s, e)
  BY DEF WalkStep, For

LEMMA StepOfContexts ==
    \A x, s, e : WalkStep(For("contexts", x), s, e) = Scope(s, SpecOf(e).path)
  BY DEF WalkStep, For

LEMMA StepOfCommands ==
    \A x, s, e : WalkStep(For("commands", x), s, e) = InScope(e, s)
  BY DEF WalkStep, For

LEMMA StepOfMessages ==
    \A x, s, e : WalkStep(For("messages", x), s, e) = Lift(SpecOf(e).lift, s)
  BY DEF WalkStep, For

LEMMA StepOfLeaves ==
    \A x, s, e : WalkStep(For("leaves", x), s, e) = ExecuteLeaf(s, e)
  BY DEF WalkStep, For

LEMMA StepOfBusy ==
    \A x, s, e : WalkStep(For("busy", x), s, e) = BusyAfterCommand(x, s, e)
  BY DEF WalkStep, For

LEMMA StepOfReplies ==
    \A x, s, e : WalkStep(For("replies", x), s, e) = BusyAfterReply(s, e)
  BY DEF WalkStep, For

LEMMA StepOfSubscriptions ==
    \A x, s, e : WalkStep(For("subscriptions", x), s, e) = Push(s, e)
  BY DEF WalkStep, For

LEMMA StepOfRoute ==
    \A x, s, e : WalkStep(For("route", x), s, e) = RouteStep(x, s, e)
  BY DEF WalkStep, For

LEMMA StepOfInit ==
    \A x, s, e : WalkStep(For("init", x), s, e) = InitStep(x, s, e)
  BY DEF WalkStep, For

LEMMA StepOfDeclared ==
    \A x, s, e : WalkStep(For("declared", x), s, e) = DeclaredStep(s, e)
  BY DEF WalkStep, For

-----------------------------------------------------------------------------
(* Flattening.                                                             *)

\* One step of the recursion of FlattenSeq.
Flat(s, f, i) == IF i = 1 THEN s[i] ELSE f[i - 1] \o s[i]

LEMMA FlatExists ==
    ASSUME NEW s
    PROVE  \A m \in Nat : \E f : f = [i \in 1..m |-> Flat(s, f, i)]
  <1> DEFINE T == {m \in Nat : \E f : f = [i \in 1..m |-> Flat(s, f, i)]}
  <1>1. 0 \in T
    <2> DEFINE f == [i \in 1..0 |-> <<>>]
    <2>1. f = [i \in 1..0 |-> Flat(s, f, i)]
      OBVIOUS
    <2>2. QED
      BY <2>1
  <1>2. ASSUME NEW m \in T PROVE m + 1 \in T
    <2>1. PICK f : f = [i \in 1..m |-> Flat(s, f, i)]
      OBVIOUS
    <2> DEFINE g == [i \in 1..(m + 1) |-> Flat(s, f, i)]
    <2>2. ASSUME NEW i \in 1..(m + 1) PROVE g[i] = Flat(s, g, i)
      <3>1. CASE i = 1
        BY <3>1 DEF Flat
      <3>2. CASE i # 1
        <4>1. i - 1 \in 1..m /\ i - 1 \in 1..(m + 1)
          BY <3>2
        <4>2. g[i - 1] = Flat(s, f, i - 1) /\ f[i - 1] = Flat(s, f, i - 1)
          BY <2>1, <4>1
        <4>3. QED
          BY <3>2, <4>2 DEF Flat
      <3>3. QED
        BY <3>1, <3>2
    <2>3. g = [i \in 1..(m + 1) |-> Flat(s, g, i)]
      BY <2>2
    <2> HIDE DEF g
    <2>4. \E h : h = [i \in 1..(m + 1) |-> Flat(s, h, i)]
      BY <2>3
    <2>5. m + 1 \in Nat
      BY <1>2
    <2>6. QED
      BY <2>4, <2>5
  <1>3. T = Nat
    <2>1. T \in SUBSET Nat
      OBVIOUS
    <2> HIDE DEF T
    <2>2. QED
      BY <2>1, <1>1, <1>2, AllNaturals
  <1>4. QED
    BY <1>3

FlatOf(s, n) == CHOOSE f : f = [i \in 1..n |-> Flat(s, f, i)]

LEMMA FlattenUnfolds ==
    ASSUME NEW M, NEW s \in Seq(M)
    PROVE  /\ Len(s) # 0 => FlattenSeq(s) = FlatOf(s, Len(s))[Len(s)]
           /\ \A i \in 1..Len(s) : FlatOf(s, Len(s))[i] = Flat(s, FlatOf(s, Len(s)), i)
  <1> DEFINE n == Len(s)
             F == FlatOf(s, n)
  <1>1. n \in Nat
    OBVIOUS
  <1>2. n # 0 => FlattenSeq(s) = F[n]
    BY DEF FlattenSeq, FlatOf, Flat
  <1> HIDE DEF n
  <1>3. \E f : f = [i \in 1..n |-> Flat(s, f, i)]
    BY <1>1, FlatExists
  <1>4. F = [i \in 1..n |-> Flat(s, F, i)]
    BY <1>3 DEF FlatOf
  <1> HIDE DEF F
  <1>5. \A i \in 1..n : F[i] = Flat(s, F, i)
    BY <1>4
  <1>6. QED
    BY <1>2, <1>5 DEF F, n

LEMMA FlattenEmpty == FlattenSeq(<<>>) = <<>>
  <1>1. Len(<<>>) = 0
    OBVIOUS
  <1>2. QED
    BY <1>1 DEF FlattenSeq

\* What is flattened of the first elements depends on those only.
LEMMA FlatOfPrefix ==
    ASSUME NEW M, NEW s \in Seq(M), NEW e \in M
    PROVE  \A i \in 1..Len(s) :
             FlatOf(Append(s, e), Len(s) + 1)[i] = FlatOf(s, Len(s))[i]
  <1> DEFINE n == Len(s)
             t == Append(s, e)
             F == FlatOf(s, n)
             G == FlatOf(t, n + 1)
             T == {i \in Nat : i \in 1..n => G[i] = F[i]}
  <1>1. /\ t \in Seq(M) /\ Len(t) = n + 1 /\ n \in Nat
        /\ \A i \in 1..n : t[i] = s[i]
    OBVIOUS
  <1>2. \A i \in 1..n : F[i] = Flat(s, F, i)
    BY FlattenUnfolds
  <1> HIDE DEF t, n
  <1>3. \A i \in 1..(n + 1) : G[i] = Flat(t, G, i)
    BY <1>1, FlattenUnfolds
  <1> HIDE DEF F, G
  <1>4. 0 \in T
    OBVIOUS
  <1>5. ASSUME NEW i \in T PROVE i + 1 \in T
    <2> SUFFICES ASSUME i + 1 \in 1..n PROVE G[i + 1] = F[i + 1]
      OBVIOUS
    <2>1. /\ i + 1 \in 1..(n + 1) /\ i \in Nat
          /\ i + 1 # 1 => i \in 1..n /\ G[i] = F[i] /\ i + 1 - 1 = i
      BY <1>1
    <2>2. F[i + 1] = Flat(s, F, i + 1) /\ G[i + 1] = Flat(t, G, i + 1) /\ t[i + 1] = s[i + 1]
      BY <1>1, <1>2, <1>3, <2>1
    <2>3. QED
      BY <2>1, <2>2 DEF Flat
  <1>6. T = Nat
    <2>1. T \in SUBSET Nat
      OBVIOUS
    <2> HIDE DEF T
    <2>2. QED
      BY <2>1, <1>4, <1>5, AllNaturals
  <1>7. \A i \in 1..n : i \in Nat
    BY <1>1
  <1>8. \A i \in 1..n : G[i] = F[i]
    BY <1>6, <1>7
  <1>9. QED
    BY <1>8 DEF F, G, n, t

LEMMA FlattenAppend ==
    \A M : \A s \in Seq(Seq(M)), e \in Seq(M) :
        FlattenSeq(Append(s, e)) = FlattenSeq(s) \o e
  <1> SUFFICES ASSUME NEW M, NEW s \in Seq(Seq(M)), NEW e \in Seq(M)
               PROVE  FlattenSeq(Append(s, e)) = FlattenSeq(s) \o e
    OBVIOUS
  <1> DEFINE n == Len(s)
             t == Append(s, e)
  <1>1. t \in Seq(Seq(M)) /\ Len(t) = n + 1 /\ t[n + 1] = e /\ n \in Nat
    OBVIOUS
  <1>2. \A i \in 1..n : FlatOf(t, n + 1)[i] = FlatOf(s, n)[i]
    BY FlatOfPrefix
  <1>3. n # 0 => FlattenSeq(s) = FlatOf(s, n)[n]
    BY FlattenUnfolds
  <1>4. n = 0 => s = <<>>
    OBVIOUS
  <1> HIDE DEF n, t
  <1>5. /\ FlattenSeq(t) = FlatOf(t, n + 1)[n + 1]
        /\ FlatOf(t, n + 1)[n + 1] = Flat(t, FlatOf(t, n + 1), n + 1)
    BY <1>1, FlattenUnfolds
  <1>6. CASE n = 0
    <2>1. FlattenSeq(t) = e
      BY <1>1, <1>5, <1>6 DEF Flat
    <2>2. FlattenSeq(s) \o e = e
      BY <1>4, <1>6, FlattenEmpty
    <2>3. QED
      BY <2>1, <2>2 DEF t
  <1>7. CASE n # 0
    <2>1. n \in 1..n /\ n + 1 # 1 /\ n + 1 - 1 = n
      BY <1>1, <1>7
    <2>0. FlatOf(t, n + 1)[n] = FlattenSeq(s)
      BY <1>2, <1>3, <1>7, <2>1
    <2> DEFINE G == FlatOf(t, n + 1)
    <2> HIDE DEF G
    <2>3. Flat(t, G, n + 1) = G[n] \o t[n + 1]
      BY <1>1, <2>1 DEF Flat
    <2>2. FlattenSeq(t) = FlattenSeq(s) \o e
      BY <1>1, <1>5, <2>0, <2>3 DEF G
    <2>4. QED
      BY <2>2 DEF t
  <1>8. QED
    BY <1>6, <1>7

LEMMA FlattenType ==
    \A M : \A s \in Seq(Seq(M)) : FlattenSeq(s) \in Seq(M)
  <1> SUFFICES ASSUME NEW M PROVE \A s \in Seq(Seq(M)) : FlattenSeq(s) \in Seq(M)
    OBVIOUS
  <1> DEFINE T == {s \in Seq(Seq(M)) : FlattenSeq(s) \in Seq(M)}
  <1>1. <<>> \in T
    <2>1. <<>> \in Seq(M) /\ <<>> \in Seq(Seq(M))
      OBVIOUS
    <2>2. QED
      BY <2>1, FlattenEmpty
  <1>2. ASSUME NEW s \in Seq(Seq(M)), NEW e \in Seq(M), s \in T PROVE Append(s, e) \in T
    <2>1. FlattenSeq(Append(s, e)) = FlattenSeq(s) \o e
      BY FlattenAppend
    <2>2. Append(s, e) \in Seq(Seq(M)) /\ FlattenSeq(s) \o e \in Seq(M)
      BY <1>2
    <2>3. QED
      BY <2>1, <2>2
  <1> HIDE DEF T
  <1>3. Seq(Seq(M)) \subseteq T
    BY <1>1, <1>2, AllSequences
  <1>4. QED
    BY <1>3 DEF T

LEMMA FlattenOne == \A M : \A a \in Seq(M) : FlattenSeq(<<a>>) = a
  <1> SUFFICES ASSUME NEW M, NEW a \in Seq(M) PROVE FlattenSeq(<<a>>) = a
    OBVIOUS
  <1>1. <<>> \in Seq(Seq(M)) /\ <<a>> = Append(<<>>, a) /\ <<>> \o a = a
    OBVIOUS
  <1>2. FlattenSeq(Append(<<>>, a)) = FlattenSeq(<<>>) \o a
    BY <1>1, FlattenAppend
  <1>3. QED
    BY <1>1, <1>2, FlattenEmpty

LEMMA FlattenTwo == \A M : \A a, b \in Seq(M) : FlattenSeq(<<a, b>>) = a \o b
  <1> SUFFICES ASSUME NEW M, NEW a \in Seq(M), NEW b \in Seq(M)
               PROVE  FlattenSeq(<<a, b>>) = a \o b
    OBVIOUS
  <1>1. <<a>> \in Seq(Seq(M)) /\ <<a, b>> = Append(<<a>>, b)
    OBVIOUS
  <1>2. FlattenSeq(Append(<<a>>, b)) = FlattenSeq(<<a>>) \o b
    BY <1>1, FlattenAppend
  <1>3. QED
    BY <1>1, <1>2, FlattenOne

LEMMA FlattenConcat ==
    \A M : \A s, t \in Seq(Seq(M)) : FlattenSeq(s \o t) = FlattenSeq(s) \o FlattenSeq(t)
  <1> SUFFICES ASSUME NEW M, NEW s \in Seq(Seq(M))
               PROVE  \A t \in Seq(Seq(M)) : FlattenSeq(s \o t) = FlattenSeq(s) \o FlattenSeq(t)
    OBVIOUS
  <1> DEFINE T == {t \in Seq(Seq(M)) : FlattenSeq(s \o t) = FlattenSeq(s) \o FlattenSeq(t)}
  <1>1. FlattenSeq(s) \in Seq(M)
    BY FlattenType
  <1>2. <<>> \in T
    <2>1. s \o <<>> = s /\ FlattenSeq(s) \o <<>> = FlattenSeq(s) /\ <<>> \in Seq(Seq(M))
      BY <1>1
    <2>2. QED
      BY <2>1, FlattenEmpty
  <1>3. ASSUME NEW t \in Seq(Seq(M)), NEW e \in Seq(M), t \in T PROVE Append(t, e) \in T
    <2>1. /\ s \o t \in Seq(Seq(M)) /\ Append(t, e) \in Seq(Seq(M))
          /\ s \o Append(t, e) = Append(s \o t, e)
      OBVIOUS
    <2>2. FlattenSeq(Append(s \o t, e)) = FlattenSeq(s \o t) \o e
      <3> DEFINE r == s \o t
      <3>1. r \in Seq(Seq(M))
        BY <2>1
      <3> HIDE DEF r
      <3>2. FlattenSeq(Append(r, e)) = FlattenSeq(r) \o e
        BY <3>1, FlattenAppend
      <3>3. QED
        BY <3>2 DEF r
    <2>3. FlattenSeq(Append(t, e)) = FlattenSeq(t) \o e
      BY FlattenAppend
    <2>4. FlattenSeq(t) \in Seq(M) /\ FlattenSeq(s \o t) = FlattenSeq(s) \o FlattenSeq(t)
      BY <1>3, FlattenType
    <2>5. (FlattenSeq(s) \o FlattenSeq(t)) \o e = FlattenSeq(s) \o (FlattenSeq(t) \o e)
      BY <1>1, <2>4
    <2>6. QED
      BY <2>1, <2>2, <2>3, <2>4, <2>5
  <1> HIDE DEF T
  <1>4. Seq(Seq(M)) \subseteq T
    BY <1>2, <1>3, AllSequences
  <1>5. QED
    BY <1>4 DEF T

\* What f makes of each element of a sequence.
Maps(f, A, B) == f \in [A -> B]

Each(f, s) == [i \in 1..Len(s) |-> f[s[i]]]

LEMMA EachType ==
    \A f, A, B : Maps(f, A, B)
      => \A s \in Seq(A) : Each(f, s) \in Seq(B) /\ Len(Each(f, s)) = Len(s)
  <1> SUFFICES ASSUME NEW f, NEW A, NEW B, Maps(f, A, B), NEW s \in Seq(A)
               PROVE  Each(f, s) \in Seq(B) /\ Len(Each(f, s)) = Len(s)
    OBVIOUS
  <1>1. Len(s) \in Nat /\ \A i \in 1..Len(s) : f[s[i]] \in B
    BY DEF Maps
  <1>2. Each(f, s) \in [1..Len(s) -> B]
    BY <1>1 DEF Each
  <1> DEFINE t == Each(f, s)
  <1> HIDE DEF t
  <1>3. t \in Seq(B) /\ Len(t) = Len(s)
    BY <1>1, <1>2 DEF t
  <1>4. QED
    BY <1>3 DEF t

LEMMA EachEmpty == \A f : Each(f, <<>>) = <<>>
  BY DEF Each

LEMMA EachAppend ==
    \A f, A, B : Maps(f, A, B) => \A s \in Seq(A), e \in A :
        Each(f, Append(s, e)) = Append(Each(f, s), f[e])
  <1> SUFFICES ASSUME NEW f, NEW A, NEW B, Maps(f, A, B), NEW s \in Seq(A), NEW e \in A
               PROVE  Each(f, Append(s, e)) = Append(Each(f, s), f[e])
    OBVIOUS
  <1> DEFINE l == Each(f, Append(s, e))
             t == Each(f, s)
             r == Append(t, f[e])
  <1>1. Append(s, e) \in Seq(A) /\ Len(Append(s, e)) = Len(s) + 1 /\ Len(s) \in Nat
    OBVIOUS
  <1>2. l \in Seq(B) /\ Len(l) = Len(s) + 1 /\ t \in Seq(B) /\ Len(t) = Len(s)
    <2> DEFINE q == Append(s, e)
    <2>1. q \in Seq(A) /\ Len(q) = Len(s) + 1
      BY <1>1
    <2> HIDE DEF q
    <2>2. Each(f, q) \in Seq(B) /\ Len(Each(f, q)) = Len(s) + 1
      BY <2>1, EachType
    <2>3. Each(f, s) \in Seq(B) /\ Len(Each(f, s)) = Len(s)
      BY EachType
    <2>4. QED
      BY <2>2, <2>3 DEF q
  <1>3. \A i \in 1..(Len(s) + 1) : l[i] = IF i = Len(s) + 1 THEN f[e] ELSE f[s[i]]
    BY <1>1 DEF Each
  <1>4. \A i \in 1..Len(s) : t[i] = f[s[i]]
    BY DEF Each
  <1> HIDE DEF l, t
  <1>5. r \in Seq(B) /\ Len(r) = Len(s) + 1
    <2>1. f[e] \in B
      BY DEF Maps
    <2>2. QED
      BY <1>2, <2>1
  <1>6. \A i \in 1..(Len(s) + 1) : r[i] = IF i = Len(s) + 1 THEN f[e] ELSE t[i]
    BY <1>1, <1>2
  <1> HIDE DEF r
  <1>7. \A i \in 1..(Len(s) + 1) : l[i] = r[i]
    BY <1>1, <1>3, <1>4, <1>6
  <1>8. l = r
    BY <1>2, <1>5, <1>7
  <1>9. QED
    BY <1>8 DEF l, r, t

LEMMA EachOne == \A f, A, B : Maps(f, A, B) => \A e \in A : Each(f, <<e>>) = <<f[e]>>
  <1> SUFFICES ASSUME NEW f, NEW A, NEW B, Maps(f, A, B), NEW e \in A
               PROVE  Each(f, <<e>>) = <<f[e]>>
    OBVIOUS
  <1>1. <<>> \in Seq(A) /\ <<e>> = Append(<<>>, e) /\ <<f[e]>> = Append(<<>>, f[e])
    OBVIOUS
  <1>2. Each(f, Append(<<>>, e)) = Append(Each(f, <<>>), f[e])
    BY <1>1, EachAppend
  <1>3. QED
    BY <1>1, <1>2, EachEmpty

LEMMA EachConcat ==
    \A f, A, B : Maps(f, A, B) => \A s, t \in Seq(A) :
        Each(f, s \o t) = Each(f, s) \o Each(f, t)
  <1> SUFFICES ASSUME NEW f, NEW A, NEW B, Maps(f, A, B), NEW s \in Seq(A)
               PROVE  \A t \in Seq(A) : Each(f, s \o t) = Each(f, s) \o Each(f, t)
    OBVIOUS
  <1> DEFINE T == {t \in Seq(A) : Each(f, s \o t) = Each(f, s) \o Each(f, t)}
  <1>1. Each(f, s) \in Seq(B)
    BY EachType
  <1>2. <<>> \in T
    <2>1. s \o <<>> = s /\ Each(f, s) \o <<>> = Each(f, s) /\ <<>> \in Seq(A)
      BY <1>1
    <2>2. QED
      BY <2>1, EachEmpty
  <1>3. ASSUME NEW t \in Seq(A), NEW e \in A, t \in T PROVE Append(t, e) \in T
    <2>1. s \o Append(t, e) = Append(s \o t, e) /\ s \o t \in Seq(A) /\ Append(t, e) \in Seq(A)
      OBVIOUS
    <2>2. Each(f, Append(s \o t, e)) = Append(Each(f, s \o t), f[e])
      <3> DEFINE r == s \o t
      <3>1. r \in Seq(A)
        BY <2>1
      <3> HIDE DEF r
      <3>2. Each(f, Append(r, e)) = Append(Each(f, r), f[e])
        BY <3>1, EachAppend
      <3>3. QED
        BY <3>2 DEF r
    <2>3. Each(f, Append(t, e)) = Append(Each(f, t), f[e]) /\ Each(f, t) \in Seq(B)
      BY EachAppend, EachType
    <2>4. Each(f, s) \o Append(Each(f, t), f[e]) = Append(Each(f, s) \o Each(f, t), f[e])
      <3>1. f[e] \in B
        BY DEF Maps
      <3>2. QED
        BY <1>1, <2>3, <3>1
    <2>5. Each(f, s \o t) = Each(f, s) \o Each(f, t)
      BY <1>3
    <2>6. QED
      BY <2>1, <2>2, <2>3, <2>4, <2>5
  <1> HIDE DEF T
  <1>4. Seq(A) \subseteq T
    BY <1>2, <1>3, AllSequences
  <1>5. QED
    BY <1>4 DEF T

\* What f makes of each element of each sequence in s.
EachOfEach(f, s) == [i \in 1..Len(s) |-> Each(f, s[i])]

LEMMA EachOfEachFacts ==
    \A f, A, B : Maps(f, A, B) => \A s \in Seq(Seq(A)), e \in Seq(A) :
        /\ EachOfEach(f, s) \in Seq(Seq(B))
        /\ EachOfEach(f, <<>>) = <<>>
        /\ EachOfEach(f, Append(s, e)) = Append(EachOfEach(f, s), Each(f, e))
  <1> SUFFICES ASSUME NEW f, NEW A, NEW B, Maps(f, A, B), NEW s \in Seq(Seq(A)), NEW e \in Seq(A)
               PROVE  /\ EachOfEach(f, s) \in Seq(Seq(B))
                      /\ EachOfEach(f, <<>>) = <<>>
                      /\ EachOfEach(f, Append(s, e)) = Append(EachOfEach(f, s), Each(f, e))
    OBVIOUS
  <1> DEFINE g == [r \in Seq(A) |-> Each(f, r)]
  <1>1. Maps(g, Seq(A), Seq(B))
    BY EachType DEF Maps
  <1>2. \A r \in Seq(Seq(A)) : EachOfEach(f, r) = Each(g, r)
    <2> SUFFICES ASSUME NEW r \in Seq(Seq(A)) PROVE EachOfEach(f, r) = Each(g, r)
      OBVIOUS
    <2>1. \A i \in 1..Len(r) : r[i] \in Seq(A)
      OBVIOUS
    <2>2. QED
      BY <2>1 DEF EachOfEach, Each
  <1>3. g[e] = Each(f, e)
    OBVIOUS
  <1> HIDE DEF g
  <1>4. Append(s, e) \in Seq(Seq(A)) /\ <<>> \in Seq(Seq(A))
    OBVIOUS
  <1>5. Each(g, s) \in Seq(Seq(B)) /\ Each(g, <<>>) = <<>>
        /\ Each(g, Append(s, e)) = Append(Each(g, s), g[e])
    BY <1>1, EachType, EachEmpty, EachAppend
  <1>6. QED
    BY <1>2, <1>3, <1>4, <1>5

LEMMA EachFlatten ==
    \A f, A, B : Maps(f, A, B) => \A s \in Seq(Seq(A)) :
        Each(f, FlattenSeq(s)) = FlattenSeq(EachOfEach(f, s))
  <1> SUFFICES ASSUME NEW f, NEW A, NEW B, Maps(f, A, B)
               PROVE  \A s \in Seq(Seq(A)) :
                        Each(f, FlattenSeq(s)) = FlattenSeq(EachOfEach(f, s))
    OBVIOUS
  <1> DEFINE T == {s \in Seq(Seq(A)) : Each(f, FlattenSeq(s)) = FlattenSeq(EachOfEach(f, s))}
  <1>1. <<>> \in T
    <2>1. <<>> \in Seq(Seq(A)) /\ <<>> \in Seq(A)
      OBVIOUS
    <2>2. EachOfEach(f, <<>>) = <<>>
      BY <2>1, EachOfEachFacts
    <2>3. QED
      BY <2>1, <2>2, FlattenEmpty, EachEmpty
  <1>2. ASSUME NEW s \in Seq(Seq(A)), NEW e \in Seq(A), s \in T PROVE Append(s, e) \in T
    <2>1. FlattenSeq(Append(s, e)) = FlattenSeq(s) \o e /\ FlattenSeq(s) \in Seq(A)
      BY FlattenAppend, FlattenType
    <2>2. Each(f, FlattenSeq(s) \o e) = Each(f, FlattenSeq(s)) \o Each(f, e)
      BY <2>1, EachConcat
    <2>3. /\ EachOfEach(f, Append(s, e)) = Append(EachOfEach(f, s), Each(f, e))
          /\ EachOfEach(f, s) \in Seq(Seq(B)) /\ Each(f, e) \in Seq(B)
      BY EachOfEachFacts, EachType
    <2>4. FlattenSeq(Append(EachOfEach(f, s), Each(f, e)))
            = FlattenSeq(EachOfEach(f, s)) \o Each(f, e)
      <3> DEFINE r == EachOfEach(f, s)
                 q == Each(f, e)
      <3> HIDE DEF r, q
      <3>1. FlattenSeq(Append(r, q)) = FlattenSeq(r) \o q
        BY <2>3, FlattenAppend DEF r, q
      <3>2. QED
        BY <3>1 DEF r, q
    <2>5. Append(s, e) \in Seq(Seq(A))
      OBVIOUS
    <2>6. Each(f, FlattenSeq(s)) = FlattenSeq(EachOfEach(f, s))
      BY <1>2
    <2>7. QED
      BY <2>1, <2>2, <2>3, <2>4, <2>5, <2>6
  <1> HIDE DEF T
  <1>3. Seq(Seq(A)) \subseteq T
    BY <1>1, <1>2, AllSequences
  <1>4. QED
    BY <1>3 DEF T

LEMMA ConcatEntries ==
    \A M : \A s, t \in Seq(M) : Entries(s \o t) = Entries(s) \cup Entries(t)
  <1> SUFFICES ASSUME NEW M, NEW s \in Seq(M)
               PROVE  \A t \in Seq(M) : Entries(s \o t) = Entries(s) \cup Entries(t)
    OBVIOUS
  <1> DEFINE T == {t \in Seq(M) : Entries(s \o t) = Entries(s) \cup Entries(t)}
  <1>1. <<>> \in T
    <2>1. s \o <<>> = s /\ <<>> \in Seq(M) /\ Entries(<<>>) = {}
      BY DEF Entries
    <2>2. QED
      BY <2>1
  <1>2. ASSUME NEW t \in Seq(M), NEW e \in M, t \in T PROVE Append(t, e) \in T
    <2>1. s \o Append(t, e) = Append(s \o t, e) /\ s \o t \in Seq(M) /\ Append(t, e) \in Seq(M)
      OBVIOUS
    <2>2. Entries(Append(s \o t, e)) = Entries(s \o t) \cup {e}
      <3> DEFINE r == s \o t
      <3>1. r \in Seq(M)
        BY <2>1
      <3> HIDE DEF r
      <3>2. Entries(Append(r, e)) = Entries(r) \cup {e}
        BY <3>1, AppendEntries
      <3>3. QED
        BY <3>2 DEF r
    <2>3. Entries(Append(t, e)) = Entries(t) \cup {e}
      BY AppendEntries
    <2>4. Entries(s \o t) = Entries(s) \cup Entries(t)
      BY <1>2
    <2>5. QED
      BY <2>1, <2>2, <2>3, <2>4
  <1> HIDE DEF T
  <1>3. Seq(M) \subseteq T
    BY <1>1, <1>2, AllSequences
  <1>4. QED
    BY <1>3 DEF T

\* What is flattened has the elements of all the pieces.
LEMMA FlattenEntries ==
    \A M : \A s \in Seq(Seq(M)) :
        Entries(FlattenSeq(s)) = UNION {Entries(s[i]) : i \in 1..Len(s)}
  <1> SUFFICES ASSUME NEW M
               PROVE  \A s \in Seq(Seq(M)) :
                        Entries(FlattenSeq(s)) = UNION {Entries(s[i]) : i \in 1..Len(s)}
    OBVIOUS
  <1> DEFINE T == {s \in Seq(Seq(M)) :
                     Entries(FlattenSeq(s)) = UNION {Entries(s[i]) : i \in 1..Len(s)}}
  <1>1. <<>> \in T
    <2>1. <<>> \in Seq(Seq(M)) /\ Entries(<<>>) = {} /\ Len(<<>>) = 0
      BY DEF Entries
    <2>2. QED
      BY <2>1, FlattenEmpty
  <1>2. ASSUME NEW s \in Seq(Seq(M)), NEW e \in Seq(M), s \in T PROVE Append(s, e) \in T
    <2>1. FlattenSeq(Append(s, e)) = FlattenSeq(s) \o e /\ FlattenSeq(s) \in Seq(M)
      BY FlattenAppend, FlattenType
    <2>2. Entries(FlattenSeq(s) \o e) = Entries(FlattenSeq(s)) \cup Entries(e)
      BY <2>1, ConcatEntries
    <2>3. Entries(FlattenSeq(s)) = UNION {Entries(s[i]) : i \in 1..Len(s)}
      BY <1>2
    <2> DEFINE t == Append(s, e)
               l == Len(s)
    <2>4. /\ t \in Seq(Seq(M)) /\ Len(t) = l + 1 /\ t[l + 1] = e /\ l \in Nat
          /\ \A i \in 1..l : t[i] = s[i]
      OBVIOUS
    <2> HIDE DEF t, l
    <2>5. UNION {Entries(t[i]) : i \in 1..(l + 1)}
            = (UNION {Entries(s[i]) : i \in 1..l}) \cup Entries(e)
      <3>1. 1..(l + 1) = 1..l \cup {l + 1}
        BY <2>4
      <3>2. \A x : (\E i \in 1..(l + 1) : x \in Entries(t[i]))
                     <=> (\E i \in 1..l : x \in Entries(s[i])) \/ x \in Entries(e)
        BY <2>4, <3>1
      <3>3. QED
        BY <3>2
    <2>6. QED
      BY <2>1, <2>2, <2>3, <2>4, <2>5 DEF t, l
  <1> HIDE DEF T
  <1>3. Seq(Seq(M)) \subseteq T
    BY <1>1, <1>2, AllSequences
  <1>4. QED
    BY <1>3 DEF T

\* Pieces of at most one element each, which knows the position of its piece.
Optional(s, M) ==
    \A i \in 1..Len(s) : s[i] = <<>> \/ \E c \in M : s[i] = <<c>> /\ c.field = i

InFieldOrder(r, s) ==
    /\ \A k \in 1..Len(r) : r[k].field \in 1..Len(s) /\ s[r[k].field] = <<r[k]>>
    /\ \A i \in 1..Len(s) : s[i] # <<>> => \E k \in 1..Len(r) : r[k].field = i
    /\ \A k, l \in 1..Len(r) : k < l => r[k].field < r[l].field

LEMMA FlattenOptional ==
    \A M : \A s \in Seq(Seq(M)) : Optional(s, M) => InFieldOrder(FlattenSeq(s), s)
  <1> SUFFICES ASSUME NEW M
               PROVE  \A s \in Seq(Seq(M)) : Optional(s, M) => InFieldOrder(FlattenSeq(s), s)
    OBVIOUS
  <1> DEFINE T == {s \in Seq(Seq(M)) : Optional(s, M) => InFieldOrder(FlattenSeq(s), s)}
  <1>1. <<>> \in T
    <2>1. <<>> \in Seq(Seq(M)) /\ Len(<<>>) = 0
      OBVIOUS
    <2>2. InFieldOrder(<<>>, <<>>)
      BY <2>1 DEF InFieldOrder
    <2>3. QED
      BY <2>1, <2>2, FlattenEmpty
  <1>2. ASSUME NEW s \in Seq(Seq(M)), NEW e \in Seq(M), s \in T PROVE Append(s, e) \in T
    <2> DEFINE t == Append(s, e)
               l == Len(s)
               r == FlattenSeq(s)
    <2>1. /\ t \in Seq(Seq(M)) /\ Len(t) = l + 1 /\ t[l + 1] = e /\ l \in Nat
          /\ \A i \in 1..l : t[i] = s[i]
      OBVIOUS
    <2>2. FlattenSeq(t) = r \o e /\ r \in Seq(M)
      BY FlattenAppend, FlattenType
    <2> SUFFICES ASSUME Optional(t, M) PROVE InFieldOrder(FlattenSeq(t), t)
      BY <2>1
    <2>3. Optional(s, M) => InFieldOrder(r, s)
      BY <1>2
    <2> HIDE DEF t
    <2>4. Optional(s, M)
      <3>1. \A i \in 1..l : i \in 1..(l + 1)
        BY <2>1
      <3>2. QED
        BY <2>1, <3>1 DEF Optional
    <2> HIDE DEF r
    <2>5. l + 1 \in 1..(l + 1)
      BY <2>1
    <2> HIDE DEF l
    <2>6. e = <<>> \/ \E c \in M : e = <<c>> /\ c.field = l + 1
      BY <2>1, <2>5 DEF Optional
    <2>7. /\ \A k \in 1..Len(r) : r[k].field \in 1..l /\ s[r[k].field] = <<r[k]>>
          /\ \A i \in 1..l : s[i] # <<>> => \E k \in 1..Len(r) : r[k].field = i
          /\ \A k, j \in 1..Len(r) : k < j => r[k].field < r[j].field
      BY <2>3, <2>4 DEF InFieldOrder, l
    <2>8. CASE e = <<>>
      <3>1. FlattenSeq(t) = r
        BY <2>2, <2>8
      <3>2. \A k \in 1..Len(r) : r[k].field \in 1..(l + 1) /\ t[r[k].field] = <<r[k]>>
        <4>1. \A i \in 1..l : i \in 1..(l + 1)
          BY <2>1
        <4>2. QED
          BY <2>1, <2>7, <4>1
      <3>3. ASSUME NEW i \in 1..(l + 1), t[i] # <<>> PROVE \E k \in 1..Len(r) : r[k].field = i
        <4>1. i \in 1..l
          BY <2>1, <2>8, <3>3
        <4>2. QED
          BY <2>1, <2>7, <3>3, <4>1
      <3>4. QED
        BY <2>1, <2>7, <3>1, <3>2, <3>3 DEF InFieldOrder
    <2>9. ASSUME NEW c \in M, e = <<c>>, c.field = l + 1 PROVE InFieldOrder(FlattenSeq(t), t)
      <3> DEFINE q == Append(r, c)
                 m == Len(r)
      <3>1. FlattenSeq(t) = q
        BY <2>2, <2>9
      <3>2. /\ Len(q) = m + 1 /\ q[m + 1] = c /\ m \in Nat
            /\ \A k \in 1..m : q[k] = r[k]
        BY <2>2
      <3> HIDE DEF q, m
      <3>7. /\ \A k \in 1..m : r[k].field \in 1..l /\ s[r[k].field] = <<r[k]>>
            /\ \A i \in 1..l : s[i] # <<>> => \E k \in 1..m : r[k].field = i
            /\ \A k, j \in 1..m : k < j => r[k].field < r[j].field
        BY <2>7 DEF m
      <3>3. ASSUME NEW k \in 1..(m + 1)
            PROVE  q[k].field \in 1..(l + 1) /\ t[q[k].field] = <<q[k]>>
        <4>1. CASE k = m + 1
          BY <2>1, <2>5, <2>9, <3>2, <4>1
        <4>2. CASE k # m + 1
          <5>1. k \in 1..m
            BY <3>2, <4>2
          <5>2. q[k] = r[k] /\ r[k].field \in 1..l /\ s[r[k].field] = <<r[k]>>
            BY <3>2, <3>7, <5>1
          <5>3. QED
            BY <2>1, <5>2
        <4>3. QED
          BY <4>1, <4>2
      <3>4. ASSUME NEW i \in 1..(l + 1), t[i] # <<>> PROVE \E k \in 1..(m + 1) : q[k].field = i
        <4>1. CASE i = l + 1
          <5>1. m + 1 \in 1..(m + 1)
            BY <3>2
          <5>2. QED
            BY <2>9, <3>2, <4>1, <5>1
        <4>2. CASE i # l + 1
          <5>1. i \in 1..l
            BY <2>1, <4>2
          <5>2. PICK k \in 1..m : r[k].field = i
            BY <2>1, <3>4, <3>7, <5>1
          <5>3. k \in 1..(m + 1) /\ q[k] = r[k]
            BY <3>2
          <5>4. QED
            BY <5>2, <5>3
        <4>3. QED
          BY <4>1, <4>2
      <3>5. ASSUME NEW k \in 1..(m + 1), NEW j \in 1..(m + 1), k < j PROVE q[k].field < q[j].field
        <4>1. k \in 1..m /\ q[k] = r[k] /\ r[k].field \in 1..l
          BY <3>2, <3>5, <3>7
        <4>2. CASE j = m + 1
          BY <2>1, <2>9, <3>2, <4>1, <4>2
        <4>3. CASE j # m + 1
          <5>1. j \in 1..m /\ q[j] = r[j]
            BY <3>2, <4>3
          <5>2. QED
            BY <3>5, <3>7, <4>1, <5>1
        <4>4. QED
          BY <4>2, <4>3
      <3>6. QED
        BY <2>1, <3>1, <3>2, <3>3, <3>4, <3>5 DEF InFieldOrder
    <2>10. QED
      BY <2>6, <2>8, <2>9
  <1> HIDE DEF T
  <1>3. Seq(Seq(M)) \subseteq T
    BY <1>1, <1>2, AllSequences
  <1>4. QED
    BY <1>3 DEF T

-----------------------------------------------------------------------------
(* The attributes of a field.                                              *)

Reasons ==
    {"#[composite] on a field", "malformed arguments", "unsupported child attribute",
     "duplicate path", "path must be a string literal", "path must be non-empty",
     "duplicate lift or extract", "missing path", "missing lift", "missing extract",
     "#[child] on a struct", "unsupported composite attribute", "duplicate message",
     "expected type", "missing message", "unsupported data", "duplicate helper name",
     "duplicate child path"}

Errors == [site : Nat, what : Reasons]

FieldStates ==
    [sawChild : BOOLEAN, sawPath : BOOLEAN, path : SUBSET STRING, lift : SUBSET STRING,
     extract : SUBSET STRING, errors : Seq(Errors)]

AllAt(list, site) == \A i \in 1..Len(list) : list[i].site = site

LEMMA ReportFacts ==
    ASSUME NEW state \in FieldStates, NEW site \in Nat, AllAt(state.errors, site),
           NEW what \in Reasons
    PROVE  LET s == Report(state, site, what)
           IN  /\ s \in FieldStates /\ AllAt(s.errors, site)
               /\ s.errors # <<>> /\ s.sawChild = state.sawChild
  <1> DEFINE e == Error(site, what)
             t == Append(state.errors, e)
  <1>1. e \in Errors /\ e.site = site
    BY DEF Error, Errors
  <1>2. state.errors \in Seq(Errors)
    BY DEF FieldStates
  <1>3. t \in Seq(Errors) /\ t # <<>> /\ AllAt(t, site)
    <2> DEFINE old == state.errors
    <2>0. old \in Seq(Errors) /\ AllAt(old, site)
      BY <1>2
    <2> HIDE DEF old, e
    <2>1. Append(old, e) \in Seq(Errors) /\ Append(old, e) # <<>>
          /\ Len(Append(old, e)) = Len(old) + 1 /\ Len(old) \in Nat
      BY <1>1, <2>0
    <2>2. \A i \in 1..(Len(old) + 1) :
            (Append(old, e)[i] = e) \/ (i \in 1..Len(old) /\ Append(old, e)[i] = old[i])
      BY <1>1, <2>0
    <2>3. t = Append(old, e)
      BY DEF old
    <2> HIDE DEF t
    <2>4. QED
      BY <1>1, <2>0, <2>1, <2>2, <2>3 DEF AllAt
  <1> HIDE DEF t
  <1>4. [state EXCEPT !.errors = t] \in FieldStates
    BY <1>3 DEF FieldStates
  <1>5. QED
    BY <1>3, <1>4 DEF t, e, Report, FieldStates

Slots == {"path", "lift", "extract"}

GoodMeta(meta) ==
    /\ meta.form = "NameValue" /\ meta.name \in Slots
    /\ meta.name = "path" => meta.value.literal = "Str" /\ meta.value.text # ""

GoodMetas(metas) ==
    /\ \A i \in 1..Len(metas) : GoodMeta(metas[i])
    /\ \A i, j \in 1..Len(metas) : metas[i].name = metas[j].name => i = j

Texts(metas, name) == {metas[i].value.text : i \in {k \in 1..Len(metas) : metas[k].name = name}}

LEMMA TextsAppend ==
    ASSUME NEW metas \in Seq(Metas), NEW meta \in Metas, NEW name
    PROVE  Texts(Append(metas, meta), name)
             = IF meta.name = name THEN Texts(metas, name) \cup {meta.value.text}
               ELSE Texts(metas, name)
  <1> DEFINE t == Append(metas, meta)
             l == Len(metas)
  <1>1. /\ Len(t) = l + 1 /\ t[l + 1] = meta /\ l \in Nat /\ \A i \in 1..l : t[i] = metas[i]
        /\ 1..(l + 1) = 1..l \cup {l + 1} /\ l + 1 \notin 1..l
    OBVIOUS
  <1> HIDE DEF t, l
  <1>2. \A x : x \in Texts(t, name)
          <=> \E i \in 1..(l + 1) : t[i].name = name /\ x = t[i].value.text
    BY <1>1 DEF Texts
  <1>3. \A x : x \in Texts(metas, name)
                 <=> \E i \in 1..l : metas[i].name = name /\ x = metas[i].value.text
    BY DEF Texts, l
  <1>4. CASE meta.name = name
    <2>1. \A x : x \in Texts(t, name) <=> x \in Texts(metas, name) \/ x = meta.value.text
      BY <1>1, <1>2, <1>3, <1>4
    <2>2. Texts(t, name) = Texts(metas, name) \cup {meta.value.text}
      BY <2>1
    <2>3. QED
      BY <1>4, <2>2 DEF t
  <1>5. CASE meta.name # name
    <2>1. \A x : x \in Texts(t, name) <=> x \in Texts(metas, name)
      BY <1>1, <1>2, <1>3, <1>5
    <2>2. Texts(t, name) = Texts(metas, name)
      BY <2>1
    <2>3. QED
      BY <1>5, <2>2 DEF t
  <1>6. QED
    BY <1>4, <1>5

LEMMA GoodMetasAppend ==
    ASSUME NEW metas \in Seq(Metas), NEW meta \in Metas
    PROVE  GoodMetas(Append(metas, meta))
             <=> GoodMetas(metas) /\ GoodMeta(meta) /\ Texts(metas, meta.name) = {}
  <1> DEFINE t == Append(metas, meta)
             l == Len(metas)
  <1>1. /\ Len(t) = l + 1 /\ t[l + 1] = meta /\ l \in Nat /\ \A i \in 1..l : t[i] = metas[i]
        /\ 1..(l + 1) = 1..l \cup {l + 1} /\ l + 1 \notin 1..l
    OBVIOUS
  <1> HIDE DEF t
  <1>2. Texts(metas, meta.name) = {} <=> \A i \in 1..l : metas[i].name # meta.name
    BY DEF Texts
  <1> HIDE DEF l
  <1>3. GoodMetas(metas) <=> /\ \A i \in 1..l : GoodMeta(metas[i])
                             /\ \A i, j \in 1..l : metas[i].name = metas[j].name => i = j
    BY DEF GoodMetas, l
  <1>4. GoodMetas(t) <=> /\ \A i \in 1..(l + 1) : GoodMeta(t[i])
                         /\ \A i, j \in 1..(l + 1) : t[i].name = t[j].name => i = j
    BY <1>1 DEF GoodMetas
  <1>5. (\A i \in 1..(l + 1) : GoodMeta(t[i]))
          <=> (\A i \in 1..l : GoodMeta(metas[i])) /\ GoodMeta(meta)
    BY <1>1
  <1>6. (\A i, j \in 1..(l + 1) : t[i].name = t[j].name => i = j)
          <=> /\ \A i, j \in 1..l : metas[i].name = metas[j].name => i = j
              /\ \A i \in 1..l : metas[i].name # meta.name
    BY <1>1
  <1>7. QED
    BY <1>2, <1>3, <1>4, <1>5, <1>6 DEF t

\* What the walk through a field's attributes has come to after some metas, and whether
\* everything else was clean: it has an error exactly when there is something wrong,
\* and otherwise the slots have the values that were given.
Walked(site, clean, metas, state) ==
    /\ state \in FieldStates /\ AllAt(state.errors, site)
    /\ state.errors = <<>> <=> clean /\ GoodMetas(metas)
    /\ state.errors = <<>> => /\ state.path = Texts(metas, "path")
                              /\ state.lift = Texts(metas, "lift")
                              /\ state.extract = Texts(metas, "extract")
                              /\ state.sawPath <=> state.path # {}

LEMMA ChildMetaWalks ==
    ASSUME NEW site \in Nat, NEW clean \in BOOLEAN, NEW metas \in Seq(Metas), NEW state,
           Walked(site, clean, metas, state), NEW meta \in Metas
    PROVE  LET s == ChildMeta(state, site, meta)
           IN  Walked(site, clean, Append(metas, meta), s) /\ s.sawChild = state.sawChild
  <1> DEFINE s == ChildMeta(state, site, meta)
             all == Append(metas, meta)
  <1> SUFFICES Walked(site, clean, all, s) /\ s.sawChild = state.sawChild
    OBVIOUS
  <1>0. /\ state \in FieldStates /\ AllAt(state.errors, site)
        /\ meta.value.text \in STRING /\ meta.value.literal \in Literals
    BY DEF Walked, Metas
  <1>1. GoodMetas(all) <=> GoodMetas(metas) /\ GoodMeta(meta) /\ Texts(metas, meta.name) = {}
    BY GoodMetasAppend
  <1> HIDE DEF all
  <1>2. ASSUME NEW what \in Reasons, NEW base \in FieldStates, base.errors = state.errors,
               base.sawChild = state.sawChild, s = Report(base, site, what),
               ~clean \/ ~GoodMetas(metas) \/ ~GoodMeta(meta) \/ Texts(metas, meta.name) # {}
        PROVE  Walked(site, clean, all, s) /\ s.sawChild = state.sawChild
    <2>0. AllAt(base.errors, site)
      BY <1>0, <1>2
    <2> HIDE DEF s
    <2>1. s \in FieldStates /\ AllAt(s.errors, site) /\ s.errors # <<>>
            /\ s.sawChild = base.sawChild
      BY <1>2, <2>0, ReportFacts
    <2>2. QED
      BY <1>1, <1>2, <2>1 DEF Walked
  <1>3. CASE meta.form = "NameValue" /\ meta.name = "path"
    <2> DEFINE base == [state EXCEPT !.sawPath = TRUE]
    <2>1. base \in FieldStates /\ base.errors = state.errors /\ base.sawChild = state.sawChild
          /\ base.path = state.path /\ base.lift = state.lift /\ base.extract = state.extract
          /\ base.sawPath = TRUE
      BY <1>0 DEF FieldStates
    <2> HIDE DEF base
    <2>2. s = SetChildPath(base, site, meta.value)
      BY <1>3 DEF ChildMeta, base
    <2>3. GoodMeta(meta) <=> meta.value.literal = "Str" /\ meta.value.text # ""
      BY <1>3 DEF GoodMeta, Slots
    <2> HIDE DEF s
    <2>4. CASE state.path # {}
      <3>1. s = Report(base, site, "duplicate path")
        BY <2>1, <2>2, <2>4 DEF SetChildPath
      <3>2. ~clean \/ ~GoodMetas(metas) \/ Texts(metas, meta.name) # {}
        BY <1>3, <2>4 DEF Walked
      <3>3. QED
        <4>1. "duplicate path" \in Reasons
          BY DEF Reasons
        <4>2. QED
          BY <1>2, <2>1, <3>1, <3>2, <4>1
    <2>5. CASE state.path = {} /\ ~GoodMeta(meta)
      <3>1. \/ s = Report(base, site, "path must be a string literal")
            \/ s = Report(base, site, "path must be non-empty")
        BY <2>1, <2>2, <2>3, <2>5 DEF SetChildPath
      <3>2. QED
        <4>1. "path must be a string literal" \in Reasons /\ "path must be non-empty" \in Reasons
          BY DEF Reasons
        <4>2. QED
          BY <1>2, <2>1, <2>5, <3>1, <4>1
    <2>6. CASE state.path = {} /\ GoodMeta(meta)
      <3>1. s = [base EXCEPT !.path = {meta.value.text}]
        BY <2>1, <2>2, <2>3, <2>6 DEF SetChildPath
      <3>2. /\ s \in FieldStates /\ s.errors = state.errors /\ s.sawChild = state.sawChild
            /\ s.path = {meta.value.text} /\ s.lift = state.lift /\ s.extract = state.extract
            /\ s.sawPath = TRUE
        BY <1>0, <2>1, <3>1 DEF FieldStates
      <3>3. /\ Texts(all, "path") = Texts(metas, "path") \cup {meta.value.text}
            /\ Texts(all, "lift") = Texts(metas, "lift")
            /\ Texts(all, "extract") = Texts(metas, "extract")
        BY <1>3, TextsAppend DEF all
      <3>4. state.errors = <<>> => Texts(metas, "path") = {}
        BY <2>6 DEF Walked
      <3>5. s.errors = <<>> <=> clean /\ GoodMetas(all)
        BY <1>1, <1>3, <2>6, <3>2, <3>4 DEF Walked
      <3>6. QED
        BY <3>2, <3>3, <3>4, <3>5 DEF Walked, all
    <2>7. QED
      BY <2>4, <2>5, <2>6 DEF s, all
  <1>4. ASSUME NEW name \in {"lift", "extract"}, meta.form = "NameValue", meta.name = name
        PROVE  Walked(site, clean, all, s) /\ s.sawChild = state.sawChild
    <2>1. s = SetChildExpr(state, site, name, meta.value)
      BY <1>4 DEF ChildMeta
    <2>2. GoodMeta(meta)
      BY <1>4 DEF GoodMeta, Slots
    <2> HIDE DEF s
    <2>3. CASE state[name] # {}
      <3>1. s = Report(state, site, "duplicate lift or extract")
        BY <2>1, <2>3 DEF SetChildExpr
      <3>2. ~clean \/ ~GoodMetas(metas) \/ Texts(metas, meta.name) # {}
        BY <1>4, <2>3 DEF Walked
      <3>3. QED
        <4>1. "duplicate lift or extract" \in Reasons
          BY DEF Reasons
        <4>2. QED
          BY <1>0, <1>2, <3>1, <3>2, <4>1
    <2>4. CASE state[name] = {}
      <3>1. s = [state EXCEPT ![name] = {meta.value.text}]
        BY <2>1, <2>4 DEF SetChildExpr
      <3>2. /\ s \in FieldStates /\ s.errors = state.errors /\ s.sawChild = state.sawChild
            /\ s.path = state.path /\ s.sawPath = state.sawPath
            /\ s.lift = IF name = "lift" THEN {meta.value.text} ELSE state.lift
            /\ s.extract = IF name = "extract" THEN {meta.value.text} ELSE state.extract
        <4>1. CASE name = "lift"
          BY <1>0, <3>1, <4>1 DEF FieldStates
        <4>2. CASE name = "extract"
          BY <1>0, <3>1, <4>2 DEF FieldStates
        <4>3. QED
          BY <1>4, <4>1, <4>2
      <3>3. /\ Texts(all, "path") = Texts(metas, "path")
            /\ Texts(all, "lift") = IF name = "lift"
                                    THEN Texts(metas, "lift") \cup {meta.value.text}
                                    ELSE Texts(metas, "lift")
            /\ Texts(all, "extract") = IF name = "extract"
                                    THEN Texts(metas, "extract") \cup {meta.value.text}
                                    ELSE Texts(metas, "extract")
        BY <1>4, TextsAppend DEF all
      <3>4. state.errors = <<>> => Texts(metas, name) = {}
        BY <1>4, <2>4 DEF Walked
      <3>5. s.errors = <<>> <=> clean /\ GoodMetas(all)
        BY <1>1, <1>4, <2>2, <3>2, <3>4 DEF Walked
      <3>6. s.errors = <<>> => /\ s.path = Texts(all, "path") /\ s.lift = Texts(all, "lift")
                               /\ s.extract = Texts(all, "extract")
                               /\ s.sawPath <=> s.path # {}
        BY <1>4, <3>2, <3>3, <3>4 DEF Walked
      <3>7. QED
        BY <1>0, <3>2, <3>5, <3>6 DEF Walked
    <2>5. QED
      BY <2>3, <2>4 DEF s
  <1>5. CASE ~(meta.form = "NameValue" /\ meta.name \in Slots)
    <2>1. s = Report(state, site, "unsupported child attribute")
      BY <1>5 DEF ChildMeta, Slots
    <2>2. ~GoodMeta(meta)
      BY <1>5 DEF GoodMeta
    <2> HIDE DEF s
    <2>3. QED
      <3>1. "unsupported child attribute" \in Reasons
        BY DEF Reasons
      <3>2. QED
        BY <1>0, <1>2, <2>1, <2>2, <3>1
  <1> HIDE DEF s
  <1>6. QED
    BY <1>3, <1>4, <1>5 DEF Slots

AllChildMetas(site, state, metas) ==
    FoldLeft(LAMBDA s, meta : ChildMeta(s, site, meta), state, metas)

LEMMA AllChildMetasIsFold ==
    \A site, state : \A metas \in Seq(Metas) :
        AllChildMetas(site, state, metas) = Walk!Fold(For("child metas", site), state, metas)
  <1> SUFFICES ASSUME NEW site, NEW state, NEW metas \in Seq(Metas)
               PROVE  AllChildMetas(site, state, metas)
                        = Walk!Fold(For("child metas", site), state, metas)
    OBVIOUS
  <1> DEFINE l == Len(metas)
             Of(g, d) == IF d = {} THEN state ELSE ChildMeta(g[d \ {Max(d)}], site, metas[Max(d)])
             f == CHOOSE g : g = [d \in SUBSET (DOMAIN metas) |-> Of(g, d)]
  <1>1. AllChildMetas(site, state, metas) = f[DOMAIN metas]
    BY DEF AllChildMetas, FoldLeft, MapThenFoldSet
  <1>2. DOMAIN metas = 1..l
    OBVIOUS
  <1>3. \A g, d : Walk!FoldOf(For("child metas", site), state, metas, g, d) = Of(g, d)
    <2>1. \A x, e : WalkStep(For("child metas", site), x, e) = ChildMeta(x, site, e)
      BY StepOfChildMetas
    <2>2. QED
      BY <2>1 DEF Walk!FoldOf, Walk!Max, Max
  <1> HIDE DEF Of
  <1>4. \A g : Walk!IsFolds(g, For("child metas", site), state, metas, l)
                 <=> g = [d \in SUBSET (1..l) |-> Of(g, d)]
    BY <1>3 DEF Walk!IsFolds
  <1>5. (\E g : Walk!IsFolds(g, For("child metas", site), state, metas, l))
          => Walk!IsFolds(f, For("child metas", site), state, metas, l)
    BY <1>2, <1>4
  <1> HIDE DEF f
  <1>6. QED
    BY <1>1, <1>2, <1>5, Walk!FoldIs

LEMMA ChildMetasWalk ==
    ASSUME NEW site \in Nat, NEW clean \in BOOLEAN, NEW metas \in Seq(Metas), NEW state,
           Walked(site, clean, metas, state)
    PROVE  \A rest \in Seq(Metas) :
             LET s == AllChildMetas(site, state, rest)
             IN  Walked(site, clean, metas \o rest, s) /\ s.sawChild = state.sawChild
  <1> DEFINE After(rest) == AllChildMetas(site, state, rest)
             T == {rest \in Seq(Metas) : /\ Walked(site, clean, metas \o rest, After(rest))
                                         /\ After(rest).sawChild = state.sawChild}
  <1>1. After(<<>>) = state
    <2> DEFINE w == For("child metas", site)
               M == Metas
    <2>1. <<>> \in Seq(M)
      OBVIOUS
    <2>2. After(<<>>) = Walk!Fold(w, state, <<>>)
      BY <2>1, AllChildMetasIsFold DEF w, M
    <2> HIDE DEF w, M
    <2>3. QED
      BY <2>2, Walk!FoldEmpty
  <1>2. ASSUME NEW rest \in Seq(Metas), NEW meta \in Metas
        PROVE  After(Append(rest, meta)) = ChildMeta(After(rest), site, meta)
    <2> DEFINE w == For("child metas", site)
               M == Metas
    <2>1. rest \in Seq(M) /\ meta \in M
      OBVIOUS
    <2> HIDE DEF w, M
    <2>2. Append(rest, meta) \in Seq(M)
      BY <2>1
    <2>3. Walk!Fold(w, state, Append(rest, meta)) = WalkStep(w, Walk!Fold(w, state, rest), meta)
      BY <2>1, Walk!FoldAppend
    <2>4. /\ After(rest) = Walk!Fold(w, state, rest)
          /\ After(Append(rest, meta)) = Walk!Fold(w, state, Append(rest, meta))
      BY <2>1, <2>2, AllChildMetasIsFold DEF w, M
    <2>5. \A x, y : WalkStep(w, x, y) = ChildMeta(x, site, y)
      BY StepOfChildMetas DEF w
    <2> HIDE DEF After
    <2>6. QED
      BY <2>3, <2>4, <2>5
  <1> HIDE DEF After
  <1>3. <<>> \in T
    <2>1. metas \o <<>> = metas /\ <<>> \in Seq(Metas)
      OBVIOUS
    <2>2. QED
      BY <1>1, <2>1
  <1>4. ASSUME NEW rest \in Seq(Metas), NEW meta \in Metas, rest \in T
        PROVE  Append(rest, meta) \in T
    <2> DEFINE all == metas \o rest
               before == After(rest)
    <2>1. /\ all \in Seq(Metas) /\ metas \o Append(rest, meta) = Append(all, meta)
          /\ Append(rest, meta) \in Seq(Metas)
      OBVIOUS
    <2>2. Walked(site, clean, all, before) /\ before.sawChild = state.sawChild
      BY <1>4
    <2> HIDE DEF all, before
    <2>3. LET s == ChildMeta(before, site, meta)
          IN  Walked(site, clean, Append(all, meta), s) /\ s.sawChild = before.sawChild
      BY <2>1, <2>2, ChildMetaWalks
    <2>4. After(Append(rest, meta)) = ChildMeta(before, site, meta)
      BY <1>2 DEF before
    <2>5. QED
      BY <2>1, <2>2, <2>3, <2>4
  <1> HIDE DEF T
  <1>5. Seq(Metas) \subseteq T
    BY <1>3, <1>4, AllSequences
  <1>6. QED
    BY <1>5 DEF T, After

LEMMA MetasOfAppend ==
    ASSUME NEW attrs \in Seq(Attributes), NEW attr \in Attributes, NEW name
    PROVE  /\ MetasOf(attrs, name) \in Seq(Metas)
           /\ MetasOf(Append(attrs, attr), name)
                = MetasOf(attrs, name) \o (IF attr.name = name THEN attr.metas ELSE <<>>)
  <1> DEFINE piece(a) == IF a.name = name THEN a.metas ELSE <<>>
             pieces(s) == [i \in 1..Len(s) |-> piece(s[i])]
             t == Append(attrs, attr)
             l == Len(attrs)
             e == piece(attr)
  <1>1. \A a \in Attributes : piece(a) \in Seq(Metas)
    BY DEF Attributes
  <1>2. /\ t \in Seq(Attributes) /\ Len(t) = l + 1 /\ t[l + 1] = attr /\ l \in Nat
        /\ \A i \in 1..l : t[i] = attrs[i] /\ attrs[i] \in Attributes
    OBVIOUS
  <1>3. e \in Seq(Metas)
    BY <1>1
  <1>4. MetasOf(attrs, name) = FlattenSeq(pieces(attrs)) /\ MetasOf(t, name) = FlattenSeq(pieces(t))
    BY DEF MetasOf
  <1> DEFINE p == pieces(attrs)
  <1>5. p \in [1..l -> Seq(Metas)]
    BY <1>1, <1>2
  <1>6. \A i \in 1..l : p[i] = piece(attrs[i])
    OBVIOUS
  <1>7. pieces(t) = [i \in 1..(l + 1) |-> piece(t[i])]
    BY <1>2
  <1> HIDE DEF p, t, piece
  <1>8. p \in Seq(Seq(Metas)) /\ Len(p) = l
    BY <1>2, <1>5
  <1>9. [i \in 1..(l + 1) |-> piece(t[i])] = Append(p, e)
    <2> DEFINE q == [i \in 1..(l + 1) |-> piece(t[i])]
               r == Append(p, e)
    <2>1. q \in Seq(Seq(Metas)) /\ Len(q) = l + 1
      <3>1. q \in [1..(l + 1) -> Seq(Metas)]
        <4>1. \A i \in 1..(l + 1) : t[i] \in Attributes
          BY <1>2
        <4>2. QED
          BY <1>1, <4>1
      <3> HIDE DEF q
      <3>2. QED
        BY <1>2, <3>1
    <2>2. r \in Seq(Seq(Metas)) /\ Len(r) = l + 1
          /\ \A i \in 1..(l + 1) : r[i] = IF i = l + 1 THEN e ELSE p[i]
      BY <1>2, <1>3, <1>8
    <2>3. \A i \in 1..(l + 1) : q[i] = IF i = l + 1 THEN e ELSE p[i]
      BY <1>2, <1>6
    <2> HIDE DEF q, r
    <2>4. \A i \in 1..(l + 1) : q[i] = r[i]
      BY <2>2, <2>3
    <2>5. q = r
      BY <2>1, <2>2, <2>4
    <2>6. QED
      BY <2>5 DEF q, r
  <1>10. FlattenSeq(p) \in Seq(Metas) /\ FlattenSeq(Append(p, e)) = FlattenSeq(p) \o e
    BY <1>3, <1>8, FlattenType, FlattenAppend
  <1>11. QED
    BY <1>4, <1>7, <1>9, <1>10 DEF p, t, e, piece

LEMMA MetasOfEmpty == \A name : MetasOf(<<>>, name) = <<>>
  <1> SUFFICES ASSUME NEW name PROVE MetasOf(<<>>, name) = <<>>
    OBVIOUS
  <1> DEFINE p == [i \in 1..Len(<<>>) |-> IF <<>>[i].name = name THEN <<>>[i].metas ELSE <<>>]
  <1>1. p = <<>>
    OBVIOUS
  <1>2. MetasOf(<<>>, name) = FlattenSeq(p)
    BY DEF MetasOf
  <1> HIDE DEF p
  <1>3. QED
    BY <1>1, <1>2, FlattenEmpty

LEMMA HasAppend ==
    ASSUME NEW attrs \in Seq(Attributes), NEW attr \in Attributes, NEW name
    PROVE  /\ Has(Append(attrs, attr), name) <=> Has(attrs, name) \/ attr.name = name
           /\ Parse(Append(attrs, attr), name)
                <=> Parse(attrs, name) /\ (attr.name = name => attr.parses)
  <1> DEFINE t == Append(attrs, attr)
             l == Len(attrs)
  <1>1. /\ Len(t) = l + 1 /\ t[l + 1] = attr /\ l \in Nat /\ \A i \in 1..l : t[i] = attrs[i]
        /\ 1..(l + 1) = 1..l \cup {l + 1}
    OBVIOUS
  <1> HIDE DEF t, l
  <1>2. Has(t, name) <=> Has(attrs, name) \/ attr.name = name
    BY <1>1 DEF Has, l
  <1>3. Parse(t, name) <=> Parse(attrs, name) /\ (attr.name = name => attr.parses)
    BY <1>1 DEF Parse, l
  <1>4. QED
    BY <1>2, <1>3 DEF t

\* The walk after some attributes of a field.
Clean(attrs) == ~Has(attrs, "composite") /\ Parse(attrs, "child")

FieldWalked(site, attrs, state) ==
    /\ Walked(site, Clean(attrs), MetasOf(attrs, "child"), state)
    /\ state.sawChild <=> Has(attrs, "child")

LEMMA FieldAttributeWalks ==
    ASSUME NEW site \in Nat, NEW attrs \in Seq(Attributes), NEW state,
           FieldWalked(site, attrs, state), NEW attr \in Attributes
    PROVE  FieldWalked(site, Append(attrs, attr), FieldAttribute(state, site, attr))
  <1> DEFINE all == Append(attrs, attr)
             s == FieldAttribute(state, site, attr)
             seen == [state EXCEPT !.sawChild = TRUE]
             metas == MetasOf(attrs, "child")
  <1>1. /\ Has(all, "composite") <=> Has(attrs, "composite") \/ attr.name = "composite"
        /\ Has(all, "child") <=> Has(attrs, "child") \/ attr.name = "child"
        /\ Parse(all, "child") <=> Parse(attrs, "child") /\ (attr.name = "child" => attr.parses)
    BY HasAppend
  <1>2. /\ metas \in Seq(Metas)
        /\ MetasOf(all, "child") = metas \o (IF attr.name = "child" THEN attr.metas ELSE <<>>)
    BY MetasOfAppend
  <1>3. /\ state \in FieldStates /\ AllAt(state.errors, site)
        /\ Walked(site, Clean(attrs), metas, state) /\ (state.sawChild <=> Has(attrs, "child"))
    BY DEF FieldWalked, Walked
  <1>4. Clean(attrs) \in BOOLEAN
    BY DEF Clean, Has, Parse
  <1>5. attr.metas \in Seq(Metas)
    BY DEF Attributes
  <1> HIDE DEF all, metas
  <1>6. CASE attr.name = "composite"
    <2>1. s = Report(state, site, "#[composite] on a field")
      BY <1>6 DEF FieldAttribute
    <2>2. "#[composite] on a field" \in Reasons
      BY DEF Reasons
    <2> HIDE DEF s
    <2>3. s \in FieldStates /\ AllAt(s.errors, site) /\ s.errors # <<>>
            /\ s.sawChild = state.sawChild
      BY <1>3, <2>1, <2>2, ReportFacts
    <2>4. ~Clean(all)
      BY <1>1, <1>6 DEF Clean
    <2>5. Has(all, "child") <=> Has(attrs, "child")
      BY <1>1, <1>6
    <2>6. QED
      BY <1>3, <2>3, <2>4, <2>5 DEF FieldWalked, Walked, s, all
  <1>7. CASE attr.name = "child"
    <2>1. /\ seen \in FieldStates /\ seen.errors = state.errors /\ seen.sawChild = TRUE
          /\ seen.sawPath = state.sawPath /\ seen.path = state.path
          /\ seen.lift = state.lift /\ seen.extract = state.extract
      BY <1>3 DEF FieldStates
    <2> HIDE DEF seen
    <2>2. Has(all, "child") /\ MetasOf(all, "child") = metas \o attr.metas
      BY <1>1, <1>2, <1>7
    <2>3. CASE ~attr.parses
      <3>1. s = Report(seen, site, "malformed arguments")
        BY <1>7, <2>3 DEF FieldAttribute, seen
      <3>2. "malformed arguments" \in Reasons
        BY DEF Reasons
      <3> HIDE DEF s
      <3>0. AllAt(seen.errors, site)
        BY <1>3, <2>1
      <3>3. s \in FieldStates /\ AllAt(s.errors, site) /\ s.errors # <<>>
              /\ s.sawChild = seen.sawChild
        BY <2>1, <3>0, <3>1, <3>2, ReportFacts
      <3>4. ~Clean(all)
        BY <1>1, <1>7, <2>3 DEF Clean
      <3>5. QED
        BY <2>1, <2>2, <3>3, <3>4 DEF FieldWalked, Walked, s, all
    <2>4. CASE attr.parses
      <3>1. s = AllChildMetas(site, seen, attr.metas)
        BY <1>7, <2>4 DEF FieldAttribute, AllChildMetas, seen
      <3>2. Walked(site, Clean(attrs), metas, seen)
        BY <1>3, <2>1 DEF Walked
      <3>3. Walked(site, Clean(attrs), metas \o attr.metas, s) /\ s.sawChild = seen.sawChild
        BY <1>2, <1>4, <1>5, <3>1, <3>2, ChildMetasWalk
      <3>4. Clean(all) <=> Clean(attrs)
        BY <1>1, <1>7, <2>4 DEF Clean
      <3> HIDE DEF s
      <3>6. Walked(site, Clean(all), MetasOf(all, "child"), s)
        BY <2>2, <3>3, <3>4 DEF Walked
      <3>5. QED
        BY <2>1, <2>2, <3>3, <3>6 DEF FieldWalked, s, all
    <2>5. QED
      BY <2>3, <2>4
  <1>8. CASE attr.name \notin {"child", "composite"}
    <2>1. s = state
      BY <1>8 DEF FieldAttribute
    <2>2. MetasOf(all, "child") = metas
      BY <1>2, <1>8
    <2>3. (Clean(all) <=> Clean(attrs)) /\ (Has(all, "child") <=> Has(attrs, "child"))
      BY <1>1, <1>8 DEF Clean
    <2>4. QED
      BY <1>3, <2>1, <2>2, <2>3 DEF FieldWalked, Walked, all
  <1>9. QED
    BY <1>6, <1>7, <1>8

\* What a field's attributes come to.
AllAttributes(site, attrs) ==
    FoldLeft(LAMBDA s, attr : FieldAttribute(s, site, attr), NoChild, attrs)

LEMMA AllAttributesIsFold ==
    \A site : \A attrs \in Seq(Attributes) :
        AllAttributes(site, attrs) = Walk!Fold(For("attributes", site), NoChild, attrs)
  <1> SUFFICES ASSUME NEW site, NEW attrs \in Seq(Attributes)
               PROVE  AllAttributes(site, attrs)
                        = Walk!Fold(For("attributes", site), NoChild, attrs)
    OBVIOUS
  <1> DEFINE l == Len(attrs)
             Of(g, d) == IF d = {} THEN NoChild
                         ELSE FieldAttribute(g[d \ {Max(d)}], site, attrs[Max(d)])
             f == CHOOSE g : g = [d \in SUBSET (DOMAIN attrs) |-> Of(g, d)]
  <1>1. AllAttributes(site, attrs) = f[DOMAIN attrs]
    BY DEF AllAttributes, FoldLeft, MapThenFoldSet
  <1>2. DOMAIN attrs = 1..l
    OBVIOUS
  <1>3. \A g, d : Walk!FoldOf(For("attributes", site), NoChild, attrs, g, d) = Of(g, d)
    <2>1. \A x, e : WalkStep(For("attributes", site), x, e) = FieldAttribute(x, site, e)
      BY StepOfAttributes
    <2>2. QED
      BY <2>1 DEF Walk!FoldOf, Walk!Max, Max
  <1> HIDE DEF Of
  <1>4. \A g : Walk!IsFolds(g, For("attributes", site), NoChild, attrs, l)
                 <=> g = [d \in SUBSET (1..l) |-> Of(g, d)]
    BY <1>3 DEF Walk!IsFolds
  <1>5. (\E g : Walk!IsFolds(g, For("attributes", site), NoChild, attrs, l))
          => Walk!IsFolds(f, For("attributes", site), NoChild, attrs, l)
    BY <1>2, <1>4
  <1> HIDE DEF f
  <1>6. QED
    BY <1>1, <1>2, <1>5, Walk!FoldIs

LEMMA AttributesWalk ==
    ASSUME NEW site \in Nat
    PROVE  \A attrs \in Seq(Attributes) : FieldWalked(site, attrs, AllAttributes(site, attrs))
  <1> DEFINE After(attrs) == AllAttributes(site, attrs)
             T == {attrs \in Seq(Attributes) : FieldWalked(site, attrs, After(attrs))}
  <1>1. After(<<>>) = NoChild
    <2> DEFINE w == For("attributes", site)
               M == Attributes
    <2>1. <<>> \in Seq(M)
      OBVIOUS
    <2>2. After(<<>>) = Walk!Fold(w, NoChild, <<>>)
      BY <2>1, AllAttributesIsFold DEF w, M
    <2> HIDE DEF w, M
    <2>3. QED
      BY <2>2, Walk!FoldEmpty
  <1>2. ASSUME NEW attrs \in Seq(Attributes), NEW attr \in Attributes
        PROVE  After(Append(attrs, attr)) = FieldAttribute(After(attrs), site, attr)
    <2> DEFINE w == For("attributes", site)
               M == Attributes
    <2>1. attrs \in Seq(M) /\ attr \in M
      OBVIOUS
    <2> HIDE DEF w, M
    <2>2. Append(attrs, attr) \in Seq(M)
      BY <2>1
    <2>3. Walk!Fold(w, NoChild, Append(attrs, attr))
            = WalkStep(w, Walk!Fold(w, NoChild, attrs), attr)
      BY <2>1, Walk!FoldAppend
    <2>4. /\ After(attrs) = Walk!Fold(w, NoChild, attrs)
          /\ After(Append(attrs, attr)) = Walk!Fold(w, NoChild, Append(attrs, attr))
      BY <2>1, <2>2, AllAttributesIsFold DEF w, M
    <2>5. \A x, y : WalkStep(w, x, y) = FieldAttribute(x, site, y)
      BY StepOfAttributes DEF w
    <2> HIDE DEF After
    <2>6. QED
      BY <2>3, <2>4, <2>5
  <1> HIDE DEF After
  <1>3. <<>> \in T
    <2>1. MetasOf(<<>>, "child") = <<>> /\ <<>> \in Seq(Attributes)
      BY MetasOfEmpty
    <2>2. Clean(<<>>) /\ ~Has(<<>>, "child")
      BY DEF Clean, Has, Parse
    <2>3. GoodMetas(<<>>) /\ \A name : Texts(<<>>, name) = {}
      BY DEF GoodMetas, Texts
    <2>4. /\ NoChild \in FieldStates /\ NoChild.errors = <<>> /\ ~NoChild.sawChild
          /\ ~NoChild.sawPath /\ NoChild.path = {} /\ NoChild.lift = {} /\ NoChild.extract = {}
      BY DEF NoChild, FieldStates
    <2>5. AllAt(NoChild.errors, site)
      BY <2>4 DEF AllAt
    <2>6. QED
      BY <1>1, <2>1, <2>2, <2>3, <2>4, <2>5 DEF FieldWalked, Walked
  <1>4. ASSUME NEW attrs \in Seq(Attributes), NEW attr \in Attributes, attrs \in T
        PROVE  Append(attrs, attr) \in T
    <2> DEFINE before == After(attrs)
    <2>1. Append(attrs, attr) \in Seq(Attributes) /\ FieldWalked(site, attrs, before)
      BY <1>4
    <2>2. After(Append(attrs, attr)) = FieldAttribute(before, site, attr)
      BY <1>2
    <2> HIDE DEF before
    <2>3. FieldWalked(site, Append(attrs, attr), FieldAttribute(before, site, attr))
      BY <2>1, FieldAttributeWalks
    <2>4. QED
      BY <2>1, <2>2, <2>3
  <1> HIDE DEF T
  <1>5. Seq(Attributes) \subseteq T
    BY <1>3, <1>4, AllSequences
  <1>6. QED
    BY <1>5 DEF T, After

LEMMA ThreeElements ==
    ASSUME NEW a, NEW b, NEW c, a # b, a # c, b # c
    PROVE  IsFiniteSet({a, b, c}) /\ Cardinality({a, b, c}) = 3
  <1>1. IsFiniteSet({}) /\ Cardinality({}) = 0
    BY FS_EmptySet
  <1>2. IsFiniteSet({c}) /\ Cardinality({c}) = 1
    BY FS_Singleton
  <1>3. {b} \cup {c} = {b, c} /\ {a} \cup {b, c} = {a, b, c} /\ b \notin {c} /\ a \notin {b, c}
    OBVIOUS
  <1>4. IsFiniteSet({b, c}) /\ Cardinality({b, c}) = 2
    <2>1. {c} \cup {b} = {b, c}
      OBVIOUS
    <2>2. QED
      BY <1>2, <1>3, <2>1, FS_AddElement
  <1>5. {b, c} \cup {a} = {a, b, c}
    OBVIOUS
  <1>6. QED
    BY <1>3, <1>4, <1>5, FS_AddElement

\* Metas are good, and there is one for every slot, exactly when there are three, one
\* for each slot, and the path has a value.
Filled(metas) == \A name \in Slots : Texts(metas, name) # {}

ThreeMetas(metas) ==
    /\ Len(metas) = 3
    /\ \A name \in Slots : Count(metas, name) = 1
    /\ ValueOf(metas, "path").literal = "Str" /\ ValueOf(metas, "path").text # ""

LEMMA OneOf ==
    ASSUME NEW metas \in Seq(Metas), NEW i \in 1..Len(metas),
           \A k \in 1..Len(metas) : metas[k].name = metas[i].name => k = i
    PROVE  /\ ValueOf(metas, metas[i].name) = metas[i].value
           /\ Texts(metas, metas[i].name) = {metas[i].value.text}
           /\ metas[i].form = "NameValue" => Count(metas, metas[i].name) = 1
  <1> DEFINE name == metas[i].name
  <1>1. ToSet(metas) = {metas[k] : k \in 1..Len(metas)}
    BY DEF ToSet
  <1>2. \A m \in ToSet(metas) : m.name = name => m = metas[i]
    BY <1>1
  <1>3. metas[i] \in ToSet(metas)
    BY <1>1
  <1>4. (CHOOSE m \in ToSet(metas) : m.name = name) = metas[i]
    BY <1>2, <1>3
  <1>5. {k \in 1..Len(metas) : metas[k].name = name} = {i}
    OBVIOUS
  <1>6. metas[i].form = "NameValue" =>
          {k \in 1..Len(metas) : metas[k].form = "NameValue" /\ metas[k].name = name} = {i}
    BY <1>5
  <1>7. Cardinality({i}) = 1
    BY FS_Singleton
  <1> HIDE DEF name
  <1>8. ValueOf(metas, name) = metas[i].value
    BY <1>4 DEF ValueOf
  <1>9. Texts(metas, name) = {metas[i].value.text}
    BY <1>5 DEF Texts
  <1>10. metas[i].form = "NameValue" => Count(metas, name) = 1
    BY <1>6, <1>7 DEF Count
  <1>11. QED
    BY <1>8, <1>9, <1>10 DEF name

LEMMA FilledIsThree ==
    ASSUME NEW metas \in Seq(Metas)
    PROVE  /\ GoodMetas(metas) /\ Filled(metas) <=> ThreeMetas(metas)
           /\ ThreeMetas(metas) =>
                \A name \in Slots : Texts(metas, name) = {ValueOf(metas, name).text}
  <1>1. ASSUME GoodMetas(metas), Filled(metas)
        PROVE  /\ ThreeMetas(metas)
               /\ \A name \in Slots : Texts(metas, name) = {ValueOf(metas, name).text}
    <2>1. \A name \in Slots : \E k \in 1..Len(metas) : metas[k].name = name
      BY <1>1 DEF Filled, Texts
    <2>2. PICK p \in 1..Len(metas) : metas[p].name = "path"
      BY <2>1 DEF Slots
    <2>3. PICK l \in 1..Len(metas) : metas[l].name = "lift"
      BY <2>1 DEF Slots
    <2>4. PICK e \in 1..Len(metas) : metas[e].name = "extract"
      BY <2>1 DEF Slots
    <2>5. p # l /\ p # e /\ l # e
      BY <2>2, <2>3, <2>4
    <2>6. /\ \A k \in 1..Len(metas) : GoodMeta(metas[k])
          /\ \A i, j \in 1..Len(metas) : metas[i].name = metas[j].name => i = j
      BY <1>1 DEF GoodMetas
    <2>7. 1..Len(metas) = {p, l, e}
      <3>1. \A k \in 1..Len(metas) : metas[k].name \in {"path", "lift", "extract"}
        BY <2>6 DEF GoodMeta, Slots
      <3>2. \A k \in 1..Len(metas) : k = p \/ k = l \/ k = e
        BY <2>2, <2>3, <2>4, <2>6, <3>1
      <3>3. QED
        BY <3>2
    <2>8. Len(metas) = 3
      <3>1. Cardinality({p, l, e}) = 3
        BY <2>5, ThreeElements
      <3>2. Len(metas) \in Nat /\ Cardinality(1..Len(metas)) = Len(metas)
        <4> DEFINE n == Len(metas)
        <4>1. n \in Nat
          OBVIOUS
        <4> HIDE DEF n
        <4>2. Cardinality(1..n) = IF 1 > n THEN 0 ELSE n - 1 + 1
          BY <4>1, FS_Interval
        <4>3. QED
          BY <4>1, <4>2 DEF n
      <3>3. QED
        BY <2>7, <3>1, <3>2
    <2>9. \A k \in 1..Len(metas) : /\ metas[k].form = "NameValue"
                                   /\ ValueOf(metas, metas[k].name) = metas[k].value
                                   /\ Texts(metas, metas[k].name) = {metas[k].value.text}
                                   /\ Count(metas, metas[k].name) = 1
      <3>1. \A k \in 1..Len(metas) : metas[k].form = "NameValue"
        BY <2>6 DEF GoodMeta
      <3>2. QED
        BY <2>6, <3>1, OneOf
    <2>10. metas[p].value.literal = "Str" /\ metas[p].value.text # ""
      BY <2>2, <2>6 DEF GoodMeta
    <2>11. ValueOf(metas, "path") = metas[p].value
      BY <2>2, <2>9
    <2>12. \A name \in Slots : /\ Count(metas, name) = 1
                               /\ Texts(metas, name) = {ValueOf(metas, name).text}
      BY <2>1, <2>9
    <2>13. QED
      BY <2>8, <2>10, <2>11, <2>12 DEF ThreeMetas
  <1>2. ASSUME ThreeMetas(metas) PROVE GoodMetas(metas) /\ Filled(metas)
    <2> DEFINE Named(name) == {k \in 1..Len(metas) : metas[k].form = "NameValue"
                 /\ metas[k].name = name}
    <2>1. Len(metas) = 3 /\ \A name \in Slots : Cardinality(Named(name)) = 1
      BY <1>2 DEF ThreeMetas, Count
    <2>2. \A name \in Slots : Named(name) # {}
      BY <2>1, FS_EmptySet
    <2>3. PICK p \in 1..Len(metas) : metas[p].form = "NameValue" /\ metas[p].name = "path"
      BY <2>2 DEF Slots
    <2>4. PICK l \in 1..Len(metas) : metas[l].form = "NameValue" /\ metas[l].name = "lift"
      BY <2>2 DEF Slots
    <2>5. PICK e \in 1..Len(metas) : metas[e].form = "NameValue" /\ metas[e].name = "extract"
      BY <2>2 DEF Slots
    <2>6. p # l /\ p # e /\ l # e
      BY <2>3, <2>4, <2>5
    <2>7. 1..Len(metas) = {p, l, e}
      BY <2>1, <2>6
    <2>8. \A i, j \in 1..Len(metas) : metas[i].name = metas[j].name => i = j
      BY <2>3, <2>4, <2>5, <2>7
    <2>9. ValueOf(metas, "path") = metas[p].value
      BY <2>3, <2>8, OneOf
    <2>10. \A k \in 1..Len(metas) : GoodMeta(metas[k])
      <3>1. GoodMeta(metas[p])
        BY <1>2, <2>3, <2>9 DEF ThreeMetas, GoodMeta, Slots
      <3>2. GoodMeta(metas[l]) /\ GoodMeta(metas[e])
        BY <2>4, <2>5 DEF GoodMeta, Slots
      <3>3. QED
        BY <2>7, <3>1, <3>2
    <2>11. Filled(metas)
      BY <2>3, <2>4, <2>5 DEF Filled, Texts, Slots
    <2>12. QED
      BY <2>8, <2>10, <2>11 DEF GoodMetas
  <1>3. QED
    BY <1>1, <1>2

LEMMA ConcatAt ==
    ASSUME NEW site, NEW s \in Seq(Errors), NEW t \in Seq(Errors), AllAt(s, site), AllAt(t, site)
    PROVE  s \o t \in Seq(Errors) /\ AllAt(s \o t, site) /\ (s \o t = <<>> <=> s = <<>> /\ t = <<>>)
  <1>1. /\ s \o t \in Seq(Errors) /\ Len(s \o t) = Len(s) + Len(t)
        /\ Len(s) \in Nat /\ Len(t) \in Nat
    OBVIOUS
  <1>2. \A i \in 1..(Len(s) + Len(t)) :
          (i \in 1..Len(s) /\ (s \o t)[i] = s[i])
            \/ (i - Len(s) \in 1..Len(t) /\ (s \o t)[i] = t[i - Len(s)])
    BY <1>1
  <1>3. AllAt(s \o t, site)
    <2> DEFINE r == s \o t
    <2>1. Len(r) = Len(s) + Len(t)
      BY <1>1
    <2>2. \A i \in 1..Len(r) : (i \in 1..Len(s) /\ r[i] = s[i])
                                 \/ (i - Len(s) \in 1..Len(t) /\ r[i] = t[i - Len(s)])
      BY <1>1, <1>2
    <2> HIDE DEF r
    <2>3. AllAt(r, site)
      BY <2>2 DEF AllAt
    <2>4. QED
      BY <2>3 DEF r
  <1>4. s \o t = <<>> <=> s = <<>> /\ t = <<>>
    BY <1>1
  <1>5. QED
    BY <1>1, <1>3, <1>4

LEMMA MissingFacts ==
    ASSUME NEW site \in Nat, NEW state \in FieldStates, AllAt(state.errors, site)
    PROVE  LET s == Missing(state, site)
           IN  /\ s \in FieldStates /\ AllAt(s.errors, site)
               /\ s.sawChild = state.sawChild /\ s.path = state.path
               /\ s.lift = state.lift /\ s.extract = state.extract
               /\ s.errors = <<>> <=>
                    state.errors = <<>>
                      /\ (state.sawChild => state.sawPath /\ state.lift # {} /\ state.extract # {})
  <1> DEFINE a == IF state.sawPath THEN <<>> ELSE <<Error(site, "missing path")>>
             b == IF state.lift # {} THEN <<>> ELSE <<Error(site, "missing lift")>>
             c == IF state.extract # {} THEN <<>> ELSE <<Error(site, "missing extract")>>
             old == state.errors
             s == Missing(state, site)
  <1>1. s = IF state.sawChild THEN [state EXCEPT !.errors = old \o ((a \o b) \o c)] ELSE state
    BY DEF Missing
  <1>2. \A what \in Reasons :
          <<Error(site, what)>> \in Seq(Errors) /\ AllAt(<<Error(site, what)>>, site)
    <2> SUFFICES ASSUME NEW what \in Reasons
                 PROVE  <<Error(site, what)>> \in Seq(Errors) /\ AllAt(<<Error(site, what)>>, site)
      OBVIOUS
    <2> DEFINE e == Error(site, what)
    <2>1. e \in Errors /\ e.site = site
      BY DEF Error, Errors
    <2> HIDE DEF e
    <2>2. <<e>> \in Seq(Errors) /\ AllAt(<<e>>, site)
      BY <2>1 DEF AllAt
    <2>3. QED
      BY <2>2 DEF e
  <1>3. "missing path" \in Reasons /\ "missing lift" \in Reasons /\ "missing extract" \in Reasons
    BY DEF Reasons
  <1>4. <<>> \in Seq(Errors) /\ AllAt(<<>>, site)
    BY DEF AllAt
  <1>5. a \in Seq(Errors) /\ AllAt(a, site) /\ (a = <<>> <=> state.sawPath)
    BY <1>2, <1>3, <1>4
  <1>6. b \in Seq(Errors) /\ AllAt(b, site) /\ (b = <<>> <=> state.lift # {})
    BY <1>2, <1>3, <1>4
  <1>7. c \in Seq(Errors) /\ AllAt(c, site) /\ (c = <<>> <=> state.extract # {})
    BY <1>2, <1>3, <1>4
  <1>8. old \in Seq(Errors) /\ AllAt(old, site)
    BY DEF FieldStates
  <1> HIDE DEF a, b, c, s
  <1> DEFINE new == old \o ((a \o b) \o c)
  <1> HIDE DEF old
  <1>9. /\ a \o b \in Seq(Errors) /\ AllAt(a \o b, site)
        /\ a \o b = <<>> <=> state.sawPath /\ state.lift # {}
    BY <1>5, <1>6, ConcatAt
  <1>10. LET unfilled == (a \o b) \o c
         IN  /\ unfilled \in Seq(Errors) /\ AllAt(unfilled, site)
             /\ unfilled = <<>> <=> state.sawPath /\ state.lift # {} /\ state.extract # {}
    <2> DEFINE ab == a \o b
    <2> HIDE DEF ab
    <2>1. ab \o c \in Seq(Errors) /\ AllAt(ab \o c, site)
            /\ (ab \o c = <<>> <=> ab = <<>> /\ c = <<>>)
      BY <1>7, <1>9, ConcatAt DEF ab
    <2>2. QED
      BY <1>7, <1>9, <2>1 DEF ab
  <1>11. /\ new \in Seq(Errors) /\ AllAt(new, site)
         /\ new = <<>> <=> old = <<>> /\ state.sawPath /\ state.lift # {} /\ state.extract # {}
    <2> DEFINE unfilled == (a \o b) \o c
    <2>0. unfilled \in Seq(Errors) /\ AllAt(unfilled, site)
      BY <1>10
    <2> HIDE DEF unfilled
    <2>1. /\ old \o unfilled \in Seq(Errors) /\ AllAt(old \o unfilled, site)
          /\ old \o unfilled = <<>> <=> old = <<>> /\ unfilled = <<>>
      BY <1>8, <2>0, ConcatAt
    <2>2. QED
      BY <1>10, <2>1 DEF unfilled
  <1>12. s = IF state.sawChild THEN [state EXCEPT !.errors = new] ELSE state
    BY <1>1 DEF old
  <1> HIDE DEF new
  <1>13. QED
    <2>1. CASE state.sawChild
      <3>1. s = [state EXCEPT !.errors = new]
        BY <1>12, <2>1
      <3>2. /\ s \in FieldStates /\ s.errors = new /\ s.sawChild = state.sawChild
            /\ s.path = state.path /\ s.lift = state.lift /\ s.extract = state.extract
        BY <1>11, <3>1 DEF FieldStates
      <3>3. QED
        BY <1>11, <2>1, <3>2 DEF s, old
    <2>2. CASE ~state.sawChild
      <3>1. s = state
        BY <1>12, <2>2
      <3>2. QED
        BY <1>8, <2>2, <3>1 DEF s, old
    <2>3. QED
      BY <2>1, <2>2

\* The ChildSpecs that are parsed.
Specs == [field : Nat, name : [raw : BOOLEAN, text : STRING], type : {"Panel", "Leaf"},
          path : STRING, lift : STRING, extract : STRING]

IsSpecOf(child, field, site) ==
    LET metas == MetasOf(field.attrs, "child")
    IN  /\ child \in Specs /\ child.field = site
        /\ child.name = field.name /\ child.type = field.type
        /\ child.path = ValueOf(metas, "path").text /\ child.path # ""
        /\ child.lift = ValueOf(metas, "lift").text
        /\ child.extract = ValueOf(metas, "extract").text

LEMMA NoChildMetas ==
    ASSUME NEW attrs \in Seq(Attributes), ~Has(attrs, "child")
    PROVE  MetasOf(attrs, "child") = <<>> /\ Parse(attrs, "child")
  <1> DEFINE T == {s \in Seq(Attributes) : ~Has(s, "child") => MetasOf(s, "child") = <<>>}
  <1>1. <<>> \in T
    BY MetasOfEmpty
  <1>2. ASSUME NEW s \in Seq(Attributes), NEW a \in Attributes, s \in T PROVE Append(s, a) \in T
    <2>1. Append(s, a) \in Seq(Attributes)
      BY <1>2
    <2>2. Has(Append(s, a), "child") <=> Has(s, "child") \/ a.name = "child"
      BY HasAppend
    <2>3. MetasOf(Append(s, a), "child")
            = MetasOf(s, "child") \o (IF a.name = "child" THEN a.metas ELSE <<>>)
      BY MetasOfAppend
    <2>4. <<>> \o <<>> = <<>>
      OBVIOUS
    <2>5. ~Has(s, "child") => MetasOf(s, "child") = <<>>
      BY <1>2
    <2>6. QED
      BY <2>1, <2>2, <2>3, <2>4, <2>5
  <1> HIDE DEF T
  <1>3. Seq(Attributes) \subseteq T
    BY <1>1, <1>2, AllSequences
  <1>4. MetasOf(attrs, "child") = <<>>
    BY <1>3 DEF T
  <1>5. QED
    BY <1>4 DEF Has, Parse

LEMMA MetasOfType ==
    ASSUME NEW attrs \in Seq(Attributes), NEW name
    PROVE  MetasOf(attrs, name) \in Seq(Metas)
  <1>1. CASE attrs = <<>>
    <2>1. <<>> \in Seq(Metas)
      OBVIOUS
    <2>2. QED
      BY <1>1, <2>1, MetasOfEmpty
  <1>2. CASE attrs # <<>>
    <2>1. attrs[1] \in Attributes
      BY <1>2
    <2>2. QED
      BY <2>1, MetasOfAppend
  <1>3. QED
    BY <1>1, <1>2

LEMMA ParseChildFacts ==
    ASSUME NEW field \in Fields, NEW site \in Nat
    PROVE  LET p == ParseChild(field, site)
           IN  /\ p.errors \in Seq(Errors) /\ AllAt(p.errors, site)
               /\ p.errors = <<>> <=> GoodField(field.attrs)
               /\ p.child # <<>> <=> Has(field.attrs, "child") /\ GoodField(field.attrs)
               /\ p.child = <<>> \/ \E c \in Specs : p.child = <<c>> /\ IsSpecOf(c, field, site)
  <1> DEFINE attrs == field.attrs
             metas == MetasOf(attrs, "child")
             state == AllAttributes(site, attrs)
             s == Missing(state, site)
             has == Has(attrs, "child")
             p == ParseChild(field, site)
  <1>1. attrs \in Seq(Attributes)
    BY DEF Fields
  <1>2. Walked(site, Clean(attrs), metas, state) /\ (state.sawChild <=> has)
    BY <1>1, AttributesWalk DEF FieldWalked
  <1>3. p = ChildOrErrors(field, site, s)
    BY DEF ParseChild, AllAttributes
  <1>4. metas \in Seq(Metas)
    BY <1>1, MetasOfType
  <1>5. /\ GoodMetas(metas) /\ Filled(metas) <=> ThreeMetas(metas)
        /\ ThreeMetas(metas) => \A name \in Slots : Texts(metas, name) = {ValueOf(metas, name).text}
    BY <1>4, FilledIsThree
  <1>6. ~has => metas = <<>> /\ Parse(attrs, "child")
    BY <1>1, NoChildMetas
  <1>7. GoodField(attrs) <=> /\ Clean(attrs)
                             /\ has => ThreeMetas(metas)
    BY <1>6 DEF GoodField, GoodChild, ThreeMetas, Clean, Slots
  <1> HIDE DEF metas, state, has
  <1>8. state \in FieldStates /\ AllAt(state.errors, site)
    BY <1>2 DEF Walked
  <1>9. /\ s \in FieldStates /\ AllAt(s.errors, site)
        /\ s.sawChild = state.sawChild /\ s.path = state.path
        /\ s.lift = state.lift /\ s.extract = state.extract
        /\ s.errors = <<>> <=>
             state.errors = <<>>
               /\ (state.sawChild => state.sawPath /\ state.lift # {} /\ state.extract # {})
    BY <1>8, MissingFacts
  <1> HIDE DEF s
  <1>10. state.errors = <<>> =>
           ((state.sawPath /\ state.lift # {} /\ state.extract # {}) <=> Filled(metas))
    BY <1>2 DEF Walked, Filled, Slots
  <1>11. GoodMetas(<<>>)
    BY DEF GoodMetas
  <1>12. s.errors = <<>> <=> GoodField(attrs)
    BY <1>2, <1>5, <1>6, <1>7, <1>9, <1>10, <1>11 DEF Walked
  <1>13. p.errors = s.errors /\ s.errors \in Seq(Errors)
    BY <1>3, <1>9 DEF ChildOrErrors, FieldStates
  <1> DEFINE child == [field |-> site, name |-> field.name, type |-> field.type,
                       path |-> CHOOSE q \in s.path : TRUE,
                       lift |-> CHOOSE l \in s.lift : TRUE,
                       extract |-> CHOOSE e \in s.extract : TRUE]
  <1>14. p.child = IF s.errors # <<>> \/ ~s.sawChild THEN <<>> ELSE <<child>>
    BY <1>3 DEF ChildOrErrors
  <1>15. ASSUME s.errors = <<>>, has PROVE child \in Specs /\ IsSpecOf(child, field, site)
    <2>1. ThreeMetas(metas)
      BY <1>7, <1>12, <1>15
    <2>2. /\ s.path = {ValueOf(metas, "path").text} /\ s.lift = {ValueOf(metas, "lift").text}
          /\ s.extract = {ValueOf(metas, "extract").text}
      BY <1>2, <1>5, <1>9, <1>15, <2>1 DEF Walked, Slots
    <2>3. /\ child.path = ValueOf(metas, "path").text /\ child.lift = ValueOf(metas, "lift").text
          /\ child.extract = ValueOf(metas, "extract").text
      BY <2>2
    <2>4. /\ s.path \subseteq STRING /\ s.lift \subseteq STRING /\ s.extract \subseteq STRING
          /\ field.name \in [raw : BOOLEAN, text : STRING] /\ field.type \in {"Panel", "Leaf"}
      BY <1>9 DEF FieldStates, Fields
    <2>5. child \in Specs
      <3>1. child.path \in STRING /\ child.lift \in STRING /\ child.extract \in STRING
        BY <2>2, <2>3, <2>4
      <3>2. QED
        BY <2>4, <3>1 DEF Specs
    <2>6. child.path # ""
      BY <2>1, <2>3 DEF ThreeMetas
    <2>7. child.field = site /\ child.name = field.name /\ child.type = field.type
      OBVIOUS
    <2> HIDE DEF child
    <2>8. QED
      BY <2>3, <2>5, <2>6, <2>7 DEF IsSpecOf, metas, attrs
  <1> HIDE DEF child, p
  <1>16. <<child>> # <<>>
    OBVIOUS
  <1>17. /\ p.errors \in Seq(Errors) /\ AllAt(p.errors, site)
         /\ p.errors = <<>> <=> GoodField(attrs)
    BY <1>9, <1>12, <1>13
  <1>18. p.child # <<>> <=> has /\ GoodField(attrs)
    BY <1>2, <1>9, <1>12, <1>14, <1>16
  <1>19. p.child = <<>> \/ \E c \in Specs : p.child = <<c>> /\ IsSpecOf(c, field, site)
    BY <1>2, <1>9, <1>14, <1>15
  <1>20. QED
    BY <1>17, <1>18, <1>19 DEF p, has, attrs

-----------------------------------------------------------------------------
(* The attributes of the struct.                                           *)

StructStates == [message : SUBSET STRING, errors : Seq(Errors)]

LEMMA ReportStructFacts ==
    ASSUME NEW state \in StructStates, AllAt(state.errors, 0), NEW what \in Reasons
    PROVE  LET s == Report(state, 0, what)
           IN  s \in StructStates /\ AllAt(s.errors, 0) /\ s.errors # <<>>
  <1> DEFINE e == Error(0, what)
             old == state.errors
  <1>1. e \in Errors /\ e.site = 0
    BY DEF Error, Errors
  <1>2. old \in Seq(Errors) /\ AllAt(old, 0) /\ state.message \in SUBSET STRING
    BY DEF StructStates
  <1>3. Report(state, 0, what) = [state EXCEPT !.errors = Append(old, e)]
    BY DEF Report
  <1> HIDE DEF old, e
  <1>4. <<e>> \in Seq(Errors) /\ AllAt(<<e>>, 0) /\ <<e>> # <<>> /\ old \o <<e>> = Append(old, e)
    BY <1>1, <1>2 DEF AllAt
  <1> DEFINE new == Append(old, e)
  <1>5. new \in Seq(Errors) /\ AllAt(new, 0) /\ new # <<>>
    <2> DEFINE one == <<e>>
    <2>1. one \in Seq(Errors) /\ AllAt(one, 0) /\ one # <<>>
      BY <1>4
    <2> HIDE DEF one
    <2>2. old \o one \in Seq(Errors) /\ AllAt(old \o one, 0)
            /\ (old \o one = <<>> <=> old = <<>> /\ one = <<>>)
      BY <1>2, <2>1, ConcatAt
    <2>3. QED
      BY <1>4, <2>1, <2>2 DEF one
  <1> HIDE DEF new
  <1>6. Report(state, 0, what) = [state EXCEPT !.errors = new]
    BY <1>3 DEF new
  <1>7. QED
    BY <1>5, <1>6 DEF StructStates

GoodStructMeta(meta) ==
    meta.form = "NameValue" /\ meta.name = "message" /\ meta.value.literal = "None"

GoodStructMetas(metas) ==
    Len(metas) <= 1 /\ \A i \in 1..Len(metas) : GoodStructMeta(metas[i])

LEMMA GoodStructMetasAppend ==
    ASSUME NEW metas \in Seq(Metas), NEW meta \in Metas
    PROVE  GoodStructMetas(Append(metas, meta)) <=> metas = <<>> /\ GoodStructMeta(meta)
  <1> DEFINE t == Append(metas, meta)
             l == Len(metas)
  <1>1. /\ Len(t) = l + 1 /\ t[l + 1] = meta /\ l \in Nat
        /\ l = 0 <=> metas = <<>>
    OBVIOUS
  <1> HIDE DEF t, l
  <1>2. CASE l = 0
    <2>1. Len(t) = 1 /\ t[1] = meta
      BY <1>1, <1>2
    <2>2. QED
      BY <1>1, <1>2, <2>1 DEF GoodStructMetas, t
  <1>3. CASE l # 0
    <2>1. ~(Len(t) <= 1)
      BY <1>1, <1>3
    <2>2. QED
      BY <1>1, <1>3, <2>1 DEF GoodStructMetas, t
  <1>4. QED
    BY <1>2, <1>3

StructWalked(clean, metas, state) ==
    /\ state \in StructStates /\ AllAt(state.errors, 0)
    /\ state.errors = <<>> <=> clean /\ GoodStructMetas(metas)
    /\ state.errors = <<>> => (state.message = {} <=> metas = <<>>)

LEMMA CompositeMetaWalks ==
    ASSUME NEW clean \in BOOLEAN, NEW metas \in Seq(Metas), NEW state,
           StructWalked(clean, metas, state), NEW meta \in Metas
    PROVE  StructWalked(clean, Append(metas, meta), CompositeMeta(state, meta))
  <1> DEFINE all == Append(metas, meta)
             s == CompositeMeta(state, meta)
  <1> SUFFICES StructWalked(clean, all, s)
    OBVIOUS
  <1>1. /\ state \in StructStates /\ AllAt(state.errors, 0)
        /\ meta.value.text \in STRING
    BY DEF StructWalked, Metas
  <1>2. GoodStructMetas(all) <=> metas = <<>> /\ GoodStructMeta(meta)
    BY GoodStructMetasAppend
  <1>3. all # <<>>
    OBVIOUS
  <1>4. metas = <<>> => GoodStructMetas(metas)
    BY DEF GoodStructMetas
  <1> HIDE DEF all
  <1>5. CASE GoodStructMeta(meta) /\ state.message = {}
    <2>1. s = [state EXCEPT !.message = {meta.value.text}]
      BY <1>5 DEF CompositeMeta, IsType, GoodStructMeta
    <2>2. s \in StructStates /\ s.errors = state.errors /\ s.message = {meta.value.text}
      BY <1>1, <2>1 DEF StructStates
    <2> HIDE DEF s
    <2>3. s.errors = <<>> <=> clean /\ GoodStructMetas(all)
      BY <1>2, <1>4, <1>5, <2>2 DEF StructWalked
    <2>4. s.message # {}
      BY <2>2
    <2>5. QED
      BY <1>1, <1>3, <2>2, <2>3, <2>4 DEF StructWalked
  <1>6. CASE ~(GoodStructMeta(meta) /\ state.message = {})
    <2>1. \E what \in {"unsupported composite attribute", "duplicate message", "expected type"} :
            s = Report(state, 0, what)
      BY <1>6 DEF CompositeMeta, IsType, GoodStructMeta
    <2>2. {"unsupported composite attribute", "duplicate message", "expected type"}
            \subseteq Reasons
      BY DEF Reasons
    <2>3. s \in StructStates /\ AllAt(s.errors, 0) /\ s.errors # <<>>
      <3> HIDE DEF s
      <3>1. PICK what \in Reasons : s = Report(state, 0, what)
        BY <2>1, <2>2
      <3>2. QED
        BY <1>1, <3>1, ReportStructFacts
    <2>4. ~(clean /\ GoodStructMetas(all))
      BY <1>2, <1>4, <1>6 DEF StructWalked
    <2> HIDE DEF s
    <2>5. QED
      BY <2>3, <2>4 DEF StructWalked
  <1>7. QED
    BY <1>5, <1>6

AllStructMetas(state, metas) == FoldLeft(CompositeMeta, state, metas)

LEMMA AllStructMetasIsFold ==
    \A state : \A metas \in Seq(Metas) :
        AllStructMetas(state, metas) = Walk!Fold(For("struct metas", 0), state, metas)
  <1> SUFFICES ASSUME NEW state, NEW metas \in Seq(Metas)
               PROVE  AllStructMetas(state, metas) = Walk!Fold(For("struct metas", 0), state, metas)
    OBVIOUS
  <1> DEFINE l == Len(metas)
             Of(g, d) == IF d = {} THEN state ELSE CompositeMeta(g[d \ {Max(d)}], metas[Max(d)])
             f == CHOOSE g : g = [d \in SUBSET (DOMAIN metas) |-> Of(g, d)]
  <1>1. AllStructMetas(state, metas) = f[DOMAIN metas]
    BY DEF AllStructMetas, FoldLeft, MapThenFoldSet
  <1>2. DOMAIN metas = 1..l
    OBVIOUS
  <1>3. \A g, d : Walk!FoldOf(For("struct metas", 0), state, metas, g, d) = Of(g, d)
    <2>1. \A x, e : WalkStep(For("struct metas", 0), x, e) = CompositeMeta(x, e)
      BY StepOfStructMetas
    <2>2. QED
      BY <2>1 DEF Walk!FoldOf, Walk!Max, Max
  <1> HIDE DEF Of
  <1>4. \A g : Walk!IsFolds(g, For("struct metas", 0), state, metas, l)
                 <=> g = [d \in SUBSET (1..l) |-> Of(g, d)]
    BY <1>3 DEF Walk!IsFolds
  <1>5. (\E g : Walk!IsFolds(g, For("struct metas", 0), state, metas, l))
          => Walk!IsFolds(f, For("struct metas", 0), state, metas, l)
    BY <1>2, <1>4
  <1> HIDE DEF f
  <1>6. QED
    BY <1>1, <1>2, <1>5, Walk!FoldIs

LEMMA StructMetasWalk ==
    ASSUME NEW clean \in BOOLEAN, NEW metas \in Seq(Metas), NEW state,
           StructWalked(clean, metas, state)
    PROVE  \A rest \in Seq(Metas) :
             StructWalked(clean, metas \o rest, AllStructMetas(state, rest))
  <1> DEFINE After(rest) == AllStructMetas(state, rest)
             T == {rest \in Seq(Metas) : StructWalked(clean, metas \o rest, After(rest))}
  <1>1. After(<<>>) = state
    <2> DEFINE w == For("struct metas", 0)
               M == Metas
    <2>1. <<>> \in Seq(M)
      OBVIOUS
    <2>2. After(<<>>) = Walk!Fold(w, state, <<>>)
      BY <2>1, AllStructMetasIsFold DEF w, M
    <2> HIDE DEF w, M
    <2>3. QED
      BY <2>2, Walk!FoldEmpty
  <1>2. ASSUME NEW rest \in Seq(Metas), NEW meta \in Metas
        PROVE  After(Append(rest, meta)) = CompositeMeta(After(rest), meta)
    <2> DEFINE w == For("struct metas", 0)
               M == Metas
    <2>1. rest \in Seq(M) /\ meta \in M
      OBVIOUS
    <2> HIDE DEF w, M
    <2>2. Append(rest, meta) \in Seq(M)
      BY <2>1
    <2>3. Walk!Fold(w, state, Append(rest, meta)) = WalkStep(w, Walk!Fold(w, state, rest), meta)
      BY <2>1, Walk!FoldAppend
    <2>4. /\ After(rest) = Walk!Fold(w, state, rest)
          /\ After(Append(rest, meta)) = Walk!Fold(w, state, Append(rest, meta))
      BY <2>1, <2>2, AllStructMetasIsFold DEF w, M
    <2>5. \A x, y : WalkStep(w, x, y) = CompositeMeta(x, y)
      BY StepOfStructMetas DEF w
    <2> HIDE DEF After
    <2>6. QED
      BY <2>3, <2>4, <2>5
  <1> HIDE DEF After
  <1>3. <<>> \in T
    <2>1. metas \o <<>> = metas /\ <<>> \in Seq(Metas)
      OBVIOUS
    <2>2. QED
      BY <1>1, <2>1
  <1>4. ASSUME NEW rest \in Seq(Metas), NEW meta \in Metas, rest \in T
        PROVE  Append(rest, meta) \in T
    <2> DEFINE all == metas \o rest
               before == After(rest)
    <2>1. /\ all \in Seq(Metas) /\ metas \o Append(rest, meta) = Append(all, meta)
          /\ Append(rest, meta) \in Seq(Metas)
      OBVIOUS
    <2>2. StructWalked(clean, all, before)
      BY <1>4
    <2> HIDE DEF all, before
    <2>3. StructWalked(clean, Append(all, meta), CompositeMeta(before, meta))
      BY <2>1, <2>2, CompositeMetaWalks
    <2>4. After(Append(rest, meta)) = CompositeMeta(before, meta)
      BY <1>2 DEF before
    <2>5. QED
      BY <2>1, <2>2, <2>3, <2>4
  <1> HIDE DEF T
  <1>5. Seq(Metas) \subseteq T
    BY <1>3, <1>4, AllSequences
  <1>6. QED
    BY <1>5 DEF T, After

CleanStruct(attrs) == ~Has(attrs, "child") /\ Parse(attrs, "composite")

StructDone(attrs, state) ==
    StructWalked(CleanStruct(attrs), MetasOf(attrs, "composite"), state)

LEMMA StructAttributeWalks ==
    ASSUME NEW attrs \in Seq(Attributes), NEW state, StructDone(attrs, state),
           NEW attr \in Attributes
    PROVE  StructDone(Append(attrs, attr), StructAttribute(state, attr))
  <1> DEFINE all == Append(attrs, attr)
             s == StructAttribute(state, attr)
             metas == MetasOf(attrs, "composite")
  <1>1. /\ Has(all, "child") <=> Has(attrs, "child") \/ attr.name = "child"
        /\ Parse(all, "composite")
             <=> Parse(attrs, "composite") /\ (attr.name = "composite" => attr.parses)
    BY HasAppend
  <1>2. /\ metas \in Seq(Metas)
        /\ MetasOf(all, "composite")
             = metas \o (IF attr.name = "composite" THEN attr.metas ELSE <<>>)
    BY MetasOfAppend
  <1>3. /\ state \in StructStates /\ AllAt(state.errors, 0)
        /\ StructWalked(CleanStruct(attrs), metas, state)
    BY DEF StructDone, StructWalked
  <1>4. CleanStruct(attrs) \in BOOLEAN
    BY DEF CleanStruct, Has, Parse
  <1>5. attr.metas \in Seq(Metas)
    BY DEF Attributes
  <1> HIDE DEF all, metas
  <1>6. ASSUME NEW what \in Reasons, s = Report(state, 0, what), ~CleanStruct(all)
        PROVE  StructDone(all, s)
    <2> HIDE DEF s
    <2>1. s \in StructStates /\ AllAt(s.errors, 0) /\ s.errors # <<>>
      BY <1>3, <1>6, ReportStructFacts
    <2>2. QED
      BY <1>6, <2>1 DEF StructDone, StructWalked
  <1>7. CASE attr.name = "child"
    <2>1. s = Report(state, 0, "#[child] on a struct")
      BY <1>7 DEF StructAttribute
    <2>2. "#[child] on a struct" \in Reasons /\ ~CleanStruct(all)
      BY <1>1, <1>7 DEF Reasons, CleanStruct
    <2> HIDE DEF s
    <2>3. StructDone(all, s)
      BY <1>6, <2>1, <2>2
    <2>4. QED
      BY <2>3 DEF s, all
  <1>8. CASE attr.name = "composite" /\ ~attr.parses
    <2>1. s = Report(state, 0, "malformed arguments")
      BY <1>8 DEF StructAttribute
    <2>2. "malformed arguments" \in Reasons /\ ~CleanStruct(all)
      BY <1>1, <1>8 DEF Reasons, CleanStruct
    <2> HIDE DEF s
    <2>3. StructDone(all, s)
      BY <1>6, <2>1, <2>2
    <2>4. QED
      BY <2>3 DEF s, all
  <1>9. CASE attr.name = "composite" /\ attr.parses
    <2>1. s = AllStructMetas(state, attr.metas)
      BY <1>9 DEF StructAttribute, AllStructMetas
    <2>2. StructWalked(CleanStruct(attrs), metas \o attr.metas, s)
      BY <1>2, <1>3, <1>4, <1>5, <2>1, StructMetasWalk
    <2>3. CleanStruct(all) <=> CleanStruct(attrs)
      BY <1>1, <1>9 DEF CleanStruct
    <2>4. MetasOf(all, "composite") = metas \o attr.metas
      BY <1>2, <1>9
    <2> HIDE DEF s
    <2>5. StructDone(all, s)
      BY <2>2, <2>3, <2>4 DEF StructDone, StructWalked
    <2>6. QED
      BY <2>5 DEF s, all
  <1>10. CASE attr.name \notin {"child", "composite"}
    <2>1. s = state
      BY <1>10 DEF StructAttribute
    <2>2. MetasOf(all, "composite") = metas
      BY <1>2, <1>10
    <2>3. CleanStruct(all) <=> CleanStruct(attrs)
      BY <1>1, <1>10 DEF CleanStruct
    <2>4. QED
      BY <1>3, <2>1, <2>2, <2>3 DEF StructDone, StructWalked, all
  <1>11. QED
    BY <1>7, <1>8, <1>9, <1>10

NoMessage == [message |-> {}, errors |-> <<>>]

AllStructAttributes(attrs) ==
    FoldLeft(StructAttribute, [message |-> {}, errors |-> <<>>], attrs)

LEMMA AllStructAttributesIsFold ==
    \A attrs \in Seq(Attributes) :
        AllStructAttributes(attrs) = Walk!Fold(For("struct attributes", 0), NoMessage, attrs)
  <1> SUFFICES ASSUME NEW attrs \in Seq(Attributes)
               PROVE  AllStructAttributes(attrs)
                        = Walk!Fold(For("struct attributes", 0), NoMessage, attrs)
    OBVIOUS
  <1> DEFINE l == Len(attrs)
             Of(g, d) == IF d = {} THEN NoMessage
                         ELSE StructAttribute(g[d \ {Max(d)}], attrs[Max(d)])
             f == CHOOSE g : g = [d \in SUBSET (DOMAIN attrs) |-> Of(g, d)]
  <1>1. AllStructAttributes(attrs) = f[DOMAIN attrs]
    BY DEF AllStructAttributes, NoMessage, FoldLeft, MapThenFoldSet
  <1>2. DOMAIN attrs = 1..l
    OBVIOUS
  <1>3. \A g, d : Walk!FoldOf(For("struct attributes", 0), NoMessage, attrs, g, d) = Of(g, d)
    <2>1. \A x, e : WalkStep(For("struct attributes", 0), x, e) = StructAttribute(x, e)
      BY StepOfStructAttributes
    <2>2. QED
      BY <2>1 DEF Walk!FoldOf, Walk!Max, Max
  <1> HIDE DEF Of
  <1>4. \A g : Walk!IsFolds(g, For("struct attributes", 0), NoMessage, attrs, l)
                 <=> g = [d \in SUBSET (1..l) |-> Of(g, d)]
    BY <1>3 DEF Walk!IsFolds
  <1>5. (\E g : Walk!IsFolds(g, For("struct attributes", 0), NoMessage, attrs, l))
          => Walk!IsFolds(f, For("struct attributes", 0), NoMessage, attrs, l)
    BY <1>2, <1>4
  <1> HIDE DEF f
  <1>6. QED
    BY <1>1, <1>2, <1>5, Walk!FoldIs

LEMMA StructAttributesWalk ==
    \A attrs \in Seq(Attributes) : StructDone(attrs, AllStructAttributes(attrs))
  <1> DEFINE After(attrs) == AllStructAttributes(attrs)
             T == {attrs \in Seq(Attributes) : StructDone(attrs, After(attrs))}
  <1>1. After(<<>>) = NoMessage
    <2> DEFINE w == For("struct attributes", 0)
               M == Attributes
    <2>1. <<>> \in Seq(M)
      OBVIOUS
    <2>2. After(<<>>) = Walk!Fold(w, NoMessage, <<>>)
      BY <2>1, AllStructAttributesIsFold DEF w, M
    <2> HIDE DEF w, M
    <2>3. QED
      BY <2>2, Walk!FoldEmpty
  <1>2. ASSUME NEW attrs \in Seq(Attributes), NEW attr \in Attributes
        PROVE  After(Append(attrs, attr)) = StructAttribute(After(attrs), attr)
    <2> DEFINE w == For("struct attributes", 0)
               M == Attributes
    <2>1. attrs \in Seq(M) /\ attr \in M
      OBVIOUS
    <2> HIDE DEF w, M
    <2>2. Append(attrs, attr) \in Seq(M)
      BY <2>1
    <2>3. Walk!Fold(w, NoMessage, Append(attrs, attr))
            = WalkStep(w, Walk!Fold(w, NoMessage, attrs), attr)
      BY <2>1, Walk!FoldAppend
    <2>4. /\ After(attrs) = Walk!Fold(w, NoMessage, attrs)
          /\ After(Append(attrs, attr)) = Walk!Fold(w, NoMessage, Append(attrs, attr))
      BY <2>1, <2>2, AllStructAttributesIsFold DEF w, M
    <2>5. \A x, y : WalkStep(w, x, y) = StructAttribute(x, y)
      BY StepOfStructAttributes DEF w
    <2> HIDE DEF After
    <2>6. QED
      BY <2>3, <2>4, <2>5
  <1> HIDE DEF After
  <1>3. <<>> \in T
    <2>1. MetasOf(<<>>, "composite") = <<>> /\ <<>> \in Seq(Attributes)
      BY MetasOfEmpty
    <2>2. CleanStruct(<<>>) /\ GoodStructMetas(<<>>)
      BY DEF CleanStruct, Has, Parse, GoodStructMetas
    <2>3. /\ NoMessage \in StructStates /\ NoMessage.errors = <<>> /\ NoMessage.message = {}
          /\ AllAt(NoMessage.errors, 0)
      BY DEF NoMessage, StructStates, AllAt
    <2>4. QED
      BY <1>1, <2>1, <2>2, <2>3 DEF StructDone, StructWalked
  <1>4. ASSUME NEW attrs \in Seq(Attributes), NEW attr \in Attributes, attrs \in T
        PROVE  Append(attrs, attr) \in T
    <2> DEFINE before == After(attrs)
    <2>1. Append(attrs, attr) \in Seq(Attributes) /\ StructDone(attrs, before)
      BY <1>4
    <2>2. After(Append(attrs, attr)) = StructAttribute(before, attr)
      BY <1>2
    <2> HIDE DEF before
    <2>3. StructDone(Append(attrs, attr), StructAttribute(before, attr))
      BY <2>1, StructAttributeWalks
    <2>4. QED
      BY <2>1, <2>2, <2>3
  <1> HIDE DEF T
  <1>5. Seq(Attributes) \subseteq T
    BY <1>3, <1>4, AllSequences
  <1>6. QED
    BY <1>5 DEF T, After

LEMMA ParseMessageTypeFacts ==
    ASSUME NEW attrs \in Seq(Attributes)
    PROVE  LET found == ParseMessageType(attrs).errors
           IN  /\ found \in Seq(Errors) /\ AllAt(found, 0)
               /\ found = <<>> <=> GoodStruct(attrs)
  <1> DEFINE state == AllStructAttributes(attrs)
             metas == MetasOf(attrs, "composite")
             s == ParseMessageType(attrs)
  <1>1. StructWalked(CleanStruct(attrs), metas, state)
    BY StructAttributesWalk DEF StructDone
  <1>2. s = IF state.message = {} THEN Report(state, 0, "missing message") ELSE state
    BY DEF ParseMessageType, AllStructAttributes
  <1>3. metas \in Seq(Metas)
    BY MetasOfType
  <1>4. GoodStruct(attrs) <=> CleanStruct(attrs) /\ GoodStructMetas(metas) /\ metas # <<>>
    <2> HIDE DEF metas
    <2>1. ASSUME Len(metas) = 1
          PROVE  /\ Count(metas, "message") = 1
                      <=> metas[1].form = "NameValue" /\ metas[1].name = "message"
                 /\ metas[1].name = "message" => ValueOf(metas, "message") = metas[1].value
      <3>1. 1 \in 1..Len(metas) /\ \A k \in 1..Len(metas) : k = 1
        BY <2>1
      <3>2. /\ ValueOf(metas, metas[1].name) = metas[1].value
            /\ metas[1].form = "NameValue" => Count(metas, metas[1].name) = 1
        BY <1>3, <3>1, OneOf
      <3>3. ASSUME ~(metas[1].form = "NameValue" /\ metas[1].name = "message")
            PROVE  Count(metas, "message") = 0
        <4>1. {i \in 1..Len(metas) : metas[i].form = "NameValue" /\ metas[i].name = "message"} = {}
          BY <3>1, <3>3
        <4>2. QED
          BY <4>1, FS_EmptySet DEF Count
      <3>4. QED
        BY <3>2, <3>3
    <2>2. (metas # <<>> /\ Len(metas) <= 1) <=> Len(metas) = 1
      <3> DEFINE l == Len(metas)
      <3>1. l \in Nat /\ (metas # <<>> <=> l # 0)
        BY <1>3
      <3> HIDE DEF l
      <3>2. (l # 0 /\ l <= 1) <=> l = 1
        BY <3>1
      <3>3. QED
        BY <3>1, <3>2 DEF l
    <2>3. ASSUME Len(metas) = 1
          PROVE  GoodStructMetas(metas) <=> GoodStructMeta(metas[1])
      BY <2>3 DEF GoodStructMetas
    <2>4. CASE Len(metas) = 1
      BY <2>1, <2>2, <2>3, <2>4 DEF GoodStruct, CleanStruct, GoodStructMeta, metas
    <2>5. CASE Len(metas) # 1
      BY <2>2, <2>5 DEF GoodStruct, GoodStructMetas, metas
    <2>6. QED
      BY <2>4, <2>5
  <1>5. state \in StructStates /\ AllAt(state.errors, 0) /\ state.errors \in Seq(Errors)
    BY <1>1 DEF StructWalked, StructStates
  <1> HIDE DEF state, metas, s
  <1>6. CASE state.message = {}
    <2>1. s = Report(state, 0, "missing message") /\ "missing message" \in Reasons
      BY <1>2, <1>6 DEF Reasons
    <2>2. s \in StructStates /\ AllAt(s.errors, 0) /\ s.errors # <<>>
      BY <1>5, <2>1, ReportStructFacts
    <2>3. ~GoodStruct(attrs)
      BY <1>1, <1>4, <1>6 DEF StructWalked
    <2>4. s.errors \in Seq(Errors)
      BY <2>2 DEF StructStates
    <2>5. QED
      BY <2>2, <2>3, <2>4 DEF s
  <1>7. CASE state.message # {}
    <2>1. s = state
      BY <1>2, <1>7
    <2>2. s.errors = <<>> <=> GoodStruct(attrs)
      BY <1>1, <1>4, <1>7, <2>1 DEF StructWalked
    <2>3. QED
      BY <1>5, <2>1, <2>2 DEF s
  <1>8. QED
    BY <1>6, <1>7

-----------------------------------------------------------------------------
(* The struct.                                                             *)

\* The positions of the values that an earlier position has.
Again(values) == {i \in 1..Len(values) : \E j \in 1..(i - 1) : values[j] = values[i]}

LEMMA CountingEntries ==
    ASSUME NEW n \in Nat
    PROVE  [i \in 1..n |-> i] \in Seq(Nat) /\ Entries([i \in 1..n |-> i]) = 1..n
  <1> DEFINE s == [i \in 1..n |-> i]
  <1>1. s \in [1..n -> Nat] /\ \A i \in 1..n : s[i] = i
    OBVIOUS
  <1> HIDE DEF s
  <1>2. s \in Seq(Nat) /\ Len(s) = n
    BY <1>1
  <1>3. \A x : x \in Entries(s) <=> \E i \in 1..n : x = i
    BY <1>1, <1>2 DEF Entries
  <1>4. Entries(s) = 1..n
    BY <1>3
  <1>5. QED
    BY <1>2, <1>4 DEF s

LEMMA RepeatedFacts ==
    ASSUME NEW values, NEW n \in Nat, n = Len(values)
    PROVE  /\ Repeated(values) \in Seq(Nat)
           /\ \A i \in 1..Len(Repeated(values)) : Repeated(values)[i] \in Again(values)
           /\ \A k \in Again(values) : \E i \in 1..Len(Repeated(values)) : Repeated(values)[i] = k
  <1> DEFINE s == [i \in 1..n |-> i]
             r == Only(s, Again(values))
  <1>1. s \in Seq(Nat) /\ Entries(s) = 1..n
    BY CountingEntries
  <1>2. Repeated(values) = r
    BY DEF Repeated, Again
  <1> HIDE DEF s
  <1>3. r \in Seq(Nat) /\ Entries(r) = Entries(s) \cap Again(values)
    BY <1>1, OnlyType, OnlyEntries
  <1> HIDE DEF r
  <1>4. Again(values) \subseteq 1..n
    BY DEF Again
  <1>5. Entries(r) = Again(values)
    BY <1>1, <1>3, <1>4
  <1>6. QED
    BY <1>2, <1>3, <1>5 DEF Entries

\* The places of a list of errors.
Sites(list) == {list[i].site : i \in 1..Len(list)}

LEMMA SitesConcat ==
    \A s, t \in Seq(Errors) : Sites(s \o t) = Sites(s) \cup Sites(t)
  <1> SUFFICES ASSUME NEW s \in Seq(Errors), NEW t \in Seq(Errors)
               PROVE  Sites(s \o t) = Sites(s) \cup Sites(t)
    OBVIOUS
  <1> DEFINE r == s \o t
             at(e) == e.site
  <1>1. r \in Seq(Errors) /\ Entries(r) = Entries(s) \cup Entries(t)
    BY ConcatEntries
  <1>2. \A q : Sites(q) = {e.site : e \in Entries(q)}
    BY DEF Sites, Entries
  <1> HIDE DEF r
  <1>3. Sites(r) = Sites(s) \cup Sites(t)
    BY <1>1, <1>2
  <1>4. QED
    BY <1>3 DEF r

LEMMA NoSites == \A s \in Seq(Errors) : Sites(s) = {} <=> s = <<>>
  <1> SUFFICES ASSUME NEW s \in Seq(Errors) PROVE Sites(s) = {} <=> s = <<>>
    OBVIOUS
  <1>1. s # <<>> => 1 \in 1..Len(s)
    OBVIOUS
  <1>2. s = <<>> => Len(s) = 0
    OBVIOUS
  <1>3. CASE s = <<>>
    BY <1>2, <1>3 DEF Sites
  <1>4. CASE s # <<>>
    <2>1. s[1].site \in Sites(s)
      BY <1>1, <1>4 DEF Sites
    <2>2. QED
      BY <1>4, <2>1
  <1>5. QED
    BY <1>3, <1>4

\* The errors for what is repeated are at the fields of the children that repeat it.
LEMMA ErrorsAgain ==
    ASSUME NEW list \in Seq(Specs), NEW values, Len(values) = Len(list), NEW what \in Reasons
    PROVE  LET again == Repeated(values)
               found == [i \in 1..Len(again) |-> Error(list[again[i]].field, what)]
           IN  /\ found \in Seq(Errors)
               /\ Sites(found) = {list[k].field : k \in Again(values)}
  <1> DEFINE again == Repeated(values)
             found == [i \in 1..Len(again) |-> Error(list[again[i]].field, what)]
             n == Len(list)
  <1>1. n \in Nat /\ \A k \in 1..n : list[k].field \in Nat
    <2>1. n \in Nat /\ \A k \in 1..n : list[k] \in Specs
      OBVIOUS
    <2>2. \A c \in Specs : c.field \in Nat
      BY DEF Specs
    <2> HIDE DEF n
    <2>3. QED
      BY <2>1, <2>2
  <1>2. /\ again \in Seq(Nat)
        /\ \A i \in 1..Len(again) : again[i] \in Again(values)
        /\ \A k \in Again(values) : \E i \in 1..Len(again) : again[i] = k
    BY <1>1, RepeatedFacts
  <1>3. Again(values) \subseteq 1..n
    BY DEF Again
  <1> HIDE DEF again, n
  <1>4. Len(again) \in Nat
    BY <1>2
  <1>5. \A i \in 1..Len(again) : Error(list[again[i]].field, what) \in Errors
    <2> SUFFICES ASSUME NEW i \in 1..Len(again)
                 PROVE  Error(list[again[i]].field, what) \in Errors
      OBVIOUS
    <2>1. list[again[i]].field \in Nat
      BY <1>1, <1>2, <1>3
    <2>2. QED
      BY <2>1 DEF Error, Errors
  <1>6. found \in [1..Len(again) -> Errors]
    BY <1>5
  <1>7. \A i \in 1..Len(again) : found[i].site = list[again[i]].field
    BY DEF Error
  <1> HIDE DEF found
  <1>8. found \in Seq(Errors) /\ Len(found) = Len(again)
    BY <1>4, <1>6
  <1>9. Sites(found) = {list[k].field : k \in Again(values)}
    <2>1. \A x : x \in Sites(found) <=> \E i \in 1..Len(again) : x = list[again[i]].field
      BY <1>7, <1>8 DEF Sites
    <2>2. \A x : x \in {list[k].field : k \in Again(values)}
                   <=> \E k \in Again(values) : x = list[k].field
      OBVIOUS
    <2>3. QED
      BY <1>2, <2>1, <2>2
  <1>10. QED
    BY <1>8, <1>9 DEF found, again

\* The errors of the pieces.
LEMMA SitesFlatten ==
    \A s \in Seq(Seq(Errors)) :
        /\ FlattenSeq(s) \in Seq(Errors)
        /\ \A x : x \in Sites(FlattenSeq(s)) <=> \E i \in 1..Len(s) : x \in Sites(s[i])
  <1> SUFFICES ASSUME NEW s \in Seq(Seq(Errors))
               PROVE  /\ FlattenSeq(s) \in Seq(Errors)
                      /\ \A x : x \in Sites(FlattenSeq(s))
                           <=> \E i \in 1..Len(s) : x \in Sites(s[i])
    OBVIOUS
  <1>1. FlattenSeq(s) \in Seq(Errors)
    BY FlattenType
  <1>2. Entries(FlattenSeq(s)) = UNION {Entries(s[i]) : i \in 1..Len(s)}
    BY FlattenEntries
  <1>3. \A q : Sites(q) = {e.site : e \in Entries(q)}
    BY DEF Sites, Entries
  <1> DEFINE r == FlattenSeq(s)
  <1> HIDE DEF r
  <1>4. \A e : e \in Entries(r) <=> \E i \in 1..Len(s) : e \in Entries(s[i])
    BY <1>2 DEF r
  <1>5. \A q, x : x \in Sites(q) <=> \E e \in Entries(q) : x = e.site
    BY <1>3
  <1>6. \A x : x \in Sites(r) <=> \E i \in 1..Len(s) : x \in Sites(s[i])
    BY <1>4, <1>5
  <1>7. QED
    BY <1>1, <1>6 DEF r

\* The children found among fields, in the order of their fields.
ChildrenOf(list, fields) ==
    /\ list \in Seq(Specs)
    /\ \A k \in 1..Len(list) : /\ list[k].field \in DeclaredChildren(fields)
                               /\ IsSpecOf(list[k], fields[list[k].field], list[k].field)
    /\ \A i \in DeclaredChildren(fields) : \E k \in 1..Len(list) : list[k].field = i
    /\ \A k, l \in 1..Len(list) : k < l => list[k].field < list[l].field

BadFields(fields) == {i \in 1..Len(fields) : ~GoodField(fields[i].attrs)}

RepeatedFields(fields) ==
    {i \in DeclaredChildren(fields) : \E j \in DeclaredChildren(fields) :
       /\ j < i
       /\ \/ fields[i].name.text = fields[j].name.text
          \/ PathOfField(fields[i]) = PathOfField(fields[j])}

NamesOf(list) == [i \in 1..Len(list) |-> ViewMethodName(list[i])]
PathsOf(list) == [i \in 1..Len(list) |-> list[i].path]

LEMMA RepeatedChildren ==
    ASSUME NEW fields \in Seq(Fields), NEW list, ChildrenOf(list, fields)
    PROVE  {list[k].field : k \in Again(NamesOf(list))}
             \cup {list[k].field : k \in Again(PathsOf(list))}
             = RepeatedFields(fields)
  <1> DEFINE n == Len(list)
             N == Again(NamesOf(list))
             P == Again(PathsOf(list))
  <1>1. /\ n \in Nat
        /\ \A k \in 1..n : /\ list[k].field \in DeclaredChildren(fields)
                           /\ list[k].name = fields[list[k].field].name
                           /\ list[k].path = PathOfField(fields[list[k].field])
        /\ \A i \in DeclaredChildren(fields) : \E k \in 1..n : list[k].field = i
        /\ \A k, l \in 1..n : k < l => list[k].field < list[l].field
    <2>1. /\ \A k \in 1..n : /\ list[k].field \in DeclaredChildren(fields)
                             /\ IsSpecOf(list[k], fields[list[k].field], list[k].field)
          /\ \A i \in DeclaredChildren(fields) : \E k \in 1..n : list[k].field = i
          /\ \A k, l \in 1..n : k < l => list[k].field < list[l].field
      BY DEF ChildrenOf
    <2>2. n \in Nat
      BY DEF ChildrenOf
    <2>3. \A c, f, i : IsSpecOf(c, f, i) => c.name = f.name /\ c.path = PathOfField(f)
      BY DEF IsSpecOf, PathOfField
    <2> HIDE DEF n
    <2>4. QED
      BY <2>1, <2>2, <2>3
  <1>2. DeclaredChildren(fields) \subseteq Nat
    BY DEF DeclaredChildren
  <1> HIDE DEF n
  <1>3. \A k, l \in 1..n : list[k].field < list[l].field => k < l
    <2> SUFFICES ASSUME NEW k \in 1..n, NEW l \in 1..n, list[k].field < list[l].field PROVE k < l
      OBVIOUS
    <2>1. list[k].field \in Nat /\ list[l].field \in Nat
      BY <1>1, <1>2
    <2>2. ~(l < k) /\ k # l
      BY <1>1, <2>1
    <2>3. QED
      BY <2>2
  <1>4. \A k : k \in N <=> k \in 1..n /\ \E j \in 1..n : j < k
          /\ list[j].name.text = list[k].name.text
    <2>1. \A k : k \in N <=> k \in 1..n /\ \E j \in 1..(k - 1) :
                               NamesOf(list)[j] = NamesOf(list)[k]
      BY DEF Again, NamesOf, n
    <2>2. \A k \in 1..n : NamesOf(list)[k] = list[k].name.text
      BY DEF NamesOf, ViewMethodName, n
    <2>3. \A k \in 1..n : \A j : j \in 1..(k - 1) <=> j \in 1..n /\ j < k
      BY <1>1
    <2> HIDE DEF N
    <2>4. QED
      BY <2>1, <2>2, <2>3
  <1>5. \A k : k \in P <=> k \in 1..n /\ \E j \in 1..n : j < k /\ list[j].path = list[k].path
    <2>1. \A k : k \in P <=> k \in 1..n /\ \E j \in 1..(k - 1) :
                               PathsOf(list)[j] = PathsOf(list)[k]
      <3>1. Len(PathsOf(list)) = n
        BY <1>1 DEF PathsOf, n
      <3> DEFINE v == PathsOf(list)
      <3> HIDE DEF v
      <3>2. QED
        BY <3>1 DEF Again, v
    <2>2. \A k \in 1..n : PathsOf(list)[k] = list[k].path
      BY DEF PathsOf, n
    <2>3. \A k \in 1..n : \A j : j \in 1..(k - 1) <=> j \in 1..n /\ j < k
      BY <1>1
    <2> HIDE DEF P
    <2>4. QED
      BY <2>1, <2>2, <2>3
  <1> HIDE DEF N, P
  <1> DEFINE D == DeclaredChildren(fields)
  <1> HIDE DEF D
  <1>6. ASSUME NEW k \in N \cup P PROVE list[k].field \in RepeatedFields(fields)
    <2>1. PICK j \in 1..n : /\ k \in 1..n /\ j < k
                            /\ list[j].name.text = list[k].name.text \/ list[j].path = list[k].path
      BY <1>4, <1>5
    <2>2. list[k].field \in D /\ list[j].field \in D /\ list[j].field < list[k].field
      BY <1>1, <2>1 DEF D
    <2>3. \/ fields[list[k].field].name.text = fields[list[j].field].name.text
          \/ PathOfField(fields[list[k].field]) = PathOfField(fields[list[j].field])
      BY <1>1, <2>1
    <2>4. QED
      BY <2>2, <2>3 DEF RepeatedFields, D
  <1>7. ASSUME NEW i \in RepeatedFields(fields) PROVE \E k \in N \cup P : list[k].field = i
    <2>1. i \in D
      BY DEF RepeatedFields, D
    <2>2. PICK h \in D : h < i /\ (fields[i].name.text = fields[h].name.text
                                     \/ PathOfField(fields[i]) = PathOfField(fields[h]))
      BY DEF RepeatedFields, D
    <2>3. PICK k \in 1..n : list[k].field = i
      BY <1>1, <2>1 DEF D
    <2>4. PICK j \in 1..n : list[j].field = h
      BY <1>1, <2>2 DEF D
    <2>5. j < k
      BY <1>3, <2>2, <2>3, <2>4
    <2>6. list[j].name.text = list[k].name.text \/ list[j].path = list[k].path
      <3>1. /\ list[j].name = fields[h].name /\ list[k].name = fields[i].name
            /\ list[j].path = PathOfField(fields[h]) /\ list[k].path = PathOfField(fields[i])
        BY <1>1, <2>3, <2>4
      <3>2. QED
        BY <2>2, <3>1
    <2>7. k \in N \cup P
      BY <1>4, <1>5, <2>5, <2>6
    <2>8. QED
      BY <2>3, <2>7
  <1>8. \A x : (\E k \in N \cup P : x = list[k].field) <=> x \in RepeatedFields(fields)
    BY <1>6, <1>7
  <1>9. {list[k].field : k \in N} \cup {list[k].field : k \in P} = RepeatedFields(fields)
    BY <1>8
  <1>10. QED
    BY <1>9 DEF N, P

LEMMA ParseChildrenFacts ==
    ASSUME NEW fields \in Seq(Fields)
    PROVE  LET p == ParseChildren(fields)
           IN  /\ ChildrenOf(p.children, fields) /\ p.errors \in Seq(Errors)
               /\ Sites(p.errors) = BadFields(fields) \cup RepeatedFields(fields)
  <1> DEFINE n == Len(fields)
             parsed == [i \in 1..n |-> ParseChild(fields[i], i)]
             cs == [i \in 1..Len(parsed) |-> parsed[i].child]
             es == [i \in 1..Len(parsed) |-> parsed[i].errors]
             list == FlattenSeq(cs)
             p == ParseChildren(fields)
             D == DeclaredChildren(fields)
  <1>1. n \in Nat /\ \A i \in 1..n : fields[i] \in Fields /\ i \in Nat
    OBVIOUS
  <1>2. \A i \in 1..n : parsed[i] = ParseChild(fields[i], i)
    OBVIOUS
  <1>3. Len(parsed) = n
    BY <1>1
  <1>4. p = [children |-> list,
             errors |-> FlattenSeq(es) \o EnsureUniqueViewMethodNames(list)
                          \o EnsureUniqueChildPaths(list)]
    BY DEF ParseChildren, Compared
  <1> HIDE DEF parsed, p, n
  <1>5. \A i \in 1..n :
          /\ parsed[i].errors \in Seq(Errors) /\ AllAt(parsed[i].errors, i)
          /\ parsed[i].errors = <<>> <=> GoodField(fields[i].attrs)
          /\ parsed[i].child # <<>> <=> Has(fields[i].attrs, "child") /\ GoodField(fields[i].attrs)
          /\ parsed[i].child = <<>> \/ \E c \in Specs : parsed[i].child = <<c>>
               /\ IsSpecOf(c, fields[i], i)
    BY <1>1, <1>2, ParseChildFacts
  <1>6. cs \in [1..n -> Seq(Specs)] /\ \A i \in 1..n : cs[i] = parsed[i].child
    <2>1. <<>> \in Seq(Specs) /\ \A c \in Specs : <<c>> \in Seq(Specs)
      OBVIOUS
    <2>2. \A i \in 1..n : parsed[i].child \in Seq(Specs)
      BY <1>5, <2>1
    <2>3. QED
      BY <1>3, <2>2
  <1>7. es \in [1..n -> Seq(Errors)] /\ \A i \in 1..n : es[i] = parsed[i].errors
    BY <1>3, <1>5
  <1> HIDE DEF cs, es
  <1>8. cs \in Seq(Seq(Specs)) /\ Len(cs) = n /\ es \in Seq(Seq(Errors)) /\ Len(es) = n
    BY <1>1, <1>6, <1>7
  <1>9. Optional(cs, Specs)
    <2>1. \A i \in 1..n : cs[i] = <<>> \/ \E c \in Specs : cs[i] = <<c>>
            /\ IsSpecOf(c, fields[i], i)
      BY <1>5, <1>6
    <2>2. \A c, f, i : IsSpecOf(c, f, i) => c.field = i
      BY DEF IsSpecOf
    <2>3. QED
      BY <1>8, <2>1, <2>2 DEF Optional
  <1>10. InFieldOrder(list, cs) /\ list \in Seq(Specs)
    BY <1>8, <1>9, FlattenOptional, FlattenType
  <1>11. \A i : i \in D <=> i \in 1..n /\ Has(fields[i].attrs, "child")
           /\ GoodField(fields[i].attrs)
    BY DEF DeclaredChildren, n
  <1> HIDE DEF list, D
  <1>12. ChildrenOf(list, fields)
    <2>1. /\ \A k \in 1..Len(list) : list[k].field \in 1..n /\ cs[list[k].field] = <<list[k]>>
          /\ \A i \in 1..n : cs[i] # <<>> => \E k \in 1..Len(list) : list[k].field = i
          /\ \A k, l \in 1..Len(list) : k < l => list[k].field < list[l].field
      BY <1>8, <1>10 DEF InFieldOrder
    <2>2. \A c : <<c>> # <<>>
      OBVIOUS
    <2>3. ASSUME NEW k \in 1..Len(list)
          PROVE  list[k].field \in D /\ IsSpecOf(list[k], fields[list[k].field], list[k].field)
      <3> DEFINE i == list[k].field
                 c == list[k]
      <3>1. i \in 1..n /\ parsed[i].child = <<c>>
        BY <1>6, <2>1
      <3> HIDE DEF i, c
      <3>2. i \in D
        BY <1>5, <1>11, <2>2, <3>1
      <3>3. PICK d \in Specs : <<c>> = <<d>> /\ IsSpecOf(d, fields[i], i)
        BY <1>5, <2>2, <3>1
      <3>4. c = d
        BY <3>3
      <3>5. QED
        BY <3>2, <3>3, <3>4 DEF i, c
    <2>4. \A i \in D : \E k \in 1..Len(list) : list[k].field = i
      BY <1>5, <1>6, <1>11, <2>1
    <2>5. QED
      BY <1>10, <2>1, <2>3, <2>4 DEF ChildrenOf, D
  <1> DEFINE e1 == FlattenSeq(es)
             e2 == EnsureUniqueViewMethodNames(list)
             e3 == EnsureUniqueChildPaths(list)
  <1>13. e1 \in Seq(Errors) /\ Sites(e1) = BadFields(fields)
    <2>1. e1 \in Seq(Errors) /\ \A x : x \in Sites(e1) <=> \E i \in 1..n : x \in Sites(es[i])
      BY <1>8, SitesFlatten
    <2>2. ASSUME NEW i \in 1..n, NEW x
          PROVE  x \in Sites(es[i]) <=> x = i /\ ~GoodField(fields[i].attrs)
      <3> DEFINE s == es[i]
      <3>1. s \in Seq(Errors) /\ AllAt(s, i) /\ (s = <<>> <=> GoodField(fields[i].attrs))
        BY <1>5, <1>7
      <3> HIDE DEF s
      <3>2. Sites(s) = {} <=> s = <<>>
        BY <3>1, NoSites
      <3>3. \A y \in Sites(s) : y = i
        BY <3>1 DEF AllAt, Sites
      <3>4. QED
        BY <3>1, <3>2, <3>3 DEF s
    <2>3. \A x : x \in BadFields(fields) <=> \E i \in 1..n : x = i /\ ~GoodField(fields[i].attrs)
      BY DEF BadFields, n
    <2> HIDE DEF e1
    <2>4. \A x : x \in Sites(e1) <=> x \in BadFields(fields)
      <3> SUFFICES ASSUME NEW x PROVE x \in Sites(e1) <=> x \in BadFields(fields)
        OBVIOUS
      <3>1. x \in Sites(e1) <=> \E i \in 1..n : x \in Sites(es[i])
        BY <2>1
      <3>2. \A i \in 1..n : x \in Sites(es[i]) <=> x = i /\ ~GoodField(fields[i].attrs)
        BY <2>2
      <3>3. QED
        BY <2>3, <3>1, <3>2
    <2>5. QED
      BY <2>1, <2>4
  <1>14. e2 \in Seq(Errors) /\ Sites(e2) = {list[k].field : k \in Again(NamesOf(list))}
    <2>1. "duplicate helper name" \in Reasons
      BY DEF Reasons
    <2>2. Len(NamesOf(list)) = Len(list)
      BY <1>10 DEF NamesOf
    <2>3. e2 = [i \in 1..Len(Repeated(NamesOf(list))) |->
                  Error(list[Repeated(NamesOf(list))[i]].field, "duplicate helper name")]
      BY DEF EnsureUniqueViewMethodNames, NamesOf
    <2> HIDE DEF e2
    <2>4. QED
      BY <1>10, <2>1, <2>2, <2>3, ErrorsAgain
  <1>15. e3 \in Seq(Errors) /\ Sites(e3) = {list[k].field : k \in Again(PathsOf(list))}
    <2>1. "duplicate child path" \in Reasons
      BY DEF Reasons
    <2>2. Len(PathsOf(list)) = Len(list)
      BY <1>10 DEF PathsOf
    <2>3. e3 = [i \in 1..Len(Repeated(PathsOf(list))) |->
                  Error(list[Repeated(PathsOf(list))[i]].field, "duplicate child path")]
      BY DEF EnsureUniqueChildPaths, PathsOf
    <2> HIDE DEF e3
    <2>4. QED
      BY <1>10, <2>1, <2>2, <2>3, ErrorsAgain
  <1>16. p.children = list /\ p.errors = (e1 \o e2) \o e3
    BY <1>4
  <1> HIDE DEF e1, e2, e3
  <1>17. e1 \o e2 \in Seq(Errors) /\ Sites(e1 \o e2) = Sites(e1) \cup Sites(e2)
    BY <1>13, <1>14, SitesConcat
  <1>18. (e1 \o e2) \o e3 \in Seq(Errors)
           /\ Sites((e1 \o e2) \o e3) = (Sites(e1) \cup Sites(e2)) \cup Sites(e3)
    <2> DEFINE e == e1 \o e2
    <2>1. e \in Seq(Errors) /\ Sites(e) = Sites(e1) \cup Sites(e2)
      BY <1>17
    <2> HIDE DEF e
    <2>2. e \o e3 \in Seq(Errors) /\ Sites(e \o e3) = Sites(e) \cup Sites(e3)
      BY <1>15, <2>1, SitesConcat
    <2>3. QED
      BY <2>1, <2>2 DEF e
  <1>19. Sites(e2) \cup Sites(e3) = RepeatedFields(fields)
    BY <1>12, <1>14, <1>15, RepeatedChildren
  <1>20. QED
    BY <1>12, <1>13, <1>16, <1>18, <1>19 DEF p

\* What is derived from a declaration without errors.
GoodSpecs(specs) ==
    /\ specs \in Seq(Specs)
    /\ \A i \in 1..Len(specs) : specs[i].path # ""
    /\ \A i, j \in 1..Len(specs) : specs[i].path = specs[j].path => i = j

LEMMA ChildrenAreGood ==
    ASSUME NEW fields \in Seq(Fields), NEW list, ChildrenOf(list, fields),
           RepeatedFields(fields) = {}
    PROVE  GoodSpecs(list)
  <1>1. list \in Seq(Specs) /\ Len(list) \in Nat
    BY DEF ChildrenOf
  <1>2. \A i \in 1..Len(list) : list[i].path # ""
    BY DEF ChildrenOf, IsSpecOf
  <1>3. {list[k].field : k \in Again(NamesOf(list))}
          \cup {list[k].field : k \in Again(PathsOf(list))} = {}
    BY RepeatedChildren
  <1>4. \A k : k \notin Again(PathsOf(list))
    BY <1>3
  <1>5. ASSUME NEW i \in 1..Len(list), NEW j \in 1..Len(list), i < j
        PROVE list[i].path # list[j].path
    <2>1. Len(PathsOf(list)) = Len(list)
      BY <1>1 DEF PathsOf
    <2>2. PathsOf(list)[i] = list[i].path /\ PathsOf(list)[j] = list[j].path
      BY DEF PathsOf
    <2>3. j \notin Again(PathsOf(list))
      BY <1>4
    <2>4. i \in 1..(j - 1)
      BY <1>1, <1>5
    <2> DEFINE v == PathsOf(list)
    <2> HIDE DEF v
    <2>5. v[i] # v[j]
      BY <2>1, <2>3, <2>4 DEF Again, v
    <2>6. QED
      BY <2>2, <2>5 DEF v
  <1>6. \A i, j \in 1..Len(list) : i < j \/ j < i \/ i = j
    OBVIOUS
  <1>7. \A i, j \in 1..Len(list) : list[i].path = list[j].path => i = j
    BY <1>5, <1>6
  <1>8. QED
    BY <1>1, <1>2, <1>7 DEF GoodSpecs

LEMMA CulpritsUnfold ==
    \A decl : Culprits(decl) =
                IF ~GoodStruct(decl.attrs) \/ decl.data # "Named" THEN {0}
                ELSE BadFields(decl.fields) \cup RepeatedFields(decl.fields)
  BY DEF Culprits, BadFields, RepeatedFields

LEMMA ParseCompositeFacts ==
    ASSUME NEW decl \in Declarations
    PROVE  LET p == ParseComposite(decl)
           IN  /\ p.errors \in Seq(Errors) /\ Sites(p.errors) = Culprits(decl)
               /\ p.errors = <<>> =>
                    ChildrenOf(p.children, decl.fields) /\ RepeatedFields(decl.fields) = {}
  <1> DEFINE message == ParseMessageType(decl.attrs).errors
             p == ParseComposite(decl)
  <1>1. /\ decl.attrs \in Seq(Attributes) /\ decl.fields \in Seq(Fields)
    BY DEF Declarations
  <1>2. /\ message \in Seq(Errors) /\ AllAt(message, 0)
        /\ message = <<>> <=> GoodStruct(decl.attrs)
    BY <1>1, ParseMessageTypeFacts
  <1>3. p = IF message # <<>> THEN [children |-> <<>>, errors |-> message]
            ELSE IF decl.data # "Named"
              THEN [children |-> <<>>, errors |-> <<Error(0, "unsupported data")>>]
            ELSE ParseChildren(decl.fields)
    BY DEF ParseComposite
  <1>4. Culprits(decl) =
          IF ~GoodStruct(decl.attrs) \/ decl.data # "Named" THEN {0}
          ELSE BadFields(decl.fields) \cup RepeatedFields(decl.fields)
    BY CulpritsUnfold
  <1>5. ASSUME NEW s \in Seq(Errors), AllAt(s, 0), s # <<>> PROVE Sites(s) = {0}
    <2>1. Sites(s) # {}
      BY <1>5, NoSites
    <2>2. \A x \in Sites(s) : x = 0
      BY <1>5 DEF AllAt, Sites
    <2>3. QED
      BY <2>1, <2>2
  <1> HIDE DEF message, p
  <1>6. CASE message # <<>>
    <2>1. p.errors = message
      BY <1>3, <1>6
    <2>2. Sites(message) = {0}
      BY <1>2, <1>5, <1>6
    <2>3. QED
      BY <1>2, <1>4, <1>6, <2>1, <2>2 DEF p
  <1>7. CASE message = <<>> /\ decl.data # "Named"
    <2> DEFINE e == Error(0, "unsupported data")
    <2>1. e \in Errors /\ e.site = 0
      BY DEF Error, Errors, Reasons
    <2>2. p.errors = <<e>>
      BY <1>3, <1>7
    <2> HIDE DEF e
    <2>3. <<e>> \in Seq(Errors) /\ AllAt(<<e>>, 0) /\ <<e>> # <<>>
      BY <2>1 DEF AllAt
    <2>4. Sites(<<e>>) = {0}
      BY <1>5, <2>3
    <2>5. QED
      BY <1>4, <1>7, <2>2, <2>3, <2>4 DEF p
  <1>8. CASE message = <<>> /\ decl.data = "Named"
    <2>1. p = ParseChildren(decl.fields)
      BY <1>3, <1>8
    <2>2. /\ ChildrenOf(p.children, decl.fields) /\ p.errors \in Seq(Errors)
          /\ Sites(p.errors) = BadFields(decl.fields) \cup RepeatedFields(decl.fields)
      BY <1>1, <2>1, ParseChildrenFacts
    <2>3. Sites(p.errors) = Culprits(decl)
      BY <1>2, <1>4, <1>8, <2>2
    <2>4. p.errors = <<>> => Sites(p.errors) = {}
      BY <2>2, NoSites
    <2>5. p.errors = <<>> => RepeatedFields(decl.fields) = {}
      BY <2>2, <2>4
    <2>6. QED
      BY <2>2, <2>3, <2>5 DEF p
  <1>9. QED
    BY <1>6, <1>7, <1>8

LEMMA CulpritsInside ==
    ASSUME NEW decl \in Declarations
    PROVE  Culprits(decl) \subseteq 0..Len(decl.fields)
  <1>1. Len(decl.fields) \in Nat
    BY DEF Declarations
  <1>2. BadFields(decl.fields) \cup RepeatedFields(decl.fields) \subseteq 1..Len(decl.fields)
    BY DEF BadFields, RepeatedFields, DeclaredChildren
  <1>3. QED
    BY <1>1, <1>2, CulpritsUnfold

-----------------------------------------------------------------------------
(* The derive.                                                             *)

\* A declaration is parsed once, and what came of it is looked at until the program is
\* mounted.
ParserInv ==
    /\ stage \in {"source", "rejected", "compiled", "mounted"}
    /\ stage = "source" => input \in Inputs
    /\ ParserExact

LEMMA DeriveExact ==
    ASSUME ParserInv, Derive
    PROVE  ParserInv'
  <1> DEFINE p == ParseComposite(input)
             fields == input.fields
  <1>1. input \in Declarations
    BY InputAssumption DEF ParserInv, Derive
  <1>2. /\ p.errors \in Seq(Errors) /\ Sites(p.errors) = Culprits(input)
        /\ p.errors = <<>> => ChildrenOf(p.children, fields)
    BY <1>1, ParseCompositeFacts
  <1>3. /\ errors' = p.errors /\ input' = input
        /\ children' = IF p.errors = <<>> THEN p.children ELSE <<>>
        /\ stage' = IF p.errors = <<>> THEN "compiled" ELSE "rejected"
    BY DEF Derive, Expand
  <1>4. p.errors = <<>> <=> Culprits(input) = {}
    BY <1>2, NoSites
  <1>5. Culprits(input)' = Culprits(input)
    BY <1>3
  <1> HIDE DEF p
  <1>6. CASE p.errors = <<>>
    <2> DEFINE list == p.children
    <2>1. stage' = "compiled" /\ children' = list /\ Culprits(input) = {}
            /\ ChildrenOf(list, fields)
      BY <1>2, <1>3, <1>4, <1>6
    <2> HIDE DEF list, fields
    <2>2. {list[i].field : i \in 1..Len(list)} = DeclaredChildren(fields)
      <3>1. \A x : x \in DeclaredChildren(fields) <=> \E i \in 1..Len(list) : x = list[i].field
        BY <2>1 DEF ChildrenOf
      <3>2. QED
        BY <3>1
    <2>3. \A i, j \in 1..Len(list) : i < j => list[i].field < list[j].field
      BY <2>1 DEF ChildrenOf
    <2>4. \A i \in 1..Len(list) :
            LET metas == MetasOf(fields[list[i].field].attrs, "child")
            IN  /\ list[i].path = ValueOf(metas, "path").text
                /\ list[i].lift = ValueOf(metas, "lift").text
                /\ list[i].extract = ValueOf(metas, "extract").text
      BY <2>1 DEF ChildrenOf, IsSpecOf
    <2>5. ParserExact'
      BY <1>3, <1>5, <2>1, <2>2, <2>3, <2>4 DEF ParserExact, fields
    <2>6. QED
      BY <2>1, <2>5 DEF ParserInv
  <1>7. CASE p.errors # <<>>
    <2>1. stage' = "rejected" /\ errors' = p.errors
      BY <1>3, <1>7
    <2>2. {errors'[i].site : i \in 1..Len(errors')} = Culprits(input)
      BY <1>2, <2>1 DEF Sites
    <2>3. ParserExact'
      BY <1>4, <1>5, <1>7, <2>1, <2>2 DEF ParserExact
    <2>4. QED
      BY <2>1, <2>3 DEF ParserInv
  <1>8. QED
    BY <1>6, <1>7

LEMMA ParserInvHolds == Spec => []ParserInv
  <1>1. Init => ParserInv
    BY DEF Init, ParserInv, ParserExact
  <1>2. ParserInv /\ [Next]_vars => ParserInv'
    <2> SUFFICES ASSUME ParserInv, [Next]_vars PROVE ParserInv'
      OBVIOUS
    <2>1. CASE Derive
      BY <2>1, DeriveExact
    <2>2. CASE Mount
      <3>1. stage' = "mounted"
        BY <2>2 DEF Mount
      <3>2. QED
        BY <3>1 DEF ParserInv, ParserExact
    <2>3. ASSUME UNCHANGED <<stage, input, errors, children>> PROVE ParserInv'
      BY <2>3 DEF ParserInv, ParserExact
    <2>4. CASE Process
      BY <2>3, <2>4 DEF Process
    <2>5. CASE CompleteTask
      BY <2>3, <2>5 DEF CompleteTask
    <2>6. CASE CompleteEffect
      BY <2>3, <2>6 DEF CompleteEffect
    <2>7. CASE SubscriptionFires
      BY <2>3, <2>7 DEF SubscriptionFires
    <2>8. CASE ViewDispatches
      BY <2>3, <2>8 DEF ViewDispatches
    <2>9. CASE UNCHANGED vars
      BY <2>3, <2>9 DEF vars
    <2>10. QED
      BY <2>1, <2>2, <2>4, <2>5, <2>6, <2>7, <2>8, <2>9 DEF Next
  <1>3. QED
    BY <1>1, <1>2, PTL DEF Spec

\* derive(Composite) accepts exactly the declarations that are well formed, with the
\* children as declared, and of another it reports every place that is wrong and no
\* other (parse_composite), whatever attributes and fields a declaration has.
THEOREM ParserExactHolds == Spec => []ParserExact
  <1>1. ParserInv => ParserExact
    BY DEF ParserInv
  <1>2. QED
    BY <1>1, ParserInvHolds, PTL

-----------------------------------------------------------------------------
(* The tree of models.                                                     *)

\* The children of the root and of a panel, as the derive leaves them.
Grown == GoodSpecs(children) /\ GoodSpecs(panel)

\* The children of a model.
Below(n) == 1..Len(SpecsOf(n))

LEMMA SpecsAreGood ==
    ASSUME Grown
    PROVE  \A n : GoodSpecs(SpecsOf(n))
  <1> SUFFICES ASSUME NEW n PROVE GoodSpecs(SpecsOf(n))
    OBVIOUS
  <1>1. GoodSpecs(<<>>)
    BY DEF GoodSpecs
  <1>2. SpecsOf(n) \in {children, panel, <<>>}
    <2>1. CASE n = RootModel
      BY <2>1 DEF SpecsOf
    <2>2. CASE n # RootModel /\ Len(n) = 1 /\ children[n[1]].type = "Panel"
      BY <2>2 DEF SpecsOf
    <2>3. CASE n # RootModel /\ ~(Len(n) = 1 /\ children[n[1]].type = "Panel")
      BY <2>3 DEF SpecsOf
    <2>4. QED
      BY <2>1, <2>2, <2>3
  <1>3. QED
    BY <1>1, <1>2 DEF Grown

LEMMA GoodSpecsFacts ==
    ASSUME NEW specs, GoodSpecs(specs)
    PROVE  /\ specs \in Seq(Specs) /\ Len(specs) \in Nat
           /\ \A i \in 1..Len(specs) : specs[i] \in Specs /\ specs[i].path # ""
           /\ \A i, j \in 1..Len(specs) : specs[i].path = specs[j].path => i = j
  <1>1. specs \in Seq(Specs)
    BY DEF GoodSpecs
  <1>2. Len(specs) \in Nat /\ \A i \in 1..Len(specs) : specs[i] \in Specs
    BY <1>1
  <1>3. QED
    BY <1>1, <1>2 DEF GoodSpecs

LEMMA SpecsFacts ==
    ASSUME Grown
    PROVE  /\ \A n : SpecsOf(n) \in Seq(Specs) /\ Len(SpecsOf(n)) \in Nat
           /\ \A n : \A i \in Below(n) : SpecsOf(n)[i] \in Specs /\ SpecsOf(n)[i].path # ""
           /\ \A n : \A i, j \in Below(n) : SpecsOf(n)[i].path = SpecsOf(n)[j].path => i = j
  <1>1. ASSUME NEW n
        PROVE  /\ SpecsOf(n) \in Seq(Specs) /\ Len(SpecsOf(n)) \in Nat
               /\ \A i \in Below(n) : SpecsOf(n)[i] \in Specs /\ SpecsOf(n)[i].path # ""
               /\ \A i, j \in Below(n) : SpecsOf(n)[i].path = SpecsOf(n)[j].path => i = j
    <2> DEFINE g == SpecsOf(n)
    <2>1. GoodSpecs(g)
      BY SpecsAreGood
    <2> HIDE DEF g
    <2>2. /\ g \in Seq(Specs) /\ Len(g) \in Nat
          /\ \A i \in 1..Len(g) : g[i] \in Specs /\ g[i].path # ""
          /\ \A i, j \in 1..Len(g) : g[i].path = g[j].path => i = j
      BY <2>1, GoodSpecsFacts
    <2>3. QED
      BY <2>2 DEF g, Below
  <1>2. QED
    BY <1>1

\* A model three levels down has no children: a panel's are leaves.
LEMMA ModelsUnfold ==
    ASSUME Grown
    PROVE  /\ RootModel \in Models /\ SpecsOf(RootModel) = children
           /\ \A n \in Models : \/ n = RootModel
                                \/ \E i \in Below(RootModel) : n = <<i>>
                                \/ \E i \in Below(RootModel) : \E j \in Below(<<i>>) : n = <<i, j>>
           /\ \A i \in Below(RootModel) : <<i>> \in Models
           /\ \A i \in Below(RootModel) : \A j \in Below(<<i>>) : <<i, j>> \in Models
           /\ \A i, j : SpecsOf(<<i, j>>) = <<>>
  <1>1. SpecsOf(RootModel) = children
    <2>1. Len(RootModel) = 0
      BY DEF RootModel
    <2>2. QED
      BY <2>1 DEF SpecsOf
  <1>2. Models = {RootModel} \cup {<<i>> : i \in Below(RootModel)}
                   \cup UNION {{<<i, j>> : j \in Below(<<i>>)} : i \in Below(RootModel)}
    BY <1>1 DEF Models, Below
  <1>3. \A i, j : SpecsOf(<<i, j>>) = <<>>
    <2> SUFFICES ASSUME NEW i, NEW j PROVE SpecsOf(<<i, j>>) = <<>>
      OBVIOUS
    <2>1. <<i, j>> # RootModel /\ Len(<<i, j>>) # 1
      BY DEF RootModel
    <2>2. QED
      BY <2>1 DEF SpecsOf
  <1>4. \A n : n \in Models <=>
          \/ n = RootModel
          \/ \E i \in Below(RootModel) : n = <<i>>
          \/ \E i \in Below(RootModel) : \E j \in Below(<<i>>) : n = <<i, j>>
    <2> DEFINE A == {<<i>> : i \in Below(RootModel)}
               B == UNION {{<<i, j>> : j \in Below(<<i>>)} : i \in Below(RootModel)}
    <2>1. \A n : n \in A <=> \E i \in Below(RootModel) : n = <<i>>
      OBVIOUS
    <2>2. \A n : n \in B <=> \E i \in Below(RootModel) : \E j \in Below(<<i>>) : n = <<i, j>>
      OBVIOUS
    <2>3. Models = ({RootModel} \cup A) \cup B
      BY <1>2
    <2> HIDE DEF A, B
    <2>4. QED
      BY <2>1, <2>2, <2>3
  <1>5. QED
    BY <1>1, <1>3, <1>4

LEMMA AppendFacts ==
    ASSUME NEW n \in Seq(Nat), NEW i \in Nat
    PROVE  /\ Append(n, i) \in Seq(Nat) /\ Append(n, i) # <<>> /\ Len(Append(n, i)) = Len(n) + 1
           /\ Front(Append(n, i)) = n /\ Last(Append(n, i)) = i
           /\ SpecOf(Append(n, i)) = SpecsOf(n)[i]
  <1>1. /\ Append(n, i) \in Seq(Nat) /\ Append(n, i) # <<>> /\ Len(Append(n, i)) = Len(n) + 1
        /\ Append(n, i)[Len(n) + 1] = i
    OBVIOUS
  <1>2. Last(Append(n, i)) = i
    BY <1>1 DEF Last
  <1>3. Front(Append(n, i)) = n
    BY <1>1 DEF Front
  <1>4. QED
    BY <1>1, <1>2, <1>3 DEF SpecOf

LEMMA ShortModels ==
    \A i \in Nat : /\ Append(RootModel, i) = <<i>> /\ <<i>> \in Seq(Nat)
                  /\ \A j \in Nat : Append(<<i>>, j) = <<i, j>> /\ <<i, j>> \in Seq(Nat)
  <1> SUFFICES ASSUME NEW i \in Nat, NEW j \in Nat
               PROVE  /\ Append(RootModel, i) = <<i>> /\ <<i>> \in Seq(Nat)
                      /\ Append(<<i>>, j) = <<i, j>> /\ <<i, j>> \in Seq(Nat)
    OBVIOUS
  <1>1. RootModel \in Seq(Nat) /\ Len(RootModel) = 0
    BY DEF RootModel
  <1> HIDE DEF RootModel
  <1>2. <<i>> \in Seq(Nat) /\ <<i, j>> \in Seq(Nat)
    OBVIOUS
  <1>3. Append(RootModel, i) = <<i>>
    BY <1>1, <1>2
  <1>4. Append(<<i>>, j) = <<i, j>>
    <2> DEFINE a == <<i>>
               b == Append(a, j)
               d == <<i, j>>
    <2>1. a \in Seq(Nat) /\ Len(a) = 1 /\ a[1] = i
      OBVIOUS
    <2>2. d \in Seq(Nat) /\ Len(d) = 2 /\ d[1] = i /\ d[2] = j
      OBVIOUS
    <2> HIDE DEF a, d
    <2>7. /\ b \in Seq(Nat) /\ Len(b) = Len(a) + 1
          /\ b[Len(a) + 1] = j /\ \A k \in 1..Len(a) : b[k] = a[k]
      <3>1. a \in Seq(Nat) /\ Len(a) \in Nat
        BY <2>1
      <3>2. b \in Seq(Nat) /\ Len(b) = Len(a) + 1
        BY <3>1
      <3>3. b[Len(a) + 1] = j
        BY <3>1
      <3>4. \A k \in 1..Len(a) : b[k] = a[k]
        BY <3>1
      <3>5. QED
        BY <3>2, <3>3, <3>4
    <2>8. Len(a) + 1 = 2 /\ 1 \in 1..Len(a)
      BY <2>1
    <2>3. b \in Seq(Nat) /\ Len(b) = 2 /\ b[1] = i /\ b[2] = j
      BY <2>1, <2>7, <2>8
    <2> HIDE DEF b
    <2>4. \A k \in 1..2 : b[k] = d[k]
      BY <2>2, <2>3
    <2>5. b = d
      BY <2>2, <2>3, <2>4
    <2>6. QED
      BY <2>5 DEF a, b, d
  <1>5. QED
    BY <1>2, <1>3, <1>4

\* Every model but the root is a child of a model.
LEMMA ModelsGrow ==
    ASSUME Grown
    PROVE  /\ Models \in SUBSET Seq(Nat)
           /\ \A n \in Models : \A i \in Below(n) : i \in Nat /\ Append(n, i) \in Models
           /\ \A n \in Models : n # RootModel =>
                \E m \in Models : \E i \in Below(m) : n = Append(m, i)
  <1>1. \A n : \A i \in Below(n) : i \in Nat
    BY DEF Below
  <1>2. \A i \in Nat : Append(RootModel, i) = <<i>> /\ \A j \in Nat : Append(<<i>>, j) = <<i, j>>
    BY ShortModels
  <1>3. \A i, j : Below(<<i, j>>) = {}
    <2> SUFFICES ASSUME NEW i, NEW j PROVE Below(<<i, j>>) = {}
      OBVIOUS
    <2>1. Len(SpecsOf(<<i, j>>)) = 0
      BY ModelsUnfold
    <2>2. QED
      BY <2>1 DEF Below
  <1>4. Models \in SUBSET Seq(Nat)
    <2>1. RootModel \in Seq(Nat)
      BY DEF RootModel
    <2>2. ASSUME NEW n \in Models PROVE n \in Seq(Nat)
      <3>1. CASE n = RootModel
        BY <3>1, <2>1
      <3>2. CASE \E i \in Below(RootModel) : n = <<i>>
        BY <3>2, <1>1, ShortModels
      <3>3. CASE \E i \in Below(RootModel) : \E j \in Below(<<i>>) : n = <<i, j>>
        BY <3>3, <1>1, ShortModels
      <3>4. QED
        BY <3>1, <3>2, <3>3, ModelsUnfold
    <2>3. QED
      BY <2>2
  <1>5. \A n \in Models : \A i \in Below(n) : Append(n, i) \in Models
    <2> SUFFICES ASSUME NEW n \in Models, NEW i \in Below(n) PROVE Append(n, i) \in Models
      OBVIOUS
    <2>1. CASE n = RootModel
      BY <2>1, <1>1, <1>2, ModelsUnfold
    <2>2. CASE \E k \in Below(RootModel) : n = <<k>>
      <3>1. PICK k \in Below(RootModel) : n = <<k>>
        BY <2>2
      <3>2. k \in Nat /\ i \in Nat /\ i \in Below(<<k>>)
        BY <1>1, <3>1
      <3>3. Append(n, i) = <<k, i>>
        BY <1>2, <3>1, <3>2
      <3>4. QED
        BY <3>2, <3>3, ModelsUnfold
    <2>3. CASE \E k \in Below(RootModel) : \E l \in Below(<<k>>) : n = <<k, l>>
      BY <2>3, <1>3
    <2>4. QED
      BY <2>1, <2>2, <2>3, ModelsUnfold
  <1>6. \A n \in Models : n # RootModel => \E m \in Models : \E i \in Below(m) : n = Append(m, i)
    <2> SUFFICES ASSUME NEW n \in Models, n # RootModel
                 PROVE  \E m \in Models : \E i \in Below(m) : n = Append(m, i)
      OBVIOUS
    <2>1. CASE \E i \in Below(RootModel) : n = <<i>>
      BY <2>1, <1>1, <1>2, ModelsUnfold
    <2>2. CASE \E i \in Below(RootModel) : \E j \in Below(<<i>>) : n = <<i, j>>
      BY <2>2, <1>1, <1>2, ModelsUnfold
    <2>3. QED
      BY <2>1, <2>2, ModelsUnfold
  <1>7. QED
    BY <1>1, <1>4, <1>5, <1>6

\* What holds of the root, and of a child when it holds of its parent, holds of all.
LEMMA DownTheTree ==
    ASSUME Grown, NEW T, RootModel \in T,
           \A n \in Models : n \in T => \A i \in Below(n) : Append(n, i) \in T
    PROVE  Models \subseteq T
  <1> USE DEF Below
  <1>0. \A n : \A i \in Below(n) : i \in Nat
    OBVIOUS
  <1> HIDE DEF Below
  <1>1. \A i \in Nat : Append(RootModel, i) = <<i>> /\ \A j \in Nat : Append(<<i>>, j) = <<i, j>>
    BY ShortModels
  <1>2. \A i \in Below(RootModel) : <<i>> \in T
    BY <1>0, <1>1, ModelsUnfold
  <1>3. ASSUME NEW i \in Below(RootModel), NEW j \in Below(<<i>>) PROVE <<i, j>> \in T
    <2>1. <<i>> \in Models /\ <<i>> \in T
      BY <1>2, ModelsUnfold
    <2>2. Append(<<i>>, j) \in T
      BY <2>1
    <2>3. QED
      BY <1>0, <1>1, <2>2
  <1>4. QED
    BY <1>2, <1>3, ModelsUnfold

\* What holds of a model when it holds of its children, holds of all.
LEMMA UpTheTree ==
    ASSUME Grown, NEW T,
           \A n \in Models : (\A i \in Below(n) : Append(n, i) \in T) => n \in T
    PROVE  Models \subseteq T
  <1>0. \A n : \A i \in Below(n) : i \in Nat
    BY DEF Below
  <1>1. \A i \in Nat : Append(RootModel, i) = <<i>> /\ \A j \in Nat : Append(<<i>>, j) = <<i, j>>
    BY ShortModels
  <1>2. \A i, j : Below(<<i, j>>) = {}
    <2> SUFFICES ASSUME NEW i, NEW j PROVE Below(<<i, j>>) = {}
      OBVIOUS
    <2>1. Len(SpecsOf(<<i, j>>)) = 0
      BY ModelsUnfold
    <2>2. QED
      BY <2>1 DEF Below
  <1>3. \A i \in Below(RootModel) : \A j \in Below(<<i>>) : <<i, j>> \in T
    BY <1>2, ModelsUnfold
  <1>4. ASSUME NEW i \in Below(RootModel) PROVE <<i>> \in T
    <2>1. <<i>> \in Models
      BY ModelsUnfold
    <2>2. \A j \in Below(<<i>>) : Append(<<i>>, j) \in T
      BY <1>0, <1>1, <1>3
    <2>3. QED
      BY <2>1, <2>2
  <1>5. RootModel \in T
    <2>1. \A i \in Below(RootModel) : Append(RootModel, i) \in T
      BY <1>0, <1>1, <1>4
    <2>2. QED
      BY <2>1, ModelsUnfold
  <1>6. QED
    BY <1>3, <1>4, <1>5, ModelsUnfold

\* The way down to a child, and the way up from it.
LEMMA WaysOfChild ==
    ASSUME NEW n \in Seq(Nat), NEW i \in Nat
    PROVE  /\ Ancestors(n) \in Seq(Seq(Nat)) /\ Upwards(n) \in Seq(Seq(Nat))
           /\ Ancestors(Append(n, i)) = Append(Ancestors(n), Append(n, i))
           /\ Upwards(Append(n, i)) = <<Append(n, i)>> \o Upwards(n)
  <1> DEFINE c == Append(n, i)
             l == Len(n)
  <1>1. /\ c \in Seq(Nat) /\ Len(c) = l + 1 /\ l \in Nat
        /\ \A k \in 1..l : c[k] = n[k]
    OBVIOUS
  <1>2. \A m \in Seq(Nat) : \A k \in 0..Len(m) : SubSeq(m, 1, k) \in Seq(Nat)
    OBVIOUS
  <1>3. SubSeq(c, 1, l + 1) = c
    OBVIOUS
  <1>4. \A k \in 0..l : SubSeq(c, 1, k) = SubSeq(n, 1, k)
    OBVIOUS
  <1>5. \A m \in Seq(Nat) : Ancestors(m) \in Seq(Seq(Nat)) /\ Len(Ancestors(m)) = Len(m)
    BY <1>2 DEF Ancestors
  <1>6. \A m \in Seq(Nat) : Upwards(m) \in Seq(Seq(Nat)) /\ Len(Upwards(m)) = Len(m)
    <2> SUFFICES ASSUME NEW m \in Seq(Nat)
                 PROVE  Upwards(m) \in Seq(Seq(Nat)) /\ Len(Upwards(m)) = Len(m)
      OBVIOUS
    <2>1. \A k \in 1..Len(m) : Len(m) + 1 - k \in 0..Len(m)
      OBVIOUS
    <2>2. \A k \in 1..Len(m) : SubSeq(m, 1, Len(m) + 1 - k) \in Seq(Nat)
      BY <1>2, <2>1
    <2>3. QED
      BY <2>2 DEF Upwards
  <1> DEFINE a == Ancestors(n)
             u == Upwards(n)
  <1>7. /\ a \in Seq(Seq(Nat)) /\ Len(a) = l /\ u \in Seq(Seq(Nat)) /\ Len(u) = l
        /\ \A k \in 1..l : a[k] = SubSeq(n, 1, k)
        /\ \A k \in 1..l : u[k] = SubSeq(n, 1, l + 1 - k)
    BY <1>5, <1>6 DEF Ancestors, Upwards
  <1> HIDE DEF c, l
  <1>8. /\ Ancestors(c) = [k \in 1..(l + 1) |-> SubSeq(c, 1, k)]
        /\ Upwards(c) = [k \in 1..(l + 1) |-> SubSeq(c, 1, l + 2 - k)]
    BY <1>1 DEF Ancestors, Upwards
  <1> HIDE DEF a, u
  <1>12. c \in Seq(Nat)
    BY <1>1
  <1>9. Ancestors(c) = Append(a, c)
    <2>1. Append(a, c) = [k \in 1..(l + 1) |-> IF k = l + 1 THEN c ELSE a[k]]
      <3> DEFINE N == Seq(Nat)
      <3>1. a \in Seq(N) /\ c \in N /\ Len(a) = l /\ l \in Nat
        BY <1>1, <1>7
      <3> HIDE DEF N
      <3> DEFINE b == Append(a, c)
      <3>2. b \in Seq(N) /\ Len(b) = l + 1 /\ b[l + 1] = c /\ \A k \in 1..l : b[k] = a[k]
        BY <3>1
      <3> HIDE DEF b
      <3>3. b = [k \in 1..(l + 1) |-> b[k]]
        BY <3>1, <3>2
      <3>4. \A k \in 1..(l + 1) : b[k] = IF k = l + 1 THEN c ELSE a[k]
        BY <3>1, <3>2
      <3>5. QED
        BY <3>3, <3>4 DEF b
    <2>2. ASSUME NEW k \in 1..(l + 1)
          PROVE  SubSeq(c, 1, k) = IF k = l + 1 THEN c ELSE a[k]
      <3>1. CASE k = l + 1
        BY <1>3, <3>1
      <3>2. CASE k # l + 1
        <4>1. k \in 1..l /\ k \in 0..l
          BY <1>1, <3>2
        <4>2. SubSeq(c, 1, k) = SubSeq(n, 1, k) /\ a[k] = SubSeq(n, 1, k)
          BY <1>4, <1>7, <4>1
        <4>3. QED
          BY <3>2, <4>2
      <3>3. QED
        BY <3>1, <3>2
    <2>3. QED
      BY <1>8, <2>1, <2>2
  <1>10. Upwards(c) = <<c>> \o u
    <2>1. <<c>> \o u = [k \in 1..(l + 1) |-> IF k = 1 THEN c ELSE u[k - 1]]
      <3> DEFINE N == Seq(Nat)
      <3>1. u \in Seq(N) /\ c \in N /\ Len(u) = l /\ l \in Nat
        BY <1>1, <1>7
      <3> HIDE DEF N
      <3>2. <<c>> \in Seq(N) /\ Len(<<c>>) = 1 /\ <<c>>[1] = c
        BY <3>1
      <3> DEFINE q == <<c>>
      <3> HIDE DEF q
      <3>3. q \o u = [k \in 1..(1 + l) |-> IF k <= 1 THEN q[k] ELSE u[k - 1]]
        BY <3>1, <3>2 DEF q
      <3>4. 1 + l = l + 1 /\ \A k \in 1..(l + 1) : k <= 1 <=> k = 1
        BY <3>1
      <3>5. QED
        BY <3>2, <3>3, <3>4 DEF q
    <2>2. ASSUME NEW k \in 1..(l + 1)
          PROVE  SubSeq(c, 1, l + 2 - k) = IF k = 1 THEN c ELSE u[k - 1]
      <3>1. CASE k = 1
        BY <1>1, <1>3, <3>1
      <3>2. CASE k # 1
        <4>1. /\ k - 1 \in 1..l /\ l + 2 - k \in 0..l /\ l + 1 - (k - 1) = l + 2 - k
          BY <1>1, <3>2
        <4>2. QED
          BY <1>4, <1>7, <3>2, <4>1
      <3>3. QED
        BY <3>1, <3>2
    <2>3. QED
      BY <1>8, <2>1, <2>2
  <1>11. QED
    BY <1>7, <1>9, <1>10 DEF a, u, c

LEMMA WaysOfRoot == Ancestors(RootModel) = <<>> /\ Upwards(RootModel) = <<>>
  BY DEF Ancestors, Upwards, RootModel

-----------------------------------------------------------------------------
(* Contexts and constructors on the way to a model.                        *)

LEMMA ContextIsFold ==
    \A n, M : Ancestors(n) \in Seq(M) =>
        ContextOf(n) = Walk!Fold(For("contexts", 0), RootContext, Ancestors(n))
  <1> SUFFICES ASSUME NEW n, NEW M, Ancestors(n) \in Seq(M)
               PROVE  ContextOf(n) = Walk!Fold(For("contexts", 0), RootContext, Ancestors(n))
    OBVIOUS
  <1> DEFINE l == Len(Ancestors(n))
             Of(g, d) == IF d = {} THEN RootContext
                         ELSE Scope(g[d \ {Max(d)}], SpecOf(Ancestors(n)[Max(d)]).path)
             f == CHOOSE g : g = [d \in SUBSET (DOMAIN Ancestors(n)) |-> Of(g, d)]
  <1>1. ContextOf(n) = f[DOMAIN Ancestors(n)]
    BY DEF ContextOf, FoldLeft, MapThenFoldSet
  <1>2. DOMAIN Ancestors(n) = 1..l
    OBVIOUS
  <1>3. \A g, d : Walk!FoldOf(For("contexts", 0), RootContext, Ancestors(n), g, d) = Of(g, d)
    <2>1. \A x, e : WalkStep(For("contexts", 0), x, e) = Scope(x, SpecOf(e).path)
      BY StepOfContexts
    <2>2. QED
      BY <2>1 DEF Walk!FoldOf, Walk!Max, Max
  <1> HIDE DEF Of
  <1>4. \A g : Walk!IsFolds(g, For("contexts", 0), RootContext, Ancestors(n), l)
                 <=> g = [d \in SUBSET (1..l) |-> Of(g, d)]
    BY <1>3 DEF Walk!IsFolds
  <1>5. (\E g : Walk!IsFolds(g, For("contexts", 0), RootContext, Ancestors(n), l))
          => Walk!IsFolds(f, For("contexts", 0), RootContext, Ancestors(n), l)
    BY <1>2, <1>4
  <1> HIDE DEF f
  <1>6. QED
    BY <1>1, <1>2, <1>5, Walk!FoldIs

\* The ChildSpecs on the way to a model.
Chain(n) == [k \in 1..Len(n) |-> SpecsOf(SubSeq(n, 1, k - 1))[n[k]]]

\* The constructors around a message of a model at the root.
Lifts(n) == [k \in 1..Len(n) |-> Chain(n)[k].lift]

Paths(n) == [k \in 1..Len(n) |-> Chain(n)[k].path]

LEMMA AppendIs ==
    \A M : \A s \in Seq(M), e \in M :
        /\ Append(s, e) \in Seq(M) /\ Len(Append(s, e)) = Len(s) + 1 /\ Len(s) \in Nat
        /\ Append(s, e)[Len(s) + 1] = e
        /\ \A k \in 1..Len(s) : Append(s, e)[k] = s[k]
        /\ Append(s, e) = [k \in 1..(Len(s) + 1) |-> Append(s, e)[k]]
  <1> SUFFICES ASSUME NEW M, NEW s \in Seq(M), NEW e \in M
               PROVE  /\ Append(s, e) \in Seq(M) /\ Len(Append(s, e)) = Len(s) + 1
                      /\ Len(s) \in Nat /\ Append(s, e)[Len(s) + 1] = e
                      /\ \A k \in 1..Len(s) : Append(s, e)[k] = s[k]
                      /\ Append(s, e) = [k \in 1..(Len(s) + 1) |-> Append(s, e)[k]]
    OBVIOUS
  <1> DEFINE a == Append(s, e)
  <1>1. /\ a \in Seq(M) /\ Len(a) = Len(s) + 1 /\ a[Len(s) + 1] = e
        /\ \A k \in 1..Len(s) : a[k] = s[k]
    BY AppendProperties
  <1>2. Len(s) \in Nat
    OBVIOUS
  <1> HIDE DEF a
  <1>3. a = [k \in 1..(Len(s) + 1) |-> a[k]]
    BY <1>1, <1>2
  <1>4. QED
    BY <1>1, <1>2, <1>3 DEF a

LEMMA AppendsSame ==
    \A M : \A s, t \in Seq(M), e, f \in M : Append(s, e) = Append(t, f) => s = t /\ e = f
  <1> SUFFICES ASSUME NEW M, NEW s \in Seq(M), NEW t \in Seq(M), NEW e \in M, NEW f \in M,
                      Append(s, e) = Append(t, f)
               PROVE  s = t /\ e = f
    OBVIOUS
  <1>1. QED
    BY AppendInjective

LEMMA ChainOfChild ==
    ASSUME NEW n \in Seq(Nat), NEW i \in Nat
    PROVE  /\ Len(Chain(Append(n, i))) = Len(n) + 1
           /\ Chain(Append(n, i))[Len(n) + 1] = SpecsOf(n)[i]
           /\ \A k \in 1..Len(n) : Chain(Append(n, i))[k] = Chain(n)[k]
  <1> DEFINE c == Append(n, i)
             l == Len(n)
  <1>1. /\ Len(c) = l + 1 /\ l \in Nat /\ c[l + 1] = i
        /\ \A k \in 1..l : c[k] = n[k]
    OBVIOUS
  <1>2. SubSeq(c, 1, l) = n
    OBVIOUS
  <1>3. \A k \in 1..l : SubSeq(c, 1, k - 1) = SubSeq(n, 1, k - 1)
    OBVIOUS
  <1>4. Chain(n) = [k \in 1..l |-> SpecsOf(SubSeq(n, 1, k - 1))[n[k]]]
    BY DEF Chain
  <1> HIDE DEF c, l
  <1>5. Chain(c) = [k \in 1..(l + 1) |-> SpecsOf(SubSeq(c, 1, k - 1))[c[k]]]
    BY <1>1 DEF Chain
  <1>6. Len(Chain(c)) = l + 1
    BY <1>1, <1>5
  <1>10. \A k \in 1..(l + 1) : Chain(c)[k] = SpecsOf(SubSeq(c, 1, k - 1))[c[k]]
    BY <1>5
  <1>11. ASSUME NEW k \in 1..(l + 1), NEW j, j = k - 1
         PROVE  Chain(c)[k] = SpecsOf(SubSeq(c, 1, j))[c[k]]
    BY <1>10, <1>11
  <1>7. Chain(c)[l + 1] = SpecsOf(n)[i]
    <2> DEFINE k == l + 1
    <2>2. k \in 1..(l + 1) /\ l = k - 1 /\ c[k] = i
      BY <1>1
    <2> HIDE DEF k
    <2>3. Chain(c)[k] = SpecsOf(SubSeq(c, 1, l))[c[k]]
      BY <1>11, <2>2
    <2>4. Chain(c)[k] = SpecsOf(n)[i]
      BY <1>2, <2>2, <2>3
    <2>5. QED
      BY <2>4 DEF k
  <1>8. \A k \in 1..l : Chain(c)[k] = Chain(n)[k]
    <2> SUFFICES ASSUME NEW k \in 1..l PROVE Chain(c)[k] = Chain(n)[k]
      OBVIOUS
    <2>1. k \in 1..(l + 1)
      BY <1>1
    <2>2. Chain(c)[k] = SpecsOf(SubSeq(c, 1, k - 1))[c[k]]
      BY <1>10, <2>1
    <2>3. Chain(n)[k] = SpecsOf(SubSeq(n, 1, k - 1))[n[k]]
      BY <1>4
    <2>4. QED
      BY <1>1, <1>3, <2>2, <2>3
  <1>9. QED
    BY <1>6, <1>7, <1>8 DEF c, l

LEMMA LiftsOfChild ==
    ASSUME NEW n \in Seq(Nat), NEW i \in Nat, NEW M,
           Lifts(n) \in Seq(M), SpecsOf(n)[i].lift \in M,
           Paths(n) \in Seq(M), SpecsOf(n)[i].path \in M
    PROVE  /\ Lifts(Append(n, i)) = Append(Lifts(n), SpecsOf(n)[i].lift)
           /\ Paths(Append(n, i)) = Append(Paths(n), SpecsOf(n)[i].path)
  <1> DEFINE c == Append(n, i)
             l == Len(n)
             h == Chain(c)
             g == Chain(n)
  <1>1. /\ Len(c) = l + 1 /\ l \in Nat
    OBVIOUS
  <1>2. /\ h[l + 1] = SpecsOf(n)[i] /\ \A k \in 1..l : h[k] = g[k]
    BY ChainOfChild
  <1>3. /\ Lifts(n) = [k \in 1..l |-> g[k].lift] /\ Paths(n) = [k \in 1..l |-> g[k].path]
    BY DEF Lifts, Paths
  <1>4. Lifts(c) = [k \in 1..Len(c) |-> h[k].lift] /\ Paths(c) = [k \in 1..Len(c) |-> h[k].path]
    BY DEF Lifts, Paths
  <1> HIDE DEF c, l, h, g
  <1>5. ASSUME NEW s \in Seq(M), NEW e \in M, Len(s) = l, NEW t,
               t = [k \in 1..(l + 1) |-> t[k]], t[l + 1] = e, \A k \in 1..l : t[k] = s[k]
        PROVE  t = Append(s, e)
    <2>1. /\ Append(s, e) = [k \in 1..(l + 1) |-> Append(s, e)[k]] /\ Append(s, e)[l + 1] = e
          /\ \A k \in 1..l : Append(s, e)[k] = s[k]
      BY <1>5, AppendIs
    <2>2. \A k \in 1..(l + 1) : k = l + 1 \/ k \in 1..l
      BY <1>1
    <2>3. \A k \in 1..(l + 1) : t[k] = Append(s, e)[k]
      BY <1>5, <2>1, <2>2
    <2>4. QED
      BY <1>5, <2>1, <2>3
  <1>6. Len(Lifts(n)) = l /\ Len(Paths(n)) = l
    BY <1>1, <1>3
  <1>7. l + 1 \in 1..(l + 1) /\ \A k \in 1..l : k \in 1..(l + 1)
    BY <1>1
  <1>8. Lifts(c) = Append(Lifts(n), SpecsOf(n)[i].lift)
    <2> DEFINE t == Lifts(c)
    <2>1. t = [k \in 1..(l + 1) |-> h[k].lift]
      BY <1>1, <1>4
    <2>2. t[l + 1] = SpecsOf(n)[i].lift /\ \A k \in 1..l : t[k] = Lifts(n)[k]
      BY <1>2, <1>3, <1>7, <2>1
    <2>3. t = [k \in 1..(l + 1) |-> t[k]]
      BY <2>1
    <2> HIDE DEF t
    <2>4. QED
      BY <1>5, <1>6, <2>2, <2>3 DEF t
  <1>9. Paths(c) = Append(Paths(n), SpecsOf(n)[i].path)
    <2> DEFINE t == Paths(c)
    <2>1. t = [k \in 1..(l + 1) |-> h[k].path]
      BY <1>1, <1>4
    <2>2. t[l + 1] = SpecsOf(n)[i].path /\ \A k \in 1..l : t[k] = Paths(n)[k]
      BY <1>2, <1>3, <1>7, <2>1
    <2>3. t = [k \in 1..(l + 1) |-> t[k]]
      BY <2>1
    <2> HIDE DEF t
    <2>4. QED
      BY <1>5, <1>6, <2>2, <2>3 DEF t
  <1>10. QED
    BY <1>8, <1>9 DEF c

\* The context of a model is the path to it, which has one segment per level.
LEMMA ModelFacts ==
    ASSUME Grown
    PROVE  /\ \A n \in Models : /\ Lifts(n) \in Seq(STRING) /\ Len(Lifts(n)) = Len(n)
                                /\ ContextOf(n) \in Seq(STRING) /\ Len(ContextOf(n)) = Len(n)
                                /\ ContextOf(n) = Paths(n) /\ n \in Seq(Nat)
           /\ Lifts(RootModel) = <<>> /\ ContextOf(RootModel) = <<>>
           /\ \A n \in Models : \A i \in Below(n) :
                /\ ContextOf(Append(n, i)) = Append(ContextOf(n), SpecsOf(n)[i].path)
                /\ Lifts(Append(n, i)) = Append(Lifts(n), SpecsOf(n)[i].lift)
  <1>1. Lifts(RootModel) = <<>> /\ Paths(RootModel) = <<>>
    BY DEF Lifts, Paths, RootModel
  <1>2. ContextOf(RootModel) = <<>>
    <2>1. Ancestors(RootModel) = <<>> /\ <<>> \in Seq({})
      BY WaysOfRoot
    <2>2. ContextOf(RootModel) = Walk!Fold(For("contexts", 0), RootContext, <<>>)
      BY <2>1, ContextIsFold
    <2>3. QED
      BY <2>2, Walk!FoldEmpty DEF RootContext, Root
  <1> DEFINE Fine(n) == /\ Lifts(n) \in Seq(STRING) /\ Len(Lifts(n)) = Len(n)
                        /\ ContextOf(n) \in Seq(STRING) /\ Len(ContextOf(n)) = Len(n)
                        /\ ContextOf(n) = Paths(n) /\ n \in Seq(Nat)
             T == {n \in Models : Fine(n)}
  <1>3. RootModel \in T
    <2>1. <<>> \in Seq(STRING) /\ Len(<<>>) = 0 /\ RootModel = <<>> /\ <<>> \in Seq(Nat)
      BY DEF RootModel
    <2>2. QED
      BY <1>1, <1>2, <2>1, ModelsUnfold
  <1>4. ASSUME NEW n \in Models, n \in T, NEW i \in Below(n)
        PROVE  /\ Append(n, i) \in T
               /\ ContextOf(Append(n, i)) = Append(ContextOf(n), SpecsOf(n)[i].path)
               /\ Lifts(Append(n, i)) = Append(Lifts(n), SpecsOf(n)[i].lift)
    <2> DEFINE c == Append(n, i)
               path == SpecsOf(n)[i].path
               lift == SpecsOf(n)[i].lift
               context == ContextOf(n)
    <2>1. n \in Seq(Nat) /\ i \in Nat /\ c \in Models
      BY ModelsGrow
    <2>2. path \in STRING /\ lift \in STRING
      <3>1. SpecsOf(n)[i] \in Specs
        BY SpecsFacts
      <3>2. QED
        BY <3>1 DEF Specs
    <2>3. context \in Seq(STRING) /\ Lifts(n) \in Seq(STRING) /\ Paths(n) = context
      BY <1>4
    <2>4. Lifts(c) = Append(Lifts(n), lift) /\ Paths(c) = Append(context, path)
      BY <2>1, <2>2, <2>3, LiftsOfChild
    <2>5. ContextOf(c) = Scope(context, SpecOf(c).path)
      <3>1. Ancestors(n) \in Seq(Seq(Nat)) /\ Ancestors(c) = Append(Ancestors(n), c)
              /\ c \in Seq(Nat)
        BY <2>1, WaysOfChild, AppendFacts
      <3> HIDE DEF c, context
      <3> DEFINE W == For("contexts", 0)
      <3>2. Walk!Fold(W, RootContext, Append(Ancestors(n), c))
              = WalkStep(W, Walk!Fold(W, RootContext, Ancestors(n)), c)
        BY <3>1, Walk!FoldAppend
      <3>4. Ancestors(c) \in Seq(Seq(Nat))
        BY <3>1
      <3>3. QED
        <4>1. /\ ContextOf(n) = Walk!Fold(W, RootContext, Ancestors(n))
              /\ ContextOf(c) = Walk!Fold(W, RootContext, Ancestors(c))
          BY <3>1, <3>4, ContextIsFold
        <4>2. QED
          BY <3>1, <3>2, <4>1, StepOfContexts DEF context
    <2>6. SpecOf(c) = SpecsOf(n)[i]
      BY <2>1, AppendFacts
    <2> HIDE DEF c, path, context
    <2>7. ContextOf(c) = context \o <<path>>
      <3>1. Append(<<>>, path) = <<path>>
        BY <2>2
      <3>2. QED
        BY <2>5, <2>6, <3>1 DEF Scope, Join, PathOf, ChildOf, Root, path
    <2>8. context \o <<path>> = Append(context, path)
      BY <2>2, <2>3
    <2>9. /\ Append(context, path) \in Seq(STRING) /\ Len(Append(context, path)) = Len(context) + 1
          /\ Append(Lifts(n), lift) \in Seq(STRING)
               /\ Len(Append(Lifts(n), lift)) = Len(Lifts(n)) + 1
      BY <2>2, <2>3
    <2>10. Len(c) = Len(n) + 1 /\ Len(context) = Len(n) /\ Len(Lifts(n)) = Len(n)
      BY <1>4, <2>1, AppendFacts DEF c, context
    <2>11. Fine(c)
      BY <2>1, <2>4, <2>7, <2>8, <2>9, <2>10, ModelsGrow
    <2>12. QED
      BY <2>1, <2>4, <2>7, <2>8, <2>11 DEF c, path, context
  <1>5. Models \subseteq T
    <2>1. \A n \in Models : n \in T => \A i \in Below(n) : Append(n, i) \in T
      BY <1>4
    <2> HIDE DEF T
    <2>2. QED
      BY <1>3, <2>1, DownTheTree
  <1>6. \A n \in Models : n \in T
    BY <1>5
  <1>7. \A n \in Models : \A i \in Below(n) :
          /\ ContextOf(Append(n, i)) = Append(ContextOf(n), SpecsOf(n)[i].path)
          /\ Lifts(Append(n, i)) = Append(Lifts(n), SpecsOf(n)[i].lift)
    BY <1>4, <1>6
  <1>8. QED
    BY <1>1, <1>2, <1>6, <1>7

\* Siblings have different paths, so no two models have the same.
LEMMA ContextsDiffer ==
    ASSUME Grown
    PROVE  \A m, n \in Models : ContextOf(m) = ContextOf(n) => m = n
  <1> DEFINE T == {m \in Models : \A n \in Models : ContextOf(m) = ContextOf(n) => m = n}
  <1>1. \A n \in Models : n \in Seq(Nat) /\ Len(ContextOf(n)) = Len(n)
          /\ ContextOf(n) \in Seq(STRING)
    BY ModelFacts
  <1>2. RootModel \in T
    <2>1. ASSUME NEW n \in Models, ContextOf(RootModel) = ContextOf(n) PROVE RootModel = n
      <3>1. Len(n) = 0 /\ n \in Seq(Nat)
        BY <1>1, <2>1, ModelFacts
      <3>2. QED
        BY <3>1 DEF RootModel
    <2>2. QED
      BY <2>1, ModelsUnfold
  <1>3. ASSUME NEW m \in Models, m \in T, NEW i \in Below(m) PROVE Append(m, i) \in T
    <2>1. Append(m, i) \in Models
      BY ModelsGrow
    <2> SUFFICES ASSUME NEW n \in Models, ContextOf(Append(m, i)) = ContextOf(n)
                 PROVE  Append(m, i) = n
      BY <2>1
    <2>2. ContextOf(Append(m, i)) = Append(ContextOf(m), SpecsOf(m)[i].path)
      BY ModelFacts
    <2>3. \A o \in Models : \A j \in Below(o) : SpecsOf(o)[j].path \in STRING
      BY SpecsFacts DEF Specs
    <2>4. n # RootModel
      <3>1. Append(ContextOf(m), SpecsOf(m)[i].path) # <<>>
        <4> DEFINE s == ContextOf(m)
                   a == SpecsOf(m)[i].path
        <4>1. s \in Seq(STRING) /\ a \in STRING
          BY <1>1, <2>3
        <4> HIDE DEF s, a
        <4>2. Append(s, a) # <<>>
          BY <4>1, AppendProperties
        <4>3. QED
          BY <4>2 DEF s, a
      <3>2. QED
        BY <2>2, <3>1, ModelFacts
    <2>5. PICK o \in Models : \E j \in Below(o) : n = Append(o, j)
      BY <2>4, ModelsGrow
    <2>6. PICK j \in Below(o) : n = Append(o, j)
      BY <2>5
    <2>7. ContextOf(n) = Append(ContextOf(o), SpecsOf(o)[j].path)
      BY <2>6, ModelFacts
    <2>8. ContextOf(m) = ContextOf(o) /\ SpecsOf(m)[i].path = SpecsOf(o)[j].path
      <3> DEFINE s == ContextOf(m)
                 t == ContextOf(o)
                 a == SpecsOf(m)[i].path
                 b == SpecsOf(o)[j].path
      <3>1. s \in Seq(STRING) /\ t \in Seq(STRING) /\ a \in STRING /\ b \in STRING
        BY <1>1, <2>3
      <3>2. Append(s, a) = Append(t, b)
        BY <2>2, <2>7
      <3> HIDE DEF s, t, a, b
      <3> DEFINE M == STRING
      <3>3. s \in Seq(M) /\ t \in Seq(M) /\ a \in M /\ b \in M
        BY <3>1
      <3> HIDE DEF M
      <3>5. s = t /\ a = b
        BY <3>2, <3>3, AppendsSame
      <3>4. QED
        BY <3>5 DEF s, t, a, b
    <2>9. m = o
      BY <1>3, <2>8
    <2>10. i = j
      BY <2>8, <2>9, SpecsFacts
    <2>11. QED
      BY <2>6, <2>9, <2>10
  <1>4. Models \subseteq T
    <2>1. \A n \in Models : n \in T => \A i \in Below(n) : Append(n, i) \in T
      BY <1>3
    <2> HIDE DEF T
    <2>2. QED
      BY <1>2, <2>1, DownTheTree
  <1>5. QED
    BY <1>4

-----------------------------------------------------------------------------
(* Single commands, and what becomes of them on the way up.                *)

Segments == STRING \cup {"#", "k"}

Msgs == [route : Seq(STRING), from : Seq(Nat)]
Keys == [id : Seq(Segments), child_path : Seq(Segments), local_id : Seq(Segments)]
Kinds == {"Foreground", "Background"}
SomeEffects == [kind : Kinds, body : Seq(Nat), output : SUBSET Msgs]
LabelNames == {NoLabel, "emit", "load", "once", "lost", "stop", "log"}

EmitLeaf(message, label) == [inner |-> [variant |-> "Emit", message |-> message], label |-> label]
EffectLeaf(effect, label) == [inner |-> [variant |-> "Effect", effect |-> effect], label |-> label]
CancelLeaf(key, label) == [inner |-> [variant |-> "Cancel", key |-> key], label |-> label]
KeyedLeaf(key, effect, label) ==
    [inner |-> [variant |-> "Keyed", key |-> key, effect |-> effect], label |-> label]

IsEmit(c) == \E m \in Msgs, l \in LabelNames : c = EmitLeaf(m, l)
IsEffect(c) == \E e \in SomeEffects, l \in LabelNames : c = EffectLeaf(e, l)
IsCancel(c) == \E k \in Keys, l \in LabelNames : c = CancelLeaf(k, l)
IsKeyed(c) == \E k \in Keys, e \in SomeEffects, l \in LabelNames : c = KeyedLeaf(k, e, l)

\* The commands that a batch is made of.
Inners == [variant : {"Emit"}, message : Msgs] \cup [variant : {"Effect"}, effect : SomeEffects]
            \cup [variant : {"Cancel"}, key : Keys]
            \cup [variant : {"Keyed"}, key : Keys, effect : SomeEffects]
Singles == [inner : Inners, label : LabelNames]

LEMMA SinglesAre ==
    \A c : c \in Singles <=> IsEmit(c) \/ IsEffect(c) \/ IsCancel(c) \/ IsKeyed(c)
  <1>1. ASSUME NEW c \in Singles PROVE IsEmit(c) \/ IsEffect(c) \/ IsCancel(c) \/ IsKeyed(c)
    <2> DEFINE x == c.inner
               l == c.label
    <2>1. x \in Inners /\ l \in LabelNames /\ c = [inner |-> x, label |-> l]
      BY DEF Singles
    <2> HIDE DEF x, l
    <2>2. CASE x \in [variant : {"Emit"}, message : Msgs]
      <3>1. x = [variant |-> "Emit", message |-> x.message] /\ x.message \in Msgs
        BY <2>2
      <3>2. QED
        BY <2>1, <3>1 DEF IsEmit, EmitLeaf
    <2>3. CASE x \in [variant : {"Effect"}, effect : SomeEffects]
      <3>1. x = [variant |-> "Effect", effect |-> x.effect] /\ x.effect \in SomeEffects
        BY <2>3
      <3>2. QED
        BY <2>1, <3>1 DEF IsEffect, EffectLeaf
    <2>4. CASE x \in [variant : {"Cancel"}, key : Keys]
      <3>1. x = [variant |-> "Cancel", key |-> x.key] /\ x.key \in Keys
        BY <2>4
      <3>2. QED
        BY <2>1, <3>1 DEF IsCancel, CancelLeaf
    <2>5. CASE x \in [variant : {"Keyed"}, key : Keys, effect : SomeEffects]
      <3>1. /\ x = [variant |-> "Keyed", key |-> x.key, effect |-> x.effect]
            /\ x.key \in Keys /\ x.effect \in SomeEffects
        BY <2>5
      <3>2. QED
        BY <2>1, <3>1 DEF IsKeyed, KeyedLeaf
    <2>6. QED
      BY <2>1, <2>2, <2>3, <2>4, <2>5 DEF Inners
  <1>2. ASSUME NEW c, IsEmit(c) PROVE c \in Singles
    BY <1>2 DEF IsEmit, EmitLeaf, Singles, Inners
  <1>3. ASSUME NEW c, IsEffect(c) PROVE c \in Singles
    BY <1>3 DEF IsEffect, EffectLeaf, Singles, Inners
  <1>4. ASSUME NEW c, IsCancel(c) PROVE c \in Singles
    BY <1>4 DEF IsCancel, CancelLeaf, Singles, Inners
  <1>5. ASSUME NEW c, IsKeyed(c) PROVE c \in Singles
    BY <1>5 DEF IsKeyed, KeyedLeaf, Singles, Inners
  <1>6. QED
    BY <1>1, <1>2, <1>3, <1>4, <1>5

\* A message with more constructors around it.
Prefixed(route, message) == [route |-> route \o message.route, from |-> message.from]

RaisedEffect(effect, route) ==
    [kind |-> effect.kind, body |-> effect.body,
     output |-> {Prefixed(route, m) : m \in effect.output}]

\* A single command, its key scoped to a path and its messages lifted.
Raised(c, path, route) ==
    IF c.inner.variant = "Emit" THEN EmitLeaf(Prefixed(route, c.inner.message), c.label)
    ELSE IF c.inner.variant = "Effect"
      THEN EffectLeaf(RaisedEffect(c.inner.effect, route), c.label)
    ELSE IF c.inner.variant = "Cancel" THEN CancelLeaf(ScopedKey(c.inner.key, path), c.label)
    ELSE KeyedLeaf(ScopedKey(c.inner.key, path), RaisedEffect(c.inner.effect, route), c.label)

LEMMA RaisedLeaves ==
    \A path, route :
        /\ \A m, l : Raised(EmitLeaf(m, l), path, route) = EmitLeaf(Prefixed(route, m), l)
        /\ \A e, l : Raised(EffectLeaf(e, l), path, route) = EffectLeaf(RaisedEffect(e, route), l)
        /\ \A k, l : Raised(CancelLeaf(k, l), path, route) = CancelLeaf(ScopedKey(k, path), l)
        /\ \A k, e, l : Raised(KeyedLeaf(k, e, l), path, route)
                          = KeyedLeaf(ScopedKey(k, path), RaisedEffect(e, route), l)
  BY DEF Raised, EmitLeaf, EffectLeaf, CancelLeaf, KeyedLeaf

LEMMA PathSegments == \A path \in Seq(STRING) : path \in Seq(Segments)
  <1> SUFFICES ASSUME NEW path \in Seq(STRING) PROVE path \in Seq(Segments)
    OBVIOUS
  <1> DEFINE A == STRING
  <1>1. A \subseteq Segments /\ path \in Seq(A)
    BY DEF Segments
  <1> HIDE DEF A
  <1>2. \A k \in 1..Len(path) : path[k] \in Segments
    BY <1>1
  <1>3. path = [k \in 1..Len(path) |-> path[k]] /\ Len(path) \in Nat
    BY <1>1
  <1>4. QED
    BY <1>2, <1>3

LEMMA ScopedKeyFacts ==
    ASSUME NEW key \in Keys, NEW path \in Seq(STRING)
    PROVE  /\ ScopedKey(key, path) \in Keys
           /\ path # <<>> => ScopedKey(key, path).child_path # <<>>
           /\ ScopedKey(key, <<>>) = key
  <1>1. path \in Seq(Segments) /\ <<"#">> \in Seq(Segments)
    <2>1. "#" \in Segments
      BY DEF Segments
    <2>2. QED
      BY <2>1, PathSegments
  <1>2. key.id \in Seq(Segments) /\ key.child_path \in Seq(Segments)
    BY DEF Keys
  <1>3. (path \o <<"#">>) \o key.id \in Seq(Segments)
    <2>1. path \o <<"#">> \in Seq(Segments)
      BY <1>1
    <2>2. QED
      BY <1>2, <2>1
  <1>4. ScopedKey(key, path) \in Keys
    BY <1>1, <1>2, <1>3 DEF ScopedKey, RuntimePrefix, Keys
  <1>5. path # <<>> => ScopedKey(key, path).child_path # <<>>
    BY DEF ScopedKey, IsRoot, Root
  <1>6. ScopedKey(key, <<>>) = key
    BY DEF ScopedKey, IsRoot, Root
  <1>7. QED
    BY <1>4, <1>5, <1>6

LEMMA RaisedType ==
    ASSUME NEW path \in Seq(STRING), NEW route \in Seq(STRING)
    PROVE  \A c \in Singles : Raised(c, path, route) \in Singles
  <1>1. \A m \in Msgs : Prefixed(route, m) \in Msgs
    BY DEF Msgs, Prefixed
  <1>2. ASSUME NEW e \in SomeEffects PROVE RaisedEffect(e, route) \in SomeEffects
    <2>1. e.kind \in Kinds /\ e.body \in Seq(Nat) /\ e.output \in SUBSET Msgs
      BY DEF SomeEffects
    <2>2. {Prefixed(route, m) : m \in e.output} \in SUBSET Msgs
      BY <1>1, <2>1
    <2>3. QED
      BY <2>1, <2>2 DEF RaisedEffect, SomeEffects
  <1>3. \A k \in Keys : ScopedKey(k, path) \in Keys
    BY ScopedKeyFacts
  <1>4. ASSUME NEW c \in Singles PROVE Raised(c, path, route) \in Singles
    <2> DEFINE r == Raised(c, path, route)
    <2>1. CASE IsEmit(c)
      <3>1. IsEmit(r)
        BY <1>1, <2>1, RaisedLeaves DEF IsEmit
      <3>2. QED
        BY <3>1, SinglesAre
    <2>2. CASE IsEffect(c)
      <3>1. IsEffect(r)
        BY <1>2, <2>2, RaisedLeaves DEF IsEffect
      <3>2. QED
        BY <3>1, SinglesAre
    <2>3. CASE IsCancel(c)
      <3>1. IsCancel(r)
        BY <1>3, <2>3, RaisedLeaves DEF IsCancel
      <3>2. QED
        BY <3>1, SinglesAre
    <2>4. CASE IsKeyed(c)
      <3>1. IsKeyed(r)
        BY <1>2, <1>3, <2>4, RaisedLeaves DEF IsKeyed
      <3>2. QED
        BY <3>1, SinglesAre
    <2>5. QED
      BY <2>1, <2>2, <2>3, <2>4, SinglesAre
  <1>5. QED
    BY <1>4

\* A key is scoped once, by the innermost scope; the constructors add up.
LEMMA RaisedTwice ==
    ASSUME NEW p \in Seq(STRING), p # <<>>, NEW q \in Seq(STRING), NEW r \in Seq(STRING),
           NEW s \in Seq(STRING)
    PROVE  \A c \in Singles : Raised(Raised(c, p, s), q, r) = Raised(c, p, r \o s)
  <1>1. ASSUME NEW m \in Msgs PROVE Prefixed(r, Prefixed(s, m)) = Prefixed(r \o s, m)
    <2>1. m.route \in Seq(STRING)
      BY DEF Msgs
    <2>2. r \o (s \o m.route) = (r \o s) \o m.route
      <3> DEFINE A == STRING
                 t == m.route
      <3>1. r \in Seq(A) /\ s \in Seq(A) /\ t \in Seq(A)
        BY <2>1
      <3> HIDE DEF A, t
      <3>2. r \o (s \o t) = (r \o s) \o t
        BY <3>1
      <3>3. QED
        BY <3>2 DEF t
    <2>3. QED
      BY <2>2 DEF Prefixed
  <1>2. ASSUME NEW e \in SomeEffects
        PROVE  RaisedEffect(RaisedEffect(e, s), r) = RaisedEffect(e, r \o s)
    <2>1. \A m \in e.output : Prefixed(r, Prefixed(s, m)) = Prefixed(r \o s, m)
      BY <1>1 DEF SomeEffects
    <2>2. {Prefixed(r, x) : x \in {Prefixed(s, m) : m \in e.output}}
            = {Prefixed(r \o s, m) : m \in e.output}
      BY <2>1
    <2>3. QED
      BY <2>2 DEF RaisedEffect
  <1>3. \A k \in Keys : ScopedKey(ScopedKey(k, p), q) = ScopedKey(k, p)
    <2>1. \A k \in Keys : ScopedKey(k, p).child_path # <<>>
      BY ScopedKeyFacts
    <2>2. \A k : k.child_path # <<>> => ScopedKey(k, q) = k
      BY DEF ScopedKey, IsRoot, Root
    <2>3. QED
      BY <2>1, <2>2
  <1>4. ASSUME NEW c \in Singles PROVE Raised(Raised(c, p, s), q, r) = Raised(c, p, r \o s)
    <2>1. CASE IsEmit(c)
      BY <1>1, <2>1, RaisedLeaves DEF IsEmit
    <2>2. CASE IsEffect(c)
      BY <1>2, <2>2, RaisedLeaves DEF IsEffect
    <2>3. CASE IsCancel(c)
      BY <1>3, <2>3, RaisedLeaves DEF IsCancel
    <2>4. CASE IsKeyed(c)
      BY <1>2, <1>3, <2>4, RaisedLeaves DEF IsKeyed
    <2>5. QED
      BY <2>1, <2>2, <2>3, <2>4, SinglesAre
  <1>5. QED
    BY <1>4

LEMMA RaisedByNothing == \A c \in Singles : Raised(c, <<>>, <<>>) = c
  <1>1. ASSUME NEW m \in Msgs PROVE Prefixed(<<>>, m) = m
    <2>1. m = [route |-> m.route, from |-> m.from] /\ m.route \in Seq(STRING)
      BY DEF Msgs
    <2>2. <<>> \o m.route = m.route
      BY <2>1
    <2>3. QED
      BY <2>1, <2>2 DEF Prefixed
  <1>2. ASSUME NEW e \in SomeEffects PROVE RaisedEffect(e, <<>>) = e
    <2>1. e = [kind |-> e.kind, body |-> e.body, output |-> e.output] /\ e.output \in SUBSET Msgs
      BY DEF SomeEffects
    <2>2. {Prefixed(<<>>, m) : m \in e.output} = e.output
      BY <1>1, <2>1
    <2>3. QED
      BY <2>1, <2>2 DEF RaisedEffect
  <1>3. \A k \in Keys : ScopedKey(k, <<>>) = k
    BY DEF ScopedKey, IsRoot, Root
  <1>4. ASSUME NEW c \in Singles PROVE Raised(c, <<>>, <<>>) = c
    <2>1. CASE IsEmit(c)
      BY <1>1, <2>1, RaisedLeaves DEF IsEmit
    <2>2. CASE IsEffect(c)
      BY <1>2, <2>2, RaisedLeaves DEF IsEffect
    <2>3. CASE IsCancel(c)
      BY <1>3, <2>3, RaisedLeaves DEF IsCancel
    <2>4. CASE IsKeyed(c)
      BY <1>2, <1>3, <2>4, RaisedLeaves DEF IsKeyed
    <2>5. QED
      BY <2>1, <2>2, <2>3, <2>4, SinglesAre
  <1>5. QED
    BY <1>4

\* What a scope does with a single command.
LEMMA SingleInScope ==
    ASSUME NEW path \in Seq(STRING), NEW lift \in STRING
    PROVE  \A c \in Singles : MapSingle(ScopeSingle(c, path), lift) = Raised(c, path, <<lift>>)
  <1>1. ASSUME NEW m \in Msgs PROVE Lift(lift, m) = Prefixed(<<lift>>, m)
    <2> DEFINE a == m.route
               b == m.from
    <2>1. m = [route |-> a, from |-> b]
      BY DEF Msgs
    <2> HIDE DEF a, b
    <2>2. m.route = a /\ m.from = b
      BY <2>1
    <2>3. Lift(lift, m) = [route |-> <<lift>> \o a, from |-> b]
      BY <2>1 DEF Lift
    <2>4. QED
      BY <2>2, <2>3 DEF Prefixed
  <1>2. ASSUME NEW e \in SomeEffects PROVE MapEffect(e, lift) = RaisedEffect(e, <<lift>>)
    <2>1. e = [kind |-> e.kind, body |-> e.body, output |-> e.output] /\ e.output \in SUBSET Msgs
      BY DEF SomeEffects
    <2>2. {Lift(lift, m) : m \in e.output} = {Prefixed(<<lift>>, m) : m \in e.output}
      BY <1>1, <2>1
    <2> DEFINE a == e.kind
               b == e.body
               d == e.output
               x == {Lift(lift, m) : m \in d}
    <2>3. e = [kind |-> a, body |-> b, output |-> d]
      BY <2>1
    <2> HIDE DEF a, b
    <2>4. MapEffect(e, lift) = [e EXCEPT !.output = x]
      BY DEF MapEffect
    <2> HIDE DEF d, x
    <2>5. MapEffect(e, lift) = [kind |-> a, body |-> b, output |-> x]
      BY <2>3, <2>4
    <2>6. x = {Prefixed(<<lift>>, m) : m \in e.output}
      BY <2>2 DEF x, d
    <2>7. QED
      BY <2>5, <2>6 DEF RaisedEffect, a, b
  <1>3. ASSUME NEW c \in Singles
        PROVE MapSingle(ScopeSingle(c, path), lift) = Raised(c, path, <<lift>>)
    <2>1. ASSUME NEW m \in Msgs, NEW l, c = EmitLeaf(m, l)
          PROVE  MapSingle(ScopeSingle(c, path), lift) = EmitLeaf(Lift(lift, m), l)
      BY <2>1 DEF MapSingle, ScopeSingle, EmitLeaf
    <2>2. ASSUME NEW e \in SomeEffects, NEW l, c = EffectLeaf(e, l)
          PROVE  MapSingle(ScopeSingle(c, path), lift) = EffectLeaf(MapEffect(e, lift), l)
      BY <2>2 DEF MapSingle, ScopeSingle, EffectLeaf
    <2>3. ASSUME NEW k, NEW l, c = CancelLeaf(k, l)
          PROVE  MapSingle(ScopeSingle(c, path), lift) = CancelLeaf(ScopedKey(k, path), l)
      BY <2>3 DEF MapSingle, ScopeSingle, CancelLeaf
    <2>4. ASSUME NEW k, NEW e \in SomeEffects, NEW l, c = KeyedLeaf(k, e, l)
          PROVE  MapSingle(ScopeSingle(c, path), lift)
                   = KeyedLeaf(ScopedKey(k, path), MapEffect(e, lift), l)
      BY <2>4 DEF MapSingle, ScopeSingle, KeyedLeaf
    <2> DEFINE route == <<lift>>
    <2>10. /\ \A m \in Msgs : Lift(lift, m) = Prefixed(route, m)
           /\ \A e \in SomeEffects : MapEffect(e, lift) = RaisedEffect(e, route)
      BY <1>1, <1>2
    <2> HIDE DEF route
    <2>11. SUFFICES MapSingle(ScopeSingle(c, path), lift) = Raised(c, path, route)
      BY DEF route
    <2>5. CASE IsEmit(c)
      <3>1. PICK m \in Msgs, l \in LabelNames : c = EmitLeaf(m, l)
        BY <2>5 DEF IsEmit
      <3>2. Raised(c, path, route) = EmitLeaf(Prefixed(route, m), l)
        BY <3>1, RaisedLeaves
      <3>3. MapSingle(ScopeSingle(c, path), lift) = EmitLeaf(Lift(lift, m), l)
        BY <3>1, <2>1
      <3>4. QED
        BY <3>2, <3>3, <2>10
    <2>6. CASE IsEffect(c)
      <3>1. PICK e \in SomeEffects, l \in LabelNames : c = EffectLeaf(e, l)
        BY <2>6 DEF IsEffect
      <3>2. Raised(c, path, route) = EffectLeaf(RaisedEffect(e, route), l)
        BY <3>1, RaisedLeaves
      <3>3. MapSingle(ScopeSingle(c, path), lift) = EffectLeaf(MapEffect(e, lift), l)
        BY <3>1, <2>2
      <3>4. QED
        BY <3>2, <3>3, <2>10
    <2>7. CASE IsCancel(c)
      <3>1. PICK k \in Keys, l \in LabelNames : c = CancelLeaf(k, l)
        BY <2>7 DEF IsCancel
      <3>2. Raised(c, path, route) = CancelLeaf(ScopedKey(k, path), l)
        BY <3>1, RaisedLeaves
      <3>3. QED
        BY <3>1, <3>2, <2>3
    <2>8. CASE IsKeyed(c)
      <3>1. PICK k \in Keys, e \in SomeEffects, l \in LabelNames : c = KeyedLeaf(k, e, l)
        BY <2>8 DEF IsKeyed
      <3>2. Raised(c, path, route) = KeyedLeaf(ScopedKey(k, path), RaisedEffect(e, route), l)
        BY <3>1, RaisedLeaves
      <3>3. MapSingle(ScopeSingle(c, path), lift)
              = KeyedLeaf(ScopedKey(k, path), MapEffect(e, lift), l)
        BY <3>1, <2>4
      <3>4. QED
        BY <3>2, <3>3, <2>10
    <2>9. QED
      BY <2>5, <2>6, <2>7, <2>8, SinglesAre
  <1>4. QED
    BY <1>3

-----------------------------------------------------------------------------
(* Batches on the way up.                                                  *)

NoneCommand(label) == [inner |-> [variant |-> "None"], label |-> label]
BatchCommand(commands, label) ==
    [inner |-> [variant |-> "Batch", commands |-> commands], label |-> label]

\* Every command that the models return: batches have no batch and no None in them.
Multi == Singles \cup {NoneCommand(l) : l \in LabelNames}
           \cup {BatchCommand(s, l) : s \in Seq(Singles), l \in LabelNames}

LEMMA MultiAre ==
    /\ \A c \in Multi : \/ c \in Singles
                        \/ \E l \in LabelNames : c = NoneCommand(l)
                        \/ \E s \in Seq(Singles), l \in LabelNames : c = BatchCommand(s, l)
    /\ Singles \subseteq Multi
    /\ \A l \in LabelNames : NoneCommand(l) \in Multi
    /\ \A s \in Seq(Singles), l \in LabelNames : BatchCommand(s, l) \in Multi
  <1> DEFINE A == {NoneCommand(l) : l \in LabelNames}
             B == {BatchCommand(s, l) : s \in Seq(Singles), l \in LabelNames}
  <1>1. \A c : c \in A <=> \E l \in LabelNames : c = NoneCommand(l)
    OBVIOUS
  <1>2. \A c : c \in B <=> \E s \in Seq(Singles), l \in LabelNames : c = BatchCommand(s, l)
    OBVIOUS
  <1>3. Multi = (Singles \cup A) \cup B
    BY DEF Multi
  <1> HIDE DEF A, B
  <1>4. QED
    BY <1>1, <1>2, <1>3

LEMMA LeavesAre ==
    /\ \A c \in Singles : Leaves(c) = <<c>> /\ c.inner.variant \notin {"Batch", "None"}
    /\ \A l : Leaves(NoneCommand(l)) = <<>>
    /\ \A s, l : Leaves(BatchCommand(s, l)) = s
  <1>1. ASSUME NEW c \in Singles
        PROVE  Leaves(c) = <<c>> /\ c.inner.variant \notin {"Batch", "None"}
    <2>1. c.inner.variant \in {"Emit", "Effect", "Cancel", "Keyed"}
      <3>1. c.inner \in Inners
        BY DEF Singles
      <3>2. QED
        BY <3>1 DEF Inners
    <2>2. c.inner.variant # "Batch" /\ c.inner.variant # "None"
      BY <2>1
    <2>3. QED
      BY <2>2 DEF Leaves, Members
  <1>2. \A l : Leaves(NoneCommand(l)) = <<>>
    BY DEF Leaves, Members, NoneCommand
  <1>3. \A s, l : Leaves(BatchCommand(s, l)) = s
    BY DEF Leaves, Members, BatchCommand
  <1>4. QED
    BY <1>1, <1>2, <1>3

LEMMA LeavesType == \A c \in Multi : Leaves(c) \in Seq(Singles)
  <1>1. ASSUME NEW c \in Multi PROVE Leaves(c) \in Seq(Singles)
    <2>1. CASE c \in Singles
      <3>1. Leaves(c) = <<c>>
        BY <2>1, LeavesAre
      <3>2. QED
        BY <2>1, <3>1
    <2>2. CASE \E l \in LabelNames : c = NoneCommand(l)
      <3>1. Leaves(c) = <<>>
        BY <2>2, LeavesAre
      <3>2. QED
        BY <3>1
    <2>3. CASE \E s \in Seq(Singles), l \in LabelNames : c = BatchCommand(s, l)
      BY <2>3, LeavesAre
    <2>4. QED
      BY <2>1, <2>2, <2>3, MultiAre
  <1>2. QED
    BY <1>1

LEMMA OfFlatFacts ==
    ASSUME NEW s \in Seq(Singles)
    PROVE  OfFlat(s) \in Multi /\ Leaves(OfFlat(s)) = s
  <1>1. Len(s) \in Nat /\ Len(<<>>) = 0
    OBVIOUS
  <1>2. NoLabel \in LabelNames
    BY DEF LabelNames
  <1>3. CASE s = <<>>
    <2>1. OfFlat(s) = NoneCommand(NoLabel)
      BY <1>1, <1>3 DEF OfFlat, None, Command, NoneCommand
    <2>2. QED
      BY <1>2, <1>3, <2>1, LeavesAre, MultiAre
  <1>4. CASE s # <<>> /\ Len(s) = 1
    <2>1. OfFlat(s) = s[1]
      BY <1>4 DEF OfFlat
    <2>2. s[1] \in Singles /\ s = <<s[1]>>
      BY <1>4
    <2>3. QED
      BY <2>1, <2>2, LeavesAre, MultiAre
  <1>5. CASE s # <<>> /\ Len(s) # 1
    <2>1. OfFlat(s) = BatchCommand(s, NoLabel)
      BY <1>5 DEF OfFlat, Command, BatchCommand
    <2>2. QED
      BY <1>2, <2>1, LeavesAre, MultiAre
  <1>6. QED
    BY <1>3, <1>4, <1>5

\* The leaves of each of several commands.
EachLeaves(commands) == [i \in 1..Len(commands) |-> Leaves(commands[i])]

LEMMA BatchFacts ==
    ASSUME NEW commands \in Seq(Multi)
    PROVE  /\ Batch(commands) \in Multi
           /\ Leaves(Batch(commands)) = FlattenSeq(EachLeaves(commands))
           /\ EachLeaves(commands) \in Seq(Seq(Singles))
  <1>1. EachLeaves(commands) \in Seq(Seq(Singles))
    <2>1. \A i \in 1..Len(commands) : Leaves(commands[i]) \in Seq(Singles)
      BY LeavesType
    <2>2. Len(commands) \in Nat
      OBVIOUS
    <2>3. QED
      BY <2>1, <2>2 DEF EachLeaves
  <1>2. Batch(commands) = OfFlat(FlattenSeq(EachLeaves(commands)))
    BY DEF Batch, EachLeaves, Leaves
  <1>3. FlattenSeq(EachLeaves(commands)) \in Seq(Singles)
    BY <1>1, FlattenType
  <1>4. QED
    BY <1>1, <1>2, <1>3, OfFlatFacts

\* The leaves of a command as they pass a scope, or several.
RaiseMap(path, route) == [c \in Singles |-> Raised(c, path, route)]

LEMMA RaiseMaps ==
    ASSUME NEW path \in Seq(STRING), NEW route \in Seq(STRING)
    PROVE  /\ Maps(RaiseMap(path, route), Singles, Singles)
           /\ \A c \in Singles : RaiseMap(path, route)[c] = Raised(c, path, route)
  BY RaisedType DEF RaiseMap, Maps

LEMMA OneType == \A A : \A x \in A : <<x>> \in Seq(A)
  OBVIOUS

\* What ChildScope does with a command: it is done with each of its leaves.
LEMMA CommandInScope ==
    ASSUME NEW path \in Seq(STRING), path # <<>>, NEW lift \in STRING
    PROVE  \A c \in Multi :
             LET d == MapCommand(ScopeCommand(c, path), lift)
             IN  d \in Multi /\ Leaves(d) = Each(RaiseMap(path, <<lift>>), Leaves(c))
  <1> DEFINE route == <<lift>>
             f == RaiseMap(path, route)
  <1>0. route \in Seq(STRING)
    <2>1. QED
      BY OneType, Zenon
  <1>1. Maps(f, Singles, Singles) /\ \A c \in Singles : f[c] = Raised(c, path, route)
    <2> HIDE DEF route
    <2>1. QED
      BY <1>0, RaiseMaps
  <1>2. \A c \in Singles : MapSingle(ScopeSingle(c, path), lift) = f[c] /\ f[c] \in Singles
    BY <1>1, SingleInScope DEF Maps
  <1>3. ~IsRoot(path)
    BY DEF IsRoot, Root
  <1> HIDE DEF f
  <1> DEFINE d(c) == MapCommand(ScopeCommand(c, path), lift)
             Fine(c) == d(c) \in Multi /\ Leaves(d(c)) = Each(f, Leaves(c))
  <1>4. ASSUME NEW c \in Singles PROVE Fine(c)
    <2>1. c.inner.variant # "Batch"
      BY LeavesAre
    <2>2. ScopeCommand(c, path) = ScopeSingle(c, path)
      BY <1>3, <2>1 DEF ScopeCommand
    <2>3. ScopeSingle(c, path).inner.variant # "Batch"
      <3>1. CASE IsEmit(c)
        BY <3>1 DEF IsEmit, EmitLeaf, ScopeSingle
      <3>2. CASE IsEffect(c)
        BY <3>2 DEF IsEffect, EffectLeaf, ScopeSingle
      <3>3. CASE IsCancel(c)
        BY <3>3 DEF IsCancel, CancelLeaf, ScopeSingle
      <3>4. CASE IsKeyed(c)
        BY <3>4 DEF IsKeyed, KeyedLeaf, ScopeSingle
      <3>5. QED
        BY <3>1, <3>2, <3>3, <3>4, SinglesAre
    <2>4. d(c) = f[c]
      BY <1>2, <2>2, <2>3 DEF MapCommand
    <2>5. Leaves(f[c]) = <<f[c]>> /\ Leaves(c) = <<c>>
      BY <1>2, LeavesAre
    <2>6. Each(f, <<c>>) = <<f[c]>>
      BY <1>1, EachOne
    <2>7. QED
      BY <1>2, <2>4, <2>5, <2>6, MultiAre
  <1>5. ASSUME NEW l \in LabelNames PROVE Fine(NoneCommand(l))
    <2> DEFINE c == NoneCommand(l)
    <2>1. c.inner.variant = "None"
      BY DEF NoneCommand
    <2> HIDE DEF c
    <2>2. d(c) = c
      BY <1>3, <2>1 DEF MapCommand, MapSingle, ScopeCommand, ScopeSingle
    <2>3. c \in Multi /\ Leaves(c) = <<>>
      BY LeavesAre, MultiAre DEF c
    <2>4. Each(f, <<>>) = <<>>
      BY EachEmpty
    <2>5. Fine(c)
      BY <2>2, <2>3, <2>4
    <2>6. QED
      BY <2>5 DEF c
  <1>6. ASSUME NEW s \in Seq(Singles), NEW l \in LabelNames PROVE Fine(BatchCommand(s, l))
    <2> DEFINE t == [i \in DOMAIN s |-> ScopeSingle(s[i], path)]
               u == [i \in DOMAIN t |-> MapSingle(t[i], lift)]
    <2>1. ScopeCommand(BatchCommand(s, l), path) = BatchCommand(t, l)
      BY <1>3 DEF ScopeCommand, BatchCommand
    <2>2. u = Each(f, s)
      <3>1. DOMAIN s = 1..Len(s)
        OBVIOUS
      <3>2. DOMAIN t = 1..Len(s)
        BY <3>1
      <3>3. \A i \in 1..Len(s) : s[i] \in Singles /\ t[i] = ScopeSingle(s[i], path)
        BY <3>1
      <3> HIDE DEF t
      <3>4. \A i \in 1..Len(s) : MapSingle(t[i], lift) = f[s[i]]
        BY <1>2, <3>3
      <3>5. QED
        BY <3>2, <3>4 DEF Each
    <2>3. MapCommand(BatchCommand(t, l), lift) = BatchCommand(u, l)
      <3> HIDE DEF t
      <3>1. QED
        BY DEF MapCommand, BatchCommand
    <2> HIDE DEF t, u
    <2>4. Each(f, s) \in Seq(Singles)
      BY <1>1, EachType
    <2>5. d(BatchCommand(s, l)) = BatchCommand(Each(f, s), l)
      BY <2>1, <2>2, <2>3
    <2>6. QED
      BY <2>4, <2>5, LeavesAre, MultiAre
  <1>7. ASSUME NEW c \in Multi PROVE Fine(c)
    BY <1>4, <1>5, <1>6, MultiAre
  <1>8. QED
    BY <1>7 DEF f

LEMMA EachTwice ==
    ASSUME NEW f, NEW g, NEW h, NEW A, Maps(f, A, A), Maps(g, A, A), \A x \in A : g[f[x]] = h[x]
    PROVE  \A s \in Seq(A) : Each(g, Each(f, s)) = Each(h, s)
  <1> SUFFICES ASSUME NEW s \in Seq(A) PROVE Each(g, Each(f, s)) = Each(h, s)
    OBVIOUS
  <1> DEFINE t == Each(f, s)
  <1>1. Len(t) = Len(s) /\ t \in Seq(A)
    BY EachType
  <1>2. \A i \in 1..Len(s) : t[i] = f[s[i]] /\ s[i] \in A
    BY DEF Each
  <1> HIDE DEF t
  <1>3. \A i \in 1..Len(s) : g[t[i]] = h[s[i]]
    BY <1>2
  <1>4. Each(g, t) = Each(h, s)
    BY <1>1, <1>3 DEF Each
  <1>5. QED
    BY <1>4 DEF t

LEMMA AscendIsFold ==
    \A n, c, M : Upwards(n) \in Seq(M) =>
        Ascend(n, c) = Walk!Fold(For("commands", 0), c, Upwards(n))
  <1> SUFFICES ASSUME NEW n, NEW c, NEW M, Upwards(n) \in Seq(M)
               PROVE  Ascend(n, c) = Walk!Fold(For("commands", 0), c, Upwards(n))
    OBVIOUS
  <1> DEFINE l == Len(Upwards(n))
             Of(g, d) == IF d = {} THEN c ELSE InScope(Upwards(n)[Max(d)], g[d \ {Max(d)}])
             f == CHOOSE g : g = [d \in SUBSET (DOMAIN Upwards(n)) |-> Of(g, d)]
  <1>1. Ascend(n, c) = f[DOMAIN Upwards(n)]
    BY DEF Ascend, FoldLeft, MapThenFoldSet
  <1>2. DOMAIN Upwards(n) = 1..l
    OBVIOUS
  <1>3. \A g, d : Walk!FoldOf(For("commands", 0), c, Upwards(n), g, d) = Of(g, d)
    <2>1. \A x, e : WalkStep(For("commands", 0), x, e) = InScope(e, x)
      BY StepOfCommands
    <2>2. QED
      BY <2>1 DEF Walk!FoldOf, Walk!Max, Max
  <1> HIDE DEF Of
  <1>4. \A g : Walk!IsFolds(g, For("commands", 0), c, Upwards(n), l)
                 <=> g = [d \in SUBSET (1..l) |-> Of(g, d)]
    BY <1>3 DEF Walk!IsFolds
  <1>5. (\E g : Walk!IsFolds(g, For("commands", 0), c, Upwards(n), l))
          => Walk!IsFolds(f, For("commands", 0), c, Upwards(n), l)
    BY <1>2, <1>4
  <1> HIDE DEF f
  <1>6. QED
    BY <1>1, <1>2, <1>5, Walk!FoldIs

\* What a model's commands become between it and the root.
ToRoot(n) == RaiseMap(ContextOf(n), Lifts(n))

\* What they become in the scope of the model.
IntoScope(n) == RaiseMap(ContextOf(n), <<SpecOf(n).lift>>)

LEMMA ScopeFacts ==
    ASSUME Grown, NEW n \in Models, NEW i \in Below(n)
    PROVE  LET c == Append(n, i)
           IN  /\ Maps(ToRoot(n), Singles, Singles) /\ Maps(ToRoot(c), Singles, Singles)
               /\ Maps(IntoScope(c), Singles, Singles)
               /\ \A x \in Singles : ToRoot(n)[IntoScope(c)[x]] = ToRoot(c)[x]
               /\ \A x \in Multi : /\ InScope(c, x) \in Multi
                                   /\ Leaves(InScope(c, x)) = Each(IntoScope(c), Leaves(x))
  <1> DEFINE c == Append(n, i)
             lift == SpecsOf(n)[i].lift
             p == ContextOf(c)
             q == ContextOf(n)
             r == Lifts(n)
  <1>1. c \in Models /\ n \in Seq(Nat) /\ i \in Nat
    BY ModelsGrow
  <1>2. SpecOf(c) = SpecsOf(n)[i]
    BY <1>1, AppendFacts
  <1>3. lift \in STRING /\ SpecsOf(n)[i].path \in STRING
    BY SpecsFacts DEF Specs
  <1>4. p \in Seq(STRING) /\ q \in Seq(STRING) /\ r \in Seq(STRING) /\ Lifts(c) \in Seq(STRING)
    BY <1>1, ModelFacts
  <1>5. Lifts(c) = r \o <<lift>>
    <2>1. Lifts(c) = Append(r, lift)
      BY ModelFacts
    <2> HIDE DEF r, lift
    <2>2. Append(r, lift) = r \o <<lift>>
      BY <1>3, <1>4
    <2>3. QED
      BY <2>1, <2>2
  <1>6. p # <<>>
    <2>1. Len(p) = Len(c) /\ Len(c) = Len(n) + 1 /\ Len(n) \in Nat
      BY <1>1, ModelFacts, AppendFacts
    <2>2. Len(<<>>) = 0
      OBVIOUS
    <2>3. QED
      BY <2>1, <2>2
  <1>8. ASSUME NEW x PROVE InScope(c, x) = MapCommand(ScopeCommand(x, p), lift)
    BY <1>2 DEF InScope
  <1>9. IntoScope(c) = RaiseMap(p, <<lift>>) /\ ToRoot(n) = RaiseMap(q, r)
          /\ ToRoot(c) = RaiseMap(p, r \o <<lift>>)
    BY <1>2, <1>5 DEF IntoScope, ToRoot
  <1> HIDE DEF p, q, r, lift, c
  <1>10. <<lift>> \in Seq(STRING) /\ r \o <<lift>> \in Seq(STRING)
    BY <1>3, <1>4, <1>5
  <1>11. /\ Maps(ToRoot(n), Singles, Singles) /\ Maps(ToRoot(c), Singles, Singles)
         /\ Maps(IntoScope(c), Singles, Singles)
    BY <1>4, <1>9, <1>10, RaiseMaps
  <1>12. ASSUME NEW x \in Singles PROVE ToRoot(n)[IntoScope(c)[x]] = ToRoot(c)[x]
    <2>1. IntoScope(c)[x] = Raised(x, p, <<lift>>) /\ Raised(x, p, <<lift>>) \in Singles
      BY <1>4, <1>9, <1>10, RaiseMaps, RaisedType
    <2>2. ToRoot(n)[Raised(x, p, <<lift>>)] = Raised(Raised(x, p, <<lift>>), q, r)
      BY <1>4, <1>9, <2>1, RaiseMaps
    <2>3. ToRoot(c)[x] = Raised(x, p, r \o <<lift>>)
      BY <1>4, <1>9, <1>10, RaiseMaps
    <2> DEFINE s == <<lift>>
    <2>4. s \in Seq(STRING)
      BY <1>10
    <2> HIDE DEF s
    <2>5. Raised(Raised(x, p, s), q, r) = Raised(x, p, r \o s)
      BY <1>4, <1>6, <2>4, RaisedTwice
    <2>6. QED
      BY <2>1, <2>2, <2>3, <2>5 DEF s
  <1>13. \A x \in Multi : /\ InScope(c, x) \in Multi
                          /\ Leaves(InScope(c, x)) = Each(IntoScope(c), Leaves(x))
    BY <1>3, <1>4, <1>6, <1>8, <1>9, CommandInScope
  <1>14. QED
    BY <1>11, <1>12, <1>13 DEF c

\* Through all the scopes between a model and the root.
LEMMA AscendFacts ==
    ASSUME Grown
    PROVE  \A n \in Models : \A x \in Multi :
             Ascend(n, x) \in Multi /\ Leaves(Ascend(n, x)) = Each(ToRoot(n), Leaves(x))
  <1> DEFINE Fine(n) == \A x \in Multi : /\ Ascend(n, x) \in Multi
                                         /\ Leaves(Ascend(n, x)) = Each(ToRoot(n), Leaves(x))
             T == {n \in Models : Fine(n)}
  <1>1. RootModel \in T
    <2> SUFFICES ASSUME NEW x \in Multi
                 PROVE  /\ Ascend(RootModel, x) \in Multi
                        /\ Leaves(Ascend(RootModel, x)) = Each(ToRoot(RootModel), Leaves(x))
      BY ModelsUnfold
    <2>1. Ascend(RootModel, x) = x
      <3>1. Upwards(RootModel) = <<>> /\ <<>> \in Seq({})
        BY WaysOfRoot
      <3>2. Ascend(RootModel, x) = Walk!Fold(For("commands", 0), x, <<>>)
        BY <3>1, AscendIsFold
      <3>3. QED
        BY <3>2, Walk!FoldEmpty
    <2>2. ToRoot(RootModel) = RaiseMap(<<>>, <<>>)
      BY ModelFacts DEF ToRoot
    <2>3. Leaves(x) \in Seq(Singles)
      BY LeavesType
    <2> DEFINE s == Leaves(x)
               f == RaiseMap(<<>>, <<>>)
    <2>4. \A c \in Singles : f[c] = c
      BY RaisedByNothing DEF RaiseMap
    <2> HIDE DEF s, f
    <2>5. Each(f, s) = s
      <3>1. \A k \in 1..Len(s) : f[s[k]] = s[k]
        BY <2>3, <2>4 DEF s
      <3>2. s = [k \in 1..Len(s) |-> s[k]]
        BY <2>3 DEF s
      <3>3. QED
        BY <3>1, <3>2 DEF Each
    <2>6. QED
      BY <2>1, <2>2, <2>5 DEF s, f
  <1>2. ASSUME NEW n \in Models, n \in T, NEW i \in Below(n) PROVE Append(n, i) \in T
    <2> DEFINE c == Append(n, i)
    <2>1. c \in Models /\ n \in Seq(Nat) /\ i \in Nat /\ c \in Seq(Nat)
      BY ModelsGrow, AppendFacts
    <2>2. Upwards(c) = <<c>> \o Upwards(n) /\ Upwards(n) \in Seq(Seq(Nat))
      BY <2>1, WaysOfChild
    <2>3. /\ Maps(ToRoot(n), Singles, Singles) /\ Maps(IntoScope(c), Singles, Singles)
          /\ \A x \in Singles : ToRoot(n)[IntoScope(c)[x]] = ToRoot(c)[x]
          /\ \A x \in Multi : /\ InScope(c, x) \in Multi
                              /\ Leaves(InScope(c, x)) = Each(IntoScope(c), Leaves(x))
      BY ScopeFacts
    <2> HIDE DEF c
    <2>4. ASSUME NEW x \in Multi
          PROVE  Ascend(c, x) \in Multi /\ Leaves(Ascend(c, x)) = Each(ToRoot(c), Leaves(x))
      <3>1. Ascend(c, x) = Ascend(n, InScope(c, x))
        <4>1. <<c>> \in Seq(Seq(Nat)) /\ <<>> \in Seq(Seq(Nat)) /\ Append(<<>>, c) = <<c>>
          BY <2>1
        <4> DEFINE N == Seq(Nat)
                   w == <<c>>
                   u == Upwards(n)
                   e == <<>>
        <4>6. w \in Seq(N) /\ u \in Seq(N) /\ e \in Seq(N) /\ c \in N
          BY <2>1, <2>2, <4>1
        <4> HIDE DEF N, w, u, e
        <4> DEFINE W == For("commands", 0)
        <4>2. Walk!Fold(W, x, w \o u) = Walk!Fold(W, Walk!Fold(W, x, w), u)
          BY <4>6, Walk!FoldConcat
        <4>3. Walk!Fold(W, x, Append(e, c)) = InScope(c, Walk!Fold(W, x, e))
          <5>1. Walk!Fold(W, x, Append(e, c)) = WalkStep(W, Walk!Fold(W, x, e), c)
            BY <4>6, Walk!FoldAppend
          <5>2. QED
            BY <5>1, StepOfCommands
        <4>7. w \o u \in Seq(N)
          BY <4>6
        <4>8. Upwards(c) = w \o u /\ Upwards(n) = u /\ w = Append(e, c)
          BY <2>2, <4>1 DEF w, u, e
        <4>9. /\ Ascend(c, x) = Walk!Fold(W, x, w \o u)
              /\ Ascend(n, InScope(c, x)) = Walk!Fold(W, InScope(c, x), u)
          BY <4>6, <4>7, <4>8, AscendIsFold
        <4>4. Walk!Fold(W, x, e) = x
          BY Walk!FoldEmpty DEF e
        <4>5. QED
          BY <4>2, <4>3, <4>4, <4>8, <4>9
      <3>2. InScope(c, x) \in Multi /\ Leaves(InScope(c, x)) = Each(IntoScope(c), Leaves(x))
        BY <2>3
      <3>3. /\ Ascend(n, InScope(c, x)) \in Multi
            /\ Leaves(Ascend(n, InScope(c, x))) = Each(ToRoot(n), Leaves(InScope(c, x)))
        BY <1>2, <3>2
      <3>4. Leaves(x) \in Seq(Singles)
        BY LeavesType
      <3>5. Each(ToRoot(n), Each(IntoScope(c), Leaves(x))) = Each(ToRoot(c), Leaves(x))
        BY <2>3, <3>4, EachTwice
      <3>6. QED
        BY <3>1, <3>2, <3>3, <3>5
    <2>5. c \in T
      BY <2>1, <2>4
    <2>6. QED
      BY <2>5 DEF c
  <1>3. Models \subseteq T
    <2>1. \A n \in Models : n \in T => \A i \in Below(n) : Append(n, i) \in T
      BY <1>2
    <2> HIDE DEF T
    <2>2. QED
      BY <1>1, <2>1, DownTheTree
  <1>4. QED
    BY <1>3

-----------------------------------------------------------------------------
(* What models reply.                                                      *)

\* A message of a model, and the key of its effects, as the program sees them.
Home(n) == [route |-> Lifts(n), from |-> n]
KeyOf(n) == ScopedKey(LocalKey, ContextOf(n))

OwnEffects(n) == [kind : Kinds, body : {n}, output : {{}, {Local(n)}}]

\* The single commands that a model writes.
IsOwn(n, c) ==
    \E l \in LabelNames :
        \/ c = EmitLeaf(Local(n), l)
        \/ \E e \in OwnEffects(n) : c = EffectLeaf(e, l)
        \/ c = CancelLeaf(LocalKey, l)
        \/ \E e \in OwnEffects(n) : c = KeyedLeaf(LocalKey, e, l)
Own(n) == {c \in Singles : IsOwn(n, c)}

LEMMA LocalFacts ==
    ASSUME NEW n \in Seq(Nat)
    PROVE  /\ Local(n) \in Msgs /\ LocalKey \in Keys /\ OwnEffects(n) \subseteq SomeEffects
           /\ LocalKey = [id |-> <<"k">>, child_path |-> <<>>, local_id |-> <<>>]
  <1>1. Local(n) \in Msgs
    BY DEF Local, Msgs
  <1>2. LocalKey = [id |-> <<"k">>, child_path |-> <<>>, local_id |-> <<>>]
    BY DEF LocalKey, NewKey, Root
  <1>3. LocalKey \in Keys
    <2>1. "k" \in Segments
      BY DEF Segments
    <2>2. <<"k">> \in Seq(Segments) /\ <<>> \in Seq(Segments)
      BY <2>1
    <2>3. QED
      BY <1>2, <2>2 DEF Keys
  <1>4. OwnEffects(n) \subseteq SomeEffects
    <2>1. \A o \in {{}, {Local(n)}} : o \in SUBSET Msgs
      BY <1>1
    <2>2. QED
      BY <2>1 DEF OwnEffects, SomeEffects
  <1>5. QED
    BY <1>1, <1>2, <1>3, <1>4

LEMMA OwnLeaves ==
    ASSUME NEW n \in Seq(Nat), NEW l \in LabelNames
    PROVE  /\ EmitLeaf(Local(n), l) \in Own(n) /\ CancelLeaf(LocalKey, l) \in Own(n)
           /\ \A e \in OwnEffects(n) :
                EffectLeaf(e, l) \in Own(n) /\ KeyedLeaf(LocalKey, e, l) \in Own(n)
           /\ \A k \in Kinds :
                EffectOf(k, n, {}) \in OwnEffects(n) /\ EffectOf(k, n, {Local(n)}) \in OwnEffects(n)
  <1>1. EmitLeaf(Local(n), l) \in Own(n)
    <2>1. IsEmit(EmitLeaf(Local(n), l))
      BY LocalFacts DEF IsEmit
    <2>2. QED
      BY <2>1, SinglesAre DEF Own, IsOwn
  <1>2. CancelLeaf(LocalKey, l) \in Own(n)
    <2>1. IsCancel(CancelLeaf(LocalKey, l))
      BY LocalFacts DEF IsCancel
    <2>2. QED
      BY <2>1, SinglesAre DEF Own, IsOwn
  <1>3. ASSUME NEW e \in OwnEffects(n)
        PROVE  EffectLeaf(e, l) \in Own(n) /\ KeyedLeaf(LocalKey, e, l) \in Own(n)
    <2>1. IsEffect(EffectLeaf(e, l)) /\ IsKeyed(KeyedLeaf(LocalKey, e, l))
      BY LocalFacts DEF IsEffect, IsKeyed
    <2>2. QED
      BY <2>1, SinglesAre DEF Own, IsOwn
  <1>4. \A k \in Kinds :
          EffectOf(k, n, {}) \in OwnEffects(n) /\ EffectOf(k, n, {Local(n)}) \in OwnEffects(n)
    BY DEF OwnEffects, EffectOf
  <1>5. QED
    BY <1>1, <1>2, <1>3, <1>4

\* The commands the models write, as leaves.
LEMMA WrittenCommands ==
    ASSUME NEW n
    PROVE  /\ None = NoneCommand(NoLabel)
           /\ Emit(Local(n)) = EmitLeaf(Local(n), NoLabel)
           /\ Foreground(n, Local(n)) = EffectLeaf(EffectOf("Foreground", n, {Local(n)}), NoLabel)
           /\ Background(n, Local(n)) = EffectLeaf(EffectOf("Background", n, {Local(n)}), NoLabel)
           /\ Perform(n) = EffectLeaf(EffectOf("Foreground", n, {}), NoLabel)
           /\ ForegroundKeyed(LocalKey, n, Local(n))
                = KeyedLeaf(LocalKey, EffectOf("Foreground", n, {Local(n)}), NoLabel)
           /\ BackgroundKeyed(LocalKey, n, Local(n))
                = KeyedLeaf(LocalKey, EffectOf("Background", n, {Local(n)}), NoLabel)
           /\ PerformKeyed(LocalKey, n)
                = KeyedLeaf(LocalKey, EffectOf("Foreground", n, {}), NoLabel)
           /\ CancelKey(LocalKey) = CancelLeaf(LocalKey, NoLabel)
  BY DEF None, NoneCommand, Emit, EmitLeaf, Foreground, Background, Perform, ForegroundKeyed,
         BackgroundKeyed, PerformKeyed, CancelKey, EffectCommand, KeyedEffect, Command,
         EffectLeaf, KeyedLeaf, CancelLeaf

LEMMA Labelled ==
    /\ \A m, k, l : Label(EmitLeaf(m, k), l) = EmitLeaf(m, l)
    /\ \A e, k, l : Label(EffectLeaf(e, k), l) = EffectLeaf(e, l)
    /\ \A i, k, l : Label(CancelLeaf(i, k), l) = CancelLeaf(i, l)
    /\ \A i, e, k, l : Label(KeyedLeaf(i, e, k), l) = KeyedLeaf(i, e, l)
    /\ \A s, k, l : Label(BatchCommand(s, k), l) = BatchCommand(s, l)
  BY DEF Label, EmitLeaf, EffectLeaf, CancelLeaf, KeyedLeaf, BatchCommand

\* A sequence is a concatenation if its elements are those of the parts.
LEMMA ConcatIs ==
    \A M : \A s, t, v \in Seq(M) :
        /\ Len(v) = Len(s) + Len(t)
        /\ \A k \in 1..Len(s) : v[k] = s[k]
        /\ \A k \in 1..Len(t) : v[Len(s) + k] = t[k]
        => s \o t = v
  <1> SUFFICES ASSUME NEW M, NEW s \in Seq(M), NEW t \in Seq(M), NEW v \in Seq(M),
                      Len(v) = Len(s) + Len(t),
                      \A k \in 1..Len(s) : v[k] = s[k],
                      \A k \in 1..Len(t) : v[Len(s) + k] = t[k]
               PROVE  s \o t = v
    OBVIOUS
  <1> DEFINE u == s \o t
  <1>1. u \in Seq(M) /\ Len(u) = Len(s) + Len(t) /\ Len(s) \in Nat /\ Len(t) \in Nat
    OBVIOUS
  <1>2. ASSUME NEW k \in 1..Len(u) PROVE u[k] = v[k]
    <2>1. CASE k <= Len(s)
      BY <1>1, <2>1
    <2>2. CASE k > Len(s)
      <3>1. k - Len(s) \in 1..Len(t) /\ Len(s) + (k - Len(s)) = k
        BY <1>1, <2>2
      <3>2. u[k] = t[k - Len(s)]
        BY <1>1, <2>2
      <3>3. v[Len(s) + (k - Len(s))] = t[k - Len(s)]
        BY <3>1
      <3>4. QED
        BY <3>1, <3>2, <3>3
    <2>3. QED
      BY <1>1, <2>1, <2>2
  <1> HIDE DEF u
  <1>3. u = v
    BY <1>1, <1>2
  <1>4. QED
    BY <1>3 DEF u

LEMMA PairOfTwo ==
    \A M : \A a, b \in M : <<a, b>> \in Seq(M) /\ <<a>> \o <<b>> = <<a, b>>
  <1> SUFFICES ASSUME NEW M, NEW a \in M, NEW b \in M
               PROVE  <<a, b>> \in Seq(M) /\ <<a>> \o <<b>> = <<a, b>>
    OBVIOUS
  <1> DEFINE p == <<a, b>>
             f == <<a>>
             g == <<b>>
  <1>1. p \in Seq(M) /\ Len(p) = 2 /\ p[1] = a /\ p[2] = b
    OBVIOUS
  <1>2. \A x \in M : <<x>> \in Seq(M) /\ Len(<<x>>) = 1 /\ <<x>>[1] = x
    OBVIOUS
  <1>3. f \in Seq(M) /\ Len(f) = 1 /\ f[1] = a /\ g \in Seq(M) /\ Len(g) = 1 /\ g[1] = b
    BY <1>2
  <1> HIDE DEF p, f, g
  <1>4. /\ \A k \in 1..Len(f) : p[k] = f[k]
        /\ \A k \in 1..Len(g) : p[Len(f) + k] = g[k]
        /\ Len(p) = Len(f) + Len(g)
    BY <1>1, <1>3
  <1>5. f \o g = p
    BY <1>1, <1>3, <1>4, ConcatIs
  <1>6. QED
    BY <1>1, <1>5 DEF p, f, g

LEMMA PairIs ==
    \A M : \A a, b, c \in M :
        /\ <<a, b>> \in Seq(M) /\ <<a, b, c>> \in Seq(M)
        /\ <<a>> \o <<b>> = <<a, b>> /\ <<a, b>> \o <<c>> = <<a, b, c>>
        /\ <<a>> \o <<b, c>> = <<a, b, c>>
  <1> SUFFICES ASSUME NEW M, NEW a \in M, NEW b \in M, NEW c \in M
               PROVE  /\ <<a, b>> \in Seq(M) /\ <<a, b, c>> \in Seq(M)
                      /\ <<a>> \o <<b>> = <<a, b>> /\ <<a, b>> \o <<c>> = <<a, b, c>>
                      /\ <<a>> \o <<b, c>> = <<a, b, c>>
    OBVIOUS
  <1> DEFINE p == <<a, b>>
             q == <<a, b, c>>
             r == <<b, c>>
             f == <<a>>
             h == <<c>>
  <1>1. /\ p \in Seq(M) /\ Len(p) = 2 /\ p[1] = a /\ p[2] = b
        /\ q \in Seq(M) /\ Len(q) = 3 /\ q[1] = a /\ q[2] = b /\ q[3] = c
        /\ r \in Seq(M) /\ Len(r) = 2 /\ r[1] = b /\ r[2] = c
    OBVIOUS
  <1>2. \A x \in M : <<x>> \in Seq(M) /\ Len(<<x>>) = 1 /\ <<x>>[1] = x
    OBVIOUS
  <1>3. f \in Seq(M) /\ Len(f) = 1 /\ f[1] = a /\ h \in Seq(M) /\ Len(h) = 1 /\ h[1] = c
    BY <1>2
  <1>4. <<a>> \o <<b>> = <<a, b>>
    BY PairOfTwo
  <1> HIDE DEF p, q, r, f, h
  <1>5. /\ \A k \in 1..1 : k = 1
        /\ \A k \in 1..2 : k = 1 \/ k = 2
    OBVIOUS
  <1>6. p \o h = q
    <2>1. \A k \in 1..Len(p) : q[k] = p[k]
      BY <1>1, <1>3, <1>5
    <2>2. \A k \in 1..Len(h) : q[Len(p) + k] = h[k]
      BY <1>1, <1>3, <1>5
    <2>3. Len(q) = Len(p) + Len(h)
      BY <1>1, <1>3
    <2>4. QED
      BY <1>1, <1>3, <2>1, <2>2, <2>3, ConcatIs
  <1>7. f \o r = q
    <2>1. \A k \in 1..Len(f) : q[k] = f[k]
      BY <1>1, <1>3, <1>5
    <2>2. \A k \in 1..Len(r) : q[Len(f) + k] = r[k]
      BY <1>1, <1>3, <1>5
    <2>3. Len(q) = Len(f) + Len(r)
      BY <1>1, <1>3
    <2>4. QED
      BY <1>1, <1>3, <2>1, <2>2, <2>3, ConcatIs
  <1>8. QED
    BY <1>1, <1>4, <1>6, <1>7 DEF p, q, r, f, h

LEMMA BatchOfTwo ==
    ASSUME NEW a \in Multi, NEW b \in Multi
    PROVE  /\ Batch(<<a, b>>) = OfFlat(Leaves(a) \o Leaves(b))
           /\ Batch(<<a, b>>) \in Multi /\ Leaves(Batch(<<a, b>>)) = Leaves(a) \o Leaves(b)
  <1> DEFINE u == Leaves(a)
             v == Leaves(b)
  <1>1. u \in Seq(Singles) /\ v \in Seq(Singles)
    BY LeavesType
  <1>2. Batch(<<a, b>>) = OfFlat(FlattenSeq([i \in 1..2 |-> Leaves(<<a, b>>[i])]))
    BY DEF Batch, Leaves
  <1>3. [i \in 1..2 |-> Leaves(<<a, b>>[i])] = <<u, v>>
    OBVIOUS
  <1> HIDE DEF u, v
  <1>4. FlattenSeq(<<u, v>>) = u \o v
    BY <1>1, FlattenTwo
  <1>5. u \o v \in Seq(Singles)
    BY <1>1
  <1>6. QED
    BY <1>2, <1>3, <1>4, <1>5, OfFlatFacts DEF u, v

LEMMA BatchOfThree ==
    ASSUME NEW a \in Multi, NEW b \in Multi, NEW c \in Multi
    PROVE  /\ Batch(<<a, b, c>>) = OfFlat((Leaves(a) \o Leaves(b)) \o Leaves(c))
           /\ Batch(<<a, b, c>>) \in Multi
           /\ Leaves(Batch(<<a, b, c>>)) = (Leaves(a) \o Leaves(b)) \o Leaves(c)
  <1> DEFINE u == Leaves(a)
             v == Leaves(b)
             w == Leaves(c)
             S == Seq(Singles)
  <1>1. u \in S /\ v \in S /\ w \in S
    BY LeavesType
  <1>2. Batch(<<a, b, c>>) = OfFlat(FlattenSeq([i \in 1..3 |-> Leaves(<<a, b, c>>[i])]))
    BY DEF Batch, Leaves
  <1>3. [i \in 1..3 |-> Leaves(<<a, b, c>>[i])] = <<u, v, w>>
    OBVIOUS
  <1> HIDE DEF u, v, w
  <1>4. FlattenSeq(<<u, v, w>>) = (u \o v) \o w
    <2>1. <<u, v, w>> = Append(<<u, v>>, w) /\ <<u, v>> \in Seq(S)
      <3> HIDE DEF S
      <3>1. <<u, v>> \o <<w>> = <<u, v, w>> /\ <<u, v>> \in Seq(S)
        BY <1>1, PairIs
      <3>2. QED
        BY <1>1, <3>1, AppendIsConcat
    <2>2. FlattenSeq(<<u, v>>) = u \o v
      BY <1>1, FlattenTwo
    <2> DEFINE p == <<u, v>>
    <2> HIDE DEF p
    <2>3. p \in Seq(Seq(Singles)) /\ w \in Seq(Singles)
      BY <1>1, <2>1 DEF p
    <2>4. FlattenSeq(Append(p, w)) = FlattenSeq(p) \o w
      BY <2>3, FlattenAppend
    <2>5. QED
      BY <2>1, <2>2, <2>4 DEF p
  <1>5. (u \o v) \o w \in Seq(Singles)
    <2>1. u \o v \in Seq(Singles)
      BY <1>1
    <2>2. QED
      BY <1>1, <2>1
  <1>6. QED
    BY <1>2, <1>3, <1>4, <1>5, OfFlatFacts DEF u, v, w

\* A reply is executed as its author meant it, however it is batched and labelled.
LEMMA MeantFacts ==
    ASSUME NEW n \in Seq(Nat), NEW reply \in ReplyNames
    PROVE  /\ Meant(n, reply) \in Seq(Own(n)) /\ ReplyCommand(n, reply) \in Multi
           /\ Leaves(ReplyCommand(n, reply)) = Meant(n, reply)
  <1> DEFINE none == NoneCommand(NoLabel)
             fg == EffectOf("Foreground", n, {Local(n)})
             bg == EffectOf("Background", n, {Local(n)})
             log == EffectOf("Foreground", n, {})
             M == Own(n)
             meant == Meant(n, reply)
             command == ReplyCommand(n, reply)
             Fine == meant \in Seq(M) /\ command \in Multi /\ Leaves(command) = meant
             message == Local(n)
  <1>1. /\ NoLabel \in LabelNames /\ "emit" \in LabelNames /\ "load" \in LabelNames
        /\ "once" \in LabelNames /\ "lost" \in LabelNames /\ "stop" \in LabelNames
        /\ "log" \in LabelNames
    BY DEF LabelNames
  <1>2. fg \in OwnEffects(n) /\ bg \in OwnEffects(n) /\ log \in OwnEffects(n)
    BY <1>1, OwnLeaves DEF Kinds
  <1>3. M \subseteq Singles /\ Singles \subseteq Multi
    BY MultiAre DEF Own
  <1>4. ASSUME NEW l \in LabelNames
        PROVE  /\ EmitLeaf(message, l) \in M /\ CancelLeaf(LocalKey, l) \in M
               /\ \A e \in OwnEffects(n) : EffectLeaf(e, l) \in M /\ KeyedLeaf(LocalKey, e, l) \in M
    BY OwnLeaves
  <1>5. /\ None = none /\ Emit(message) = EmitLeaf(message, NoLabel)
        /\ Foreground(n, message) = EffectLeaf(fg, NoLabel)
        /\ Background(n, message) = EffectLeaf(bg, NoLabel)
        /\ Perform(n) = EffectLeaf(log, NoLabel)
        /\ ForegroundKeyed(LocalKey, n, message) = KeyedLeaf(LocalKey, fg, NoLabel)
        /\ BackgroundKeyed(LocalKey, n, message) = KeyedLeaf(LocalKey, bg, NoLabel)
        /\ PerformKeyed(LocalKey, n) = KeyedLeaf(LocalKey, log, NoLabel)
        /\ CancelKey(LocalKey) = CancelLeaf(LocalKey, NoLabel)
    BY WrittenCommands
  <1>6. none \in Multi /\ Leaves(none) = <<>>
    BY <1>1, LeavesAre, MultiAre
  <1>7. \A c \in M : c \in Multi /\ Leaves(c) = <<c>> /\ <<c>> \in Seq(M)
    BY <1>3, LeavesAre
  <1>8. ASSUME NEW c \in M, meant = <<c>>, command = c PROVE Fine
    BY <1>7, <1>8
  <1> SUFFICES Fine
    OBVIOUS
  <1> HIDE DEF M, fg, bg, log, none
  <1>18. \A a, b \in M : <<a>> \o <<b>> = <<a, b>> /\ <<a>> \o <<>> = <<a>>
    <2>1. \A a \in M : <<a>> \o <<>> = <<a>>
      BY <1>7
    <2>2. QED
      BY <2>1, PairOfTwo
  <1>19. \A a, b, c \in M : /\ <<a, b, c>> \in Seq(M) /\ <<a>> \o <<b, c>> = <<a, b, c>>
                            /\ <<a, b>> \o <<c>> = <<a, b, c>>
    BY PairIs
  <1>9. CASE reply = "quiet"
    <2>1. meant = <<>> /\ command = None
      BY <1>9 DEF Meant, ReplyCommand
    <2>2. <<>> \in Seq(M)
      OBVIOUS
    <2>3. QED
      BY <1>5, <1>6, <2>1, <2>2
  <1>10. CASE reply = "emit"
    <2>1. meant = <<Label(Emit(message), "emit")>> /\ command = Label(Emit(message), "emit")
      BY <1>10 DEF Meant, ReplyCommand
    <2>2. Label(Emit(message), "emit") = EmitLeaf(message, "emit")
      BY <1>5, Labelled
    <2>3. EmitLeaf(message, "emit") \in M
      BY <1>1, <1>4
    <2>4. QED
      BY <1>8, <2>1, <2>2, <2>3
  <1>11. CASE reply = "load"
    <2> DEFINE c == Label(BackgroundKeyed(LocalKey, n, message), "load")
    <2>1. meant = <<c>> /\ command = c
      BY <1>11 DEF Meant, ReplyCommand
    <2>2. c = KeyedLeaf(LocalKey, bg, "load")
      BY <1>5, Labelled
    <2>3. c \in M
      BY <1>1, <1>2, <1>4, <2>2
    <2>4. QED
      BY <1>8, <2>1, <2>3
  <1>12. CASE reply = "work"
    <2> DEFINE c == PerformKeyed(LocalKey, n)
    <2>1. meant = <<c>> /\ command = c
      BY <1>12 DEF Meant, ReplyCommand
    <2>2. c \in M
      BY <1>1, <1>2, <1>4, <1>5
    <2>3. QED
      BY <1>8, <2>1, <2>2
  <1>13. CASE reply = "cancel"
    <2> DEFINE c == CancelKey(LocalKey)
    <2>1. meant = <<c>> /\ command = c
      BY <1>13 DEF Meant, ReplyCommand
    <2>2. c \in M
      BY <1>1, <1>4, <1>5
    <2>3. QED
      BY <1>8, <2>1, <2>2
  <1>14. CASE reply = "once"
    <2> DEFINE b == Background(n, message)
               c == Label(b, "once")
    <2>1. meant = <<c>> /\ command = Label(Batch(<<None, b>>), "once")
      BY <1>14 DEF Meant, ReplyCommand
    <2>2. b \in M /\ c = EffectLeaf(bg, "once") /\ c \in M
      <3>1. b = EffectLeaf(bg, NoLabel)
        BY <1>5
      <3>2. c = EffectLeaf(bg, "once")
        BY <3>1, Labelled
      <3>3. QED
        BY <1>1, <1>2, <1>4, <3>1, <3>2
    <2> HIDE DEF b, c
    <2>3. Batch(<<none, b>>) = OfFlat(Leaves(none) \o Leaves(b))
      BY <1>6, <1>7, <2>2, BatchOfTwo
    <2>4. Leaves(none) \o Leaves(b) = <<b>>
      <3>1. <<>> \o <<b>> = <<b>>
        BY <1>7, <2>2
      <3>2. QED
        BY <1>6, <1>7, <2>2, <3>1
    <2>5. OfFlat(<<b>>) = b
      <3>1. Len(<<b>>) = 1 /\ <<b>> # <<>> /\ <<b>>[1] = b
        OBVIOUS
      <3>2. QED
        BY <3>1 DEF OfFlat
    <2>6. command = c
      BY <1>5, <2>1, <2>3, <2>4, <2>5 DEF c
    <2>7. QED
      BY <1>8, <2>1, <2>2, <2>6
  <1>15. CASE reply = "reload"
    <2> DEFINE a == Label(CancelKey(LocalKey), "stop")
               b == ForegroundKeyed(LocalKey, n, message)
               c == Label(Emit(message), "emit")
               inner == Batch(<<a, None, b>>)
    <2>1. meant = <<a, b, c>> /\ command = Batch(<<Label(inner, "lost"), c>>)
      BY <1>15 DEF Meant, ReplyCommand
    <2>2. a \in M /\ b \in M /\ c \in M
      <3>1. a = CancelLeaf(LocalKey, "stop") /\ c = EmitLeaf(message, "emit")
        BY <1>5, Labelled
      <3>2. b = KeyedLeaf(LocalKey, fg, NoLabel)
        BY <1>5
      <3>3. QED
        BY <1>1, <1>2, <1>4, <3>1, <3>2
    <2> HIDE DEF a, b, c
    <2>3. inner = OfFlat((Leaves(a) \o Leaves(none)) \o Leaves(b))
      <3>1. inner = Batch(<<a, none, b>>)
        BY <1>5
      <3>2. a \in Multi /\ b \in Multi /\ none \in Multi
        BY <1>6, <1>7, <2>2
      <3> HIDE DEF inner
      <3>3. QED
        BY <3>1, <3>2, BatchOfThree
    <2>4. (Leaves(a) \o Leaves(none)) \o Leaves(b) = <<a, b>>
      <3>1. <<a>> \o <<>> = <<a>> /\ <<a>> \o <<b>> = <<a, b>>
        BY <2>2, <1>18
      <3>2. QED
        BY <1>6, <1>7, <2>2, <3>1
    <2>5. OfFlat(<<a, b>>) = BatchCommand(<<a, b>>, NoLabel)
      <3>1. Len(<<a, b>>) = 2 /\ <<a, b>> # <<>>
        OBVIOUS
      <3>2. QED
        BY <3>1 DEF OfFlat, Command, BatchCommand
    <2>6. Label(inner, "lost") = BatchCommand(<<a, b>>, "lost")
      BY <2>3, <2>4, <2>5, Labelled
    <2>7. <<a, b>> \in Seq(Singles) /\ <<a, b, c>> \in Seq(M) /\ <<a, b>> \o <<c>> = <<a, b, c>>
      <3>1. a \in Singles /\ b \in Singles
        BY <1>3, <2>2
      <3>2. QED
        BY <2>2, <3>1, PairIs
    <2> DEFINE d == BatchCommand(<<a, b>>, "lost")
    <2>8. d \in Multi /\ Leaves(d) = <<a, b>>
      BY <1>1, <2>7, LeavesAre, MultiAre
    <2>9. command = Batch(<<d, c>>)
      BY <2>1, <2>6
    <2> HIDE DEF d
    <2>10. Batch(<<d, c>>) \in Multi /\ Leaves(Batch(<<d, c>>)) = Leaves(d) \o Leaves(c)
      BY <1>7, <2>2, <2>8, BatchOfTwo
    <2>11. QED
      BY <1>7, <2>1, <2>2, <2>7, <2>8, <2>9, <2>10
  <1>16. CASE reply = "both"
    <2> DEFINE a == Label(Perform(n), "log")
               b == Emit(message)
               c == Foreground(n, message)
               inner == Batch(<<b, c>>)
    <2>1. meant = <<a, b, c>> /\ command = Batch(<<a, inner>>)
      BY <1>16 DEF Meant, ReplyCommand
    <2>2. a \in M /\ b \in M /\ c \in M
      <3>1. a = EffectLeaf(log, "log")
        BY <1>5, Labelled
      <3>2. b = EmitLeaf(message, NoLabel) /\ c = EffectLeaf(fg, NoLabel)
        BY <1>5
      <3>3. QED
        BY <1>1, <1>2, <1>4, <3>1, <3>2
    <2> HIDE DEF a, b, c
    <2>3. inner \in Multi /\ Leaves(inner) = Leaves(b) \o Leaves(c)
      BY <1>7, <2>2, BatchOfTwo
    <2> HIDE DEF inner
    <2>4. <<a, b, c>> \in Seq(M) /\ <<b>> \o <<c>> = <<b, c>> /\ <<a>> \o <<b, c>> = <<a, b, c>>
      BY <2>2, <1>18, <1>19
    <2>5. Batch(<<a, inner>>) \in Multi /\ Leaves(Batch(<<a, inner>>)) = Leaves(a) \o Leaves(inner)
      BY <1>7, <2>2, <2>3, BatchOfTwo
    <2>6. QED
      BY <1>7, <2>1, <2>2, <2>3, <2>4, <2>5
  <1>17. QED
    BY <1>9, <1>10, <1>11, <1>12, <1>13, <1>14, <1>15, <1>16 DEF ReplyNames, M

-----------------------------------------------------------------------------
(* What a command has to be at the root.                                   *)

HomeEffect(effect, n) ==
    [kind |-> effect.kind, body |-> effect.body,
     output |-> IF effect.output = {} THEN {} ELSE {Home(n)}]

LEMMA AtRootUnfolds ==
    ASSUME Grown, NEW n \in Models
    PROVE  \A c : AtRoot(n, c) =
             CASE c.inner.variant = "Emit" -> [c EXCEPT !.inner.message = Home(n)]
               [] c.inner.variant = "Cancel" -> [c EXCEPT !.inner.key = KeyOf(n)]
               [] c.inner.variant = "Effect" ->
                    [c EXCEPT !.inner.effect.output = IF @ = {} THEN {} ELSE {Home(n)}]
               [] c.inner.variant = "Keyed" ->
                    [c EXCEPT !.inner.effect.output = IF @ = {} THEN {} ELSE {Home(n)},
                              !.inner.key = KeyOf(n)]
  <1> DEFINE specs == [k \in 1..Len(n) |-> SpecsOf(SubSeq(n, 1, k - 1))[n[k]]]
             path == [k \in 1..Len(n) |-> specs[k].path]
             message == [route |-> [k \in 1..Len(n) |-> specs[k].lift], from |-> n]
             key == IF n = RootModel THEN LocalKey
                    ELSE [id |-> path \o <<"#", "k">>, child_path |-> path, local_id |-> <<"k">>]
  <1>1. specs = Chain(n) /\ path = Paths(n) /\ message = Home(n)
    BY DEF Chain, Paths, Home, Lifts
  <1>2. path = ContextOf(n) /\ path \in Seq(STRING) /\ Len(path) = Len(n) /\ n \in Seq(Nat)
    BY <1>1, ModelFacts
  <1>3. key = KeyOf(n)
    <2>1. LocalKey = [id |-> <<"k">>, child_path |-> <<>>, local_id |-> <<>>]
      BY <1>2, LocalFacts
    <2>2. CASE n = RootModel
      <3>1. ContextOf(n) = <<>>
        BY <2>2, ModelFacts
      <3>2. QED
        BY <2>2, <3>1 DEF KeyOf, ScopedKey, IsRoot, Root
    <2>3. CASE n # RootModel
      <3> DEFINE p == ContextOf(n)
      <3>1. p # <<>>
        <4>1. Len(n) # 0
          BY <1>2, <2>3 DEF RootModel
        <4>2. Len(<<>>) = 0
          OBVIOUS
        <4>3. QED
          BY <1>2, <4>1, <4>2
      <3>2. (p \o <<"#">>) \o <<"k">> = p \o <<"#", "k">>
        <4>1. p \in Seq(Segments) /\ "#" \in Segments /\ "k" \in Segments
          BY <1>2, PathSegments DEF Segments
        <4> HIDE DEF p
        <4>2. <<"#">> \in Seq(Segments) /\ <<"k">> \in Seq(Segments)
          BY <4>1
        <4>3. (p \o <<"#">>) \o <<"k">> = p \o (<<"#">> \o <<"k">>)
          BY <4>1, <4>2, ConcatAssociative
        <4>4. <<"#">> \o <<"k">> = <<"#", "k">>
          <5> DEFINE x == "#"
                     y == "k"
          <5>1. x \in Segments /\ y \in Segments
            BY <4>1
          <5> HIDE DEF x, y
          <5>2. <<x>> \o <<y>> = <<x, y>>
            BY <5>1, PairOfTwo
          <5>3. QED
            BY <5>2 DEF x, y
        <4>5. QED
          BY <4>3, <4>4
      <3>3. KeyOf(n) = [id |-> (p \o <<"#">>) \o <<"k">>, child_path |-> p, local_id |-> <<"k">>]
        BY <2>1, <3>1 DEF KeyOf, ScopedKey, IsRoot, Root, RuntimePrefix
      <3>4. QED
        BY <1>2, <2>3, <3>2, <3>3
    <2>4. QED
      BY <2>2, <2>3
  <1>4. \A c : AtRoot(n, c) =
             CASE c.inner.variant = "Emit" -> [c EXCEPT !.inner.message = message]
               [] c.inner.variant = "Cancel" -> [c EXCEPT !.inner.key = key]
               [] c.inner.variant = "Effect" ->
                    [c EXCEPT !.inner.effect.output = IF @ = {} THEN {} ELSE {message}]
               [] c.inner.variant = "Keyed" ->
                    [c EXCEPT !.inner.effect.output = IF @ = {} THEN {} ELSE {message},
                              !.inner.key = key]
    BY DEF AtRoot
  <1> HIDE DEF message, key, path, specs
  <1>5. QED
    BY <1>1, <1>3, <1>4

LEMMA AtRootLeaves ==
    ASSUME Grown, NEW n \in Models
    PROVE  /\ \A m, l : AtRoot(n, EmitLeaf(m, l)) = EmitLeaf(Home(n), l)
           /\ \A k, l : AtRoot(n, CancelLeaf(k, l)) = CancelLeaf(KeyOf(n), l)
           /\ \A l : \A e \in SomeEffects :
                AtRoot(n, EffectLeaf(e, l)) = EffectLeaf(HomeEffect(e, n), l)
           /\ \A k, l : \A e \in SomeEffects :
                AtRoot(n, KeyedLeaf(k, e, l)) = KeyedLeaf(KeyOf(n), HomeEffect(e, n), l)
  <1> DEFINE home == Home(n)
             key == KeyOf(n)
             At(c) == AtRoot(n, c)
  <1>1. \A c : At(c) =
             CASE c.inner.variant = "Emit" -> [c EXCEPT !.inner.message = home]
               [] c.inner.variant = "Cancel" -> [c EXCEPT !.inner.key = key]
               [] c.inner.variant = "Effect" ->
                    [c EXCEPT !.inner.effect.output = IF @ = {} THEN {} ELSE {home}]
               [] c.inner.variant = "Keyed" ->
                    [c EXCEPT !.inner.effect.output = IF @ = {} THEN {} ELSE {home},
                              !.inner.key = key]
    BY AtRootUnfolds
  <1> HIDE DEF home, key, At
  <1>2. ASSUME NEW m, NEW l PROVE At(EmitLeaf(m, l)) = EmitLeaf(home, l)
    BY <1>1 DEF EmitLeaf
  <1>3. ASSUME NEW k, NEW l PROVE At(CancelLeaf(k, l)) = CancelLeaf(key, l)
    BY <1>1 DEF CancelLeaf
  <1>4. ASSUME NEW e \in SomeEffects, NEW l
        PROVE  At(EffectLeaf(e, l)) = EffectLeaf(HomeEffect(e, n), l)
    <2> DEFINE a == e.kind
               b == e.body
               o == e.output
    <2>1. e = [kind |-> a, body |-> b, output |-> o]
      BY DEF SomeEffects
    <2>2. HomeEffect(e, n) = [kind |-> a, body |-> b, output |-> IF o = {} THEN {} ELSE {home}]
      BY DEF HomeEffect, home
    <2> HIDE DEF a, b, o
    <2>3. QED
      BY <1>1, <2>1, <2>2 DEF EffectLeaf
  <1>5. ASSUME NEW k, NEW e \in SomeEffects, NEW l
        PROVE  At(KeyedLeaf(k, e, l)) = KeyedLeaf(key, HomeEffect(e, n), l)
    <2> DEFINE a == e.kind
               b == e.body
               o == e.output
    <2>1. e = [kind |-> a, body |-> b, output |-> o]
      BY DEF SomeEffects
    <2>2. HomeEffect(e, n) = [kind |-> a, body |-> b, output |-> IF o = {} THEN {} ELSE {home}]
      BY DEF HomeEffect, home
    <2> HIDE DEF a, b, o
    <2>3. QED
      BY <1>1, <2>1, <2>2 DEF KeyedLeaf
  <1>6. QED
    BY <1>2, <1>3, <1>4, <1>5 DEF At, home, key

LEMMA HomeFacts ==
    ASSUME Grown, NEW n \in Models
    PROVE  /\ n \in Seq(Nat) /\ Lifts(n) \in Seq(STRING) /\ ContextOf(n) \in Seq(STRING)
           /\ Home(n) \in Msgs /\ Home(n) = Prefixed(Lifts(n), Local(n))
           /\ KeyOf(n) \in Keys /\ KeyOf(n).child_path = ContextOf(n)
  <1>1. n \in Seq(Nat) /\ Lifts(n) \in Seq(STRING) /\ ContextOf(n) \in Seq(STRING)
    BY ModelFacts
  <1>2. Home(n) \in Msgs
    BY <1>1 DEF Home, Msgs
  <1>3. Home(n) = Prefixed(Lifts(n), Local(n))
    <2> DEFINE A == STRING
               r == Lifts(n)
    <2>1. r \in Seq(A)
      BY <1>1
    <2> HIDE DEF A, r
    <2>2. r \o <<>> = r
      BY <2>1
    <2>3. QED
      BY <2>2 DEF Home, Prefixed, Local, r
  <1>4. KeyOf(n) \in Keys
    BY <1>1, LocalFacts, ScopedKeyFacts DEF KeyOf
  <1>5. KeyOf(n).child_path = ContextOf(n)
    <2> DEFINE p == ContextOf(n)
    <2>1. LocalKey.child_path = <<>>
      BY <1>1, LocalFacts
    <2> HIDE DEF p
    <2>2. ScopedKey(LocalKey, p).child_path = p
      BY <2>1 DEF ScopedKey, IsRoot, Root
    <2>3. QED
      BY <2>2 DEF KeyOf, p
  <1>6. QED
    BY <1>1, <1>2, <1>3, <1>4, <1>5

\* No two models have the same key, although all use the same local one.
LEMMA KeysDiffer ==
    ASSUME Grown
    PROVE  \A m, n \in Models : KeyOf(m) = KeyOf(n) => m = n
  <1>1. \A n \in Models : KeyOf(n).child_path = ContextOf(n)
    BY HomeFacts
  <1>2. QED
    BY <1>1, ContextsDiffer

\* What a model's commands are executed as is what they have to be at the root.
LEMMA OwnAtRoot ==
    ASSUME Grown, NEW n \in Models
    PROVE  \A c \in Own(n) : AtRoot(n, c) = ToRoot(n)[c]
  <1> DEFINE path == ContextOf(n)
             route == Lifts(n)
  <1>1. n \in Seq(Nat) /\ route \in Seq(STRING) /\ path \in Seq(STRING)
    BY HomeFacts
  <1>2. \A c \in Singles : ToRoot(n)[c] = Raised(c, path, route)
    BY <1>1, RaiseMaps DEF ToRoot
  <1>3. Prefixed(route, Local(n)) = Home(n) /\ ScopedKey(LocalKey, path) = KeyOf(n)
    BY HomeFacts DEF KeyOf
  <1>4. OwnEffects(n) \subseteq SomeEffects
    BY <1>1, LocalFacts
  <1>5. ASSUME NEW e \in OwnEffects(n)
        PROVE  RaisedEffect(e, route) = HomeEffect(e, n)
    <2> DEFINE a == e.kind
               b == e.body
               o == e.output
    <2>1. o = {} \/ o = {Local(n)}
      BY DEF OwnEffects
    <2>2. {Prefixed(route, m) : m \in o} = IF o = {} THEN {} ELSE {Home(n)}
      BY <1>3, <2>1
    <2> HIDE DEF o
    <2>3. QED
      BY <2>2 DEF RaisedEffect, HomeEffect, o
  <1> HIDE DEF path, route
  <1>6. ASSUME NEW c \in Own(n) PROVE AtRoot(n, c) = Raised(c, path, route)
    <2>1. PICK l \in LabelNames :
            \/ c = EmitLeaf(Local(n), l)
            \/ \E e \in OwnEffects(n) : c = EffectLeaf(e, l)
            \/ c = CancelLeaf(LocalKey, l)
            \/ \E e \in OwnEffects(n) : c = KeyedLeaf(LocalKey, e, l)
      BY DEF Own, IsOwn
    <2>2. CASE c = EmitLeaf(Local(n), l)
      BY <2>2, <1>3, AtRootLeaves, RaisedLeaves
    <2>3. ASSUME NEW e \in OwnEffects(n), c = EffectLeaf(e, l)
          PROVE  AtRoot(n, c) = Raised(c, path, route)
      <3>1. AtRoot(n, c) = EffectLeaf(HomeEffect(e, n), l)
        BY <2>3, <1>4, AtRootLeaves
      <3>2. Raised(c, path, route) = EffectLeaf(RaisedEffect(e, route), l)
        BY <2>3, RaisedLeaves
      <3>3. QED
        BY <1>5, <3>1, <3>2
    <2>4. CASE c = CancelLeaf(LocalKey, l)
      BY <2>4, <1>3, AtRootLeaves, RaisedLeaves
    <2>5. ASSUME NEW e \in OwnEffects(n), c = KeyedLeaf(LocalKey, e, l)
          PROVE  AtRoot(n, c) = Raised(c, path, route)
      <3>1. AtRoot(n, c) = KeyedLeaf(KeyOf(n), HomeEffect(e, n), l)
        BY <2>5, <1>4, AtRootLeaves
      <3>2. Raised(c, path, route) = KeyedLeaf(ScopedKey(LocalKey, path), RaisedEffect(e, route), l)
        BY <2>5, RaisedLeaves
      <3>3. QED
        BY <1>3, <1>5, <3>1, <3>2
    <2>6. QED
      BY <2>1, <2>2, <2>3, <2>4, <2>5
  <1>7. Own(n) \subseteq Singles
    BY DEF Own
  <1>8. QED
    BY <1>2, <1>6, <1>7

\* The commands of a reply as the program should see them.
AtHome(n, reply) == [j \in 1..Len(Meant(n, reply)) |-> AtRoot(n, Meant(n, reply)[j])]

LEMMA AtHomeFacts ==
    ASSUME Grown, NEW n \in Models, NEW reply \in ReplyNames
    PROVE  /\ AtHome(n, reply) = Each(ToRoot(n), Meant(n, reply))
           /\ Meant(n, reply) \in Seq(Singles) /\ AtHome(n, reply) \in Seq(Singles)
  <1> DEFINE meant == Meant(n, reply)
  <1>1. n \in Seq(Nat) /\ Maps(ToRoot(n), Singles, Singles)
    BY HomeFacts, RaiseMaps DEF ToRoot
  <1>2. meant \in Seq(Own(n))
    BY <1>1, MeantFacts
  <1> HIDE DEF meant
  <1>3. \A j \in 1..Len(meant) : meant[j] \in Own(n)
    BY <1>2
  <1>4. meant \in Seq(Singles)
    <2>1. Own(n) \subseteq Singles
      BY DEF Own
    <2> HIDE DEF Own
    <2>2. QED
      BY <1>2, <2>1
  <1>5. \A j \in 1..Len(meant) : AtRoot(n, meant[j]) = ToRoot(n)[meant[j]]
    BY <1>3, OwnAtRoot
  <1>6. [j \in 1..Len(meant) |-> AtRoot(n, meant[j])] = Each(ToRoot(n), meant)
    BY <1>5 DEF Each
  <1>7. Each(ToRoot(n), meant) \in Seq(Singles)
    BY <1>1, <1>4, EachType
  <1>8. QED
    BY <1>4, <1>6, <1>7 DEF AtHome, meant

\* A reply of a model is executed as it has to be.
LEMMA ReplyComesHome ==
    ASSUME Grown, NEW n \in Models, NEW reply \in ReplyNames
    PROVE  Leaves(Ascend(n, ReplyCommand(n, reply))) = AtHome(n, reply)
  <1>1. n \in Seq(Nat)
    BY HomeFacts
  <1>2. ReplyCommand(n, reply) \in Multi /\ Leaves(ReplyCommand(n, reply)) = Meant(n, reply)
    BY <1>1, MeantFacts
  <1>3. Leaves(Ascend(n, ReplyCommand(n, reply))) = Each(ToRoot(n), Leaves(ReplyCommand(n, reply)))
    BY <1>2, AscendFacts
  <1>4. QED
    BY <1>2, <1>3, AtHomeFacts

-----------------------------------------------------------------------------
(* Dispatchers, and messages on their way down.                            *)

LEMMA DispatchedIsFold ==
    \A n, M : Upwards(n) \in Seq(M) =>
        Dispatched(n) = Walk!Fold(For("messages", 0), Local(n), Upwards(n))
  <1> SUFFICES ASSUME NEW n, NEW M, Upwards(n) \in Seq(M)
               PROVE  Dispatched(n) = Walk!Fold(For("messages", 0), Local(n), Upwards(n))
    OBVIOUS
  <1> DEFINE l == Len(Upwards(n))
             Of(g, d) == IF d = {} THEN Local(n)
                         ELSE Lift(SpecOf(Upwards(n)[Max(d)]).lift, g[d \ {Max(d)}])
             f == CHOOSE g : g = [d \in SUBSET (DOMAIN Upwards(n)) |-> Of(g, d)]
  <1>1. Dispatched(n) = f[DOMAIN Upwards(n)]
    BY DEF Dispatched, FoldLeft, MapThenFoldSet
  <1>2. DOMAIN Upwards(n) = 1..l
    OBVIOUS
  <1>3. \A g, d : Walk!FoldOf(For("messages", 0), Local(n), Upwards(n), g, d) = Of(g, d)
    <2>1. \A x, e : WalkStep(For("messages", 0), x, e) = Lift(SpecOf(e).lift, x)
      BY StepOfMessages
    <2>2. QED
      BY <2>1 DEF Walk!FoldOf, Walk!Max, Max
  <1> HIDE DEF Of
  <1>4. \A g : Walk!IsFolds(g, For("messages", 0), Local(n), Upwards(n), l)
                 <=> g = [d \in SUBSET (1..l) |-> Of(g, d)]
    BY <1>3 DEF Walk!IsFolds
  <1>5. (\E g : Walk!IsFolds(g, For("messages", 0), Local(n), Upwards(n), l))
          => Walk!IsFolds(f, For("messages", 0), Local(n), Upwards(n), l)
    BY <1>2, <1>4
  <1> HIDE DEF f
  <1>6. QED
    BY <1>1, <1>2, <1>5, Walk!FoldIs

\* A dispatcher wraps a message in the constructors of all the models between.
LEMMA Lifted ==
    \A l, s, f : Lift(l, [route |-> s, from |-> f]) = [route |-> <<l>> \o s, from |-> f]
  <1> SUFFICES ASSUME NEW l, NEW s, NEW f
               PROVE  Lift(l, [route |-> s, from |-> f]) = [route |-> <<l>> \o s, from |-> f]
    OBVIOUS
  <1> DEFINE m == [route |-> s, from |-> f]
             t == <<l>> \o s
  <1>1. m.route = s
    OBVIOUS
  <1>2. Lift(l, m) = [m EXCEPT !.route = t]
    BY <1>1 DEF Lift
  <1> HIDE DEF t
  <1>3. [m EXCEPT !.route = t] = [route |-> t, from |-> f]
    OBVIOUS
  <1>4. QED
    BY <1>2, <1>3 DEF t

LEMMA DispatchedUp ==
    ASSUME Grown
    PROVE  \A n \in Models : \A m \in Msgs :
             Walk!Fold(For("messages", 0), m, Upwards(n)) = Prefixed(Lifts(n), m)
  <1> DEFINE Up(n, m) == Walk!Fold(For("messages", 0), m, Upwards(n))
             T == {n \in Models : \A m \in Msgs : Up(n, m) = Prefixed(Lifts(n), m)}
  <1>1. RootModel \in T
    <2>1. ASSUME NEW m \in Msgs PROVE Up(RootModel, m) = Prefixed(Lifts(RootModel), m)
      <3>1. Up(RootModel, m) = m
        BY WaysOfRoot, Walk!FoldEmpty
      <3>2. Lifts(RootModel) = <<>>
        BY ModelFacts
      <3> DEFINE A == STRING
                 r == m.route
      <3>3. m = [route |-> r, from |-> m.from] /\ r \in Seq(A)
        BY DEF Msgs
      <3> HIDE DEF A, r
      <3>4. <<>> \o r = r
        BY <3>3
      <3>5. QED
        BY <3>1, <3>2, <3>3, <3>4 DEF Prefixed, r
    <2>2. QED
      BY <2>1, ModelsUnfold
  <1>2. ASSUME NEW n \in Models, n \in T, NEW i \in Below(n) PROVE Append(n, i) \in T
    <2> DEFINE c == Append(n, i)
               l == SpecsOf(n)[i].lift
               N == Seq(Nat)
               u == Upwards(n)
    <2>1. c \in Models /\ i \in Nat
      BY ModelsGrow
    <2>2. n \in Seq(Nat) /\ Lifts(n) \in Seq(STRING) /\ c \in Seq(Nat)
      BY <2>1, HomeFacts
    <2>3. u \in Seq(N) /\ Upwards(c) = <<c>> \o u /\ c \in N /\ SpecOf(c) = SpecsOf(n)[i]
      BY <2>1, <2>2, WaysOfChild, AppendFacts
    <2>4. Lifts(c) = Append(Lifts(n), l) /\ l \in STRING
      <3>1. SpecsOf(n)[i] \in Specs
        BY SpecsFacts
      <3>2. QED
        BY <3>1, ModelFacts DEF Specs
    <2>5. ASSUME NEW m \in Msgs PROVE Up(c, m) = Prefixed(Lifts(c), m)
      <3> DEFINE lifted == Lift(l, m)
                 r == Lifts(n)
                 A == STRING
                 one == <<l>>
                 w == <<c>>
                 e == <<>>
      <3>1. PICK s \in Seq(A), f \in Seq(Nat) : m = [route |-> s, from |-> f]
        BY DEF Msgs
      <3>2. lifted = [route |-> one \o s, from |-> f]
        BY <3>1, Lifted
      <3>3. one \in Seq(A) /\ r \in Seq(A)
        BY <2>2, <2>4, OneType
      <3>4. Append(r, l) = r \o one
        BY <2>2, <2>4, AppendIsConcat
      <3> HIDE DEF lifted, r, one
      <3>5. one \o s \in Seq(A) /\ r \o (one \o s) = (r \o one) \o s
        <4> HIDE DEF A
        <4>1. one \o s \in Seq(A)
          BY <3>1, <3>3
        <4>2. r \o (one \o s) = (r \o one) \o s
          <5> HIDE DEF c, N, u, w, e, l
          <5>1. QED
            BY <3>1, <3>3, SMT
        <4>3. QED
          BY <4>1, <4>2
      <3>6. lifted \in Msgs
        BY <3>1, <3>2, <3>5 DEF Msgs
      <3>7. Up(c, m) = Up(n, lifted)
        <4>1. w \in Seq(N) /\ e \in Seq(N) /\ w = Append(e, c) /\ u \in Seq(N) /\ c \in N
          <5> HIDE DEF N, c
          <5>1. QED
            BY <2>3
        <4> HIDE DEF w, u, N, c, e
        <4>7. w \in Seq(N) /\ u \in Seq(N)
          BY <4>1
        <4>2. Upwards(c) = w \o u
          BY <2>3 DEF w
        <4> DEFINE W == For("messages", 0)
        <4>8. \A a, b : WalkStep(W, a, b) = Lift(SpecOf(b).lift, a)
          BY StepOfMessages
        <4> HIDE DEF W
        <4>3. Walk!Fold(W, m, w \o u) = Walk!Fold(W, Walk!Fold(W, m, w), u)
          BY <4>7, Walk!FoldConcat
        <4>4. Walk!Fold(W, m, w) = WalkStep(W, m, c)
          <5>1. Walk!Fold(W, m, Append(e, c)) = WalkStep(W, Walk!Fold(W, m, e), c)
            BY <4>1, Walk!FoldAppend
          <5>2. Walk!Fold(W, m, e) = m
            BY Walk!FoldEmpty DEF e
          <5>3. QED
            BY <4>1, <5>1, <5>2
        <4>5. WalkStep(W, m, c) = lifted
          BY <2>3, <4>8 DEF lifted
        <4>6. QED
          BY <4>2, <4>3, <4>4, <4>5 DEF u, W
      <3>8. Up(n, lifted) = Prefixed(r, lifted)
        BY <1>2, <3>6 DEF r
      <3>9. Prefixed(r, lifted) = [route |-> r \o (one \o s), from |-> f]
        BY <3>2 DEF Prefixed
      <3>10. Prefixed(Lifts(c), m) = [route |-> (r \o one) \o s, from |-> f]
        BY <2>4, <3>1, <3>4 DEF Prefixed, r
      <3>11. QED
        BY <3>5, <3>7, <3>8, <3>9, <3>10
    <2>6. QED
      BY <2>1, <2>5
  <1> HIDE DEF T
  <1>3. Models \subseteq T
    BY <1>1, <1>2, DownTheTree
  <1>4. QED
    BY <1>3 DEF T

LEMMA DispatchedFacts ==
    ASSUME Grown, NEW n \in Models
    PROVE  Dispatched(n) = Home(n)
  <1>1. Local(n) \in Msgs
    BY HomeFacts, LocalFacts
  <1>2. Upwards(n) \in Seq(Seq(Nat))
    <2>1. n \in Seq(Nat) /\ 0 \in Nat
      BY HomeFacts
    <2>2. QED
      BY <2>1, WaysOfChild
  <1>3. Dispatched(n) = Walk!Fold(For("messages", 0), Local(n), Upwards(n))
    BY <1>2, DispatchedIsFold
  <1>4. QED
    BY <1>1, <1>3, DispatchedUp, HomeFacts

-----------------------------------------------------------------------------
(* Messages on their way down.                                             *)

\* Where a message is after each level.
RouteOf(message) ==
    CHOOSE at : at = [k \in 0..Len(message.route) |-> RouteStep(message, at, k)]

LEMMA RouteUnfolds ==
    ASSUME NEW message \in Msgs
    PROVE  /\ Len(message.route) \in Nat
           /\ Routed(message) = RouteOf(message)[Len(message.route)]
           /\ \A k \in 0..Len(message.route) :
                RouteOf(message)[k] = RouteStep(message, RouteOf(message), k)
  <1> DEFINE l == Len(message.route)
             S == 0..l
             rank == [k \in S |-> k]
  <1>1. l \in Nat
    BY DEF Msgs
  <1>2. Routed(message) = RouteOf(message)[l]
    BY DEF Routed, RouteOf, RouteStep
  <1> HIDE DEF l
  <1>3. Walk!DependsBelow(For("route", message), S, rank)
    <2> SUFFICES ASSUME NEW f, NEW g, NEW n \in S, \A m \in S : rank[m] < rank[n] => f[m] = g[m]
                 PROVE  RouteStep(message, f, n) = RouteStep(message, g, n)
      BY StepOfRoute DEF Walk!DependsBelow
    <2>1. CASE n = 0
      BY <2>1 DEF RouteStep
    <2>2. CASE n # 0
      <3>1. n - 1 \in S /\ rank[n - 1] < rank[n]
        BY <1>1, <2>2
      <3>2. f[n - 1] = g[n - 1]
        BY <3>1
      <3>3. QED
        BY <2>2, <3>2 DEF RouteStep
    <2>3. QED
      BY <2>1, <2>2
  <1>4. rank \in [S -> 0..l]
    OBVIOUS
  <1> HIDE DEF S, rank
  <1>5. \E f : f = [n \in S |-> RouteStep(message, f, n)]
    <2>1. PICK f : Walk!IsRecursion(For("route", message), S, f)
      BY <1>1, <1>3, <1>4, Walk!RecursionExists
    <2>2. f = [n \in S |-> RouteStep(message, f, n)]
      BY <2>1, StepOfRoute DEF Walk!IsRecursion
    <2>3. QED
      BY <2>2
  <1> DEFINE R == RouteOf(message)
  <1>6. R = [n \in S |-> RouteStep(message, R, n)]
    BY <1>5 DEF RouteOf, S, l
  <1> HIDE DEF R
  <1>7. \A n \in S : R[n] = RouteStep(message, R, n)
    BY <1>6
  <1>8. QED
    BY <1>1, <1>2, <1>7 DEF l, S, R

LEMMA MatchingFacts ==
    ASSUME Grown, NEW n, NEW m
    PROVE  /\ Matching(n, m) \subseteq Below(n) /\ Below(n) \subseteq Nat
           /\ Matching(n, m) # {} =>
                /\ FirstMatch(n, m) \in Matching(n, m)
                /\ \A i \in Matching(n, m) : FirstMatch(n, m) <= i
  <1> DEFINE T == Matching(n, m)
  <1>1. T \subseteq Below(n) /\ Below(n) \subseteq Nat
    BY DEF Matching, Below
  <1> HIDE DEF T
  <1>2. ASSUME T # {} PROVE Min(T) \in T /\ \A i \in T : Min(T) <= i
    <2>1. PICK x \in T : \A y \in T : ~(y < x)
      BY <1>1, <1>2, Smallest
    <2>2. \A y \in T : x <= y
      BY <1>1, <2>1
    <2>3. QED
      BY <2>2 DEF Min
  <1>3. QED
    BY <1>1, <1>2 DEF T, FirstMatch

\* Every message is handled by some model.
LEMMA RoutedType ==
    ASSUME Grown, NEW message \in Msgs
    PROVE  Routed(message).by \in Models
  <1> DEFINE l == Len(message.route)
             R == RouteOf(message)
             T == {k \in Nat : k \in 0..l => R[k].by \in Models}
  <1>1. /\ l \in Nat /\ Routed(message) = R[l]
        /\ \A k \in 0..l : R[k] = RouteStep(message, R, k)
    BY RouteUnfolds
  <1> HIDE DEF l, R
  <1>2. 0 \in T
    <2>1. R[0] = RouteStep(message, R, 0)
      BY <1>1
    <2>2. R[0].by \in Models
      BY <2>1, ModelsUnfold DEF RouteStep
    <2>3. QED
      BY <2>2
  <1>3. ASSUME NEW k \in T PROVE k + 1 \in T
    <2> SUFFICES ASSUME k + 1 \in 0..l PROVE R[k + 1].by \in Models
      OBVIOUS
    <2>1. k \in 0..l /\ k + 1 # 0 /\ k + 1 - 1 = k
      BY <1>1
    <2> DEFINE n == R[k].by
               m == R[k].message
    <2>2. n \in Models
      BY <2>1
    <2> HIDE DEF T
    <2>3. R[k + 1] = IF Matching(n, m) = {} THEN R[k]
                     ELSE [by |-> Append(n, FirstMatch(n, m)), message |-> Unwrap(m)]
      <3> DEFINE j == k + 1
      <3>1. R[j] = RouteStep(message, R, j) /\ j # 0 /\ j - 1 = k
        BY <1>1, <2>1
      <3> HIDE DEF j
      <3>2. R[j] = IF Matching(n, m) = {} THEN R[k]
                   ELSE [by |-> Append(n, FirstMatch(n, m)), message |-> Unwrap(m)]
        BY <3>1 DEF RouteStep
      <3>3. QED
        BY <3>2 DEF j
    <2>4. Matching(n, m) # {} => Append(n, FirstMatch(n, m)) \in Models
      BY <2>2, MatchingFacts, ModelsGrow
    <2>5. CASE Matching(n, m) = {}
      BY <2>2, <2>3, <2>5
    <2>6. CASE Matching(n, m) # {}
      BY <2>3, <2>4, <2>6
    <2>7. QED
      BY <2>5, <2>6
  <1>4. T = Nat
    <2>1. T \in SUBSET Nat
      OBVIOUS
    <2> HIDE DEF T
    <2>2. QED
      BY <1>2, <1>3, <2>1, AllNaturals
  <1>5. QED
    BY <1>1, <1>4

\* The way to a model goes from child to child.
LEMMA PathFacts ==
    ASSUME Grown
    PROVE  \A n \in Models : \A k \in 1..Len(n) : n[k] \in Below(SubSeq(n, 1, k - 1))
  <1> DEFINE T == {n \in Models : \A k \in 1..Len(n) : n[k] \in Below(SubSeq(n, 1, k - 1))}
  <1>1. RootModel \in T
    <2>1. Len(RootModel) = 0
      BY DEF RootModel
    <2> HIDE DEF RootModel
    <2>2. \A k \in 1..Len(RootModel) : FALSE
      BY <2>1
    <2>3. QED
      BY <2>2, ModelsUnfold
  <1>2. ASSUME NEW n \in Models, n \in T, NEW i \in Below(n) PROVE Append(n, i) \in T
    <2> DEFINE c == Append(n, i)
               l == Len(n)
    <2>1. c \in Models /\ i \in Nat /\ n \in Seq(Nat)
      BY ModelsGrow
    <2>2. c \in Seq(Nat) /\ Len(c) = l + 1 /\ l \in Nat /\ c[l + 1] = i
            /\ \A k \in 1..l : c[k] = n[k]
      BY <2>1
    <2>3. \A k \in 0..l : SubSeq(c, 1, k) = SubSeq(n, 1, k)
      BY <2>1, <2>2
    <2>4. SubSeq(n, 1, l) = n
      BY <2>1
    <2> HIDE DEF c, l
    <2>5. ASSUME NEW k \in 1..Len(c) PROVE c[k] \in Below(SubSeq(c, 1, k - 1))
      <3>1. CASE k = l + 1
        <4>1. k - 1 = l /\ l \in 0..l
          BY <2>2, <3>1
        <4>2. QED
          BY <2>2, <2>3, <2>4, <3>1, <4>1
      <3>2. CASE k # l + 1
        <4>1. k \in 1..l /\ k - 1 \in 0..l
          BY <2>2, <3>2
        <4>2. n[k] \in Below(SubSeq(n, 1, k - 1))
          BY <1>2, <4>1 DEF l
        <4>3. QED
          BY <2>2, <2>3, <4>1, <4>2
      <3>3. QED
        BY <3>1, <3>2
    <2>6. QED
      BY <2>1, <2>5 DEF c
  <1> HIDE DEF T
  <1>3. Models \subseteq T
    BY <1>1, <1>2, DownTheTree
  <1>4. QED
    BY <1>3 DEF T

\* A sequence taken apart, element by element.
LEMMA Cuts ==
    \A M : \A s \in Seq(M) :
        /\ Len(s) \in Nat
        /\ SubSeq(s, 1, 0) = <<>> /\ SubSeq(s, 1, Len(s)) = s
             /\ SubSeq(s, Len(s) + 1, Len(s)) = <<>>
        /\ \A k \in 0..(Len(s) - 1) :
             /\ Append(SubSeq(s, 1, k), s[k + 1]) = SubSeq(s, 1, k + 1)
             /\ SubSeq(s, k + 1, Len(s)) # <<>>
             /\ Head(SubSeq(s, k + 1, Len(s))) = s[k + 1]
             /\ Tail(SubSeq(s, k + 1, Len(s))) = SubSeq(s, k + 2, Len(s))
  <1> SUFFICES ASSUME NEW M, NEW s \in Seq(M)
               PROVE  /\ Len(s) \in Nat
                      /\ SubSeq(s, 1, 0) = <<>> /\ SubSeq(s, 1, Len(s)) = s
                      /\ SubSeq(s, Len(s) + 1, Len(s)) = <<>>
                      /\ \A k \in 0..(Len(s) - 1) :
                           /\ Append(SubSeq(s, 1, k), s[k + 1]) = SubSeq(s, 1, k + 1)
                           /\ SubSeq(s, k + 1, Len(s)) # <<>>
                           /\ Head(SubSeq(s, k + 1, Len(s))) = s[k + 1]
                           /\ Tail(SubSeq(s, k + 1, Len(s))) = SubSeq(s, k + 2, Len(s))
    OBVIOUS
  <1>1. Len(s) \in Nat
    OBVIOUS
  <1>2. /\ SubSeq(s, 1, 0) = <<>> /\ SubSeq(s, 1, Len(s)) = s
        /\ SubSeq(s, Len(s) + 1, Len(s)) = <<>>
    OBVIOUS
  <1>3. ASSUME NEW k \in 0..(Len(s) - 1)
        PROVE  /\ Append(SubSeq(s, 1, k), s[k + 1]) = SubSeq(s, 1, k + 1)
               /\ SubSeq(s, k + 1, Len(s)) # <<>>
               /\ Head(SubSeq(s, k + 1, Len(s))) = s[k + 1]
               /\ Tail(SubSeq(s, k + 1, Len(s))) = SubSeq(s, k + 2, Len(s))
    <2>1. Append(SubSeq(s, 1, k), s[k + 1]) = SubSeq(s, 1, k + 1)
      OBVIOUS
    <2>2. SubSeq(s, k + 1, Len(s)) # <<>>
      <3>1. Len(SubSeq(s, k + 1, Len(s))) = Len(s) - k /\ Len(s) - k # 0
        OBVIOUS
      <3>2. Len(<<>>) = 0
        OBVIOUS
      <3>3. QED
        BY <3>1, <3>2
    <2>3. Head(SubSeq(s, k + 1, Len(s))) = s[k + 1]
      OBVIOUS
    <2>4. Tail(SubSeq(s, k + 1, Len(s))) = SubSeq(s, k + 2, Len(s))
      OBVIOUS
    <2>5. QED
      BY <2>1, <2>2, <2>3, <2>4
  <1>4. QED
    BY <1>1, <1>2, <1>3

LEMMA Unwrapped ==
    \A s, f : Unwrap([route |-> s, from |-> f]) = [route |-> Tail(s), from |-> f]
  <1> SUFFICES ASSUME NEW s, NEW f
               PROVE  Unwrap([route |-> s, from |-> f]) = [route |-> Tail(s), from |-> f]
    OBVIOUS
  <1> DEFINE m == [route |-> s, from |-> f]
             t == Tail(s)
  <1>1. m.route = s
    OBVIOUS
  <1>2. Unwrap(m) = [m EXCEPT !.route = t]
    BY <1>1 DEF Unwrap
  <1> HIDE DEF t
  <1>3. [m EXCEPT !.route = t] = [route |-> t, from |-> f]
    OBVIOUS
  <1>4. QED
    BY <1>2, <1>3 DEF t

\* What a reachable model sends to itself comes to it as it was sent.
LEMMA RoutedHome ==
    ASSUME Grown, NEW n \in Models, Reachable(n)
    PROVE  Routed(Home(n)) = [by |-> n, message |-> Local(n)]
  <1> DEFINE home == Home(n)
             lifts == Lifts(n)
             l == Len(n)
             R == RouteOf(home)
             At(k) == [by |-> SubSeq(n, 1, k),
                       message |-> [route |-> SubSeq(lifts, k + 1, l), from |-> n]]
             T == {k \in Nat : k \in 0..l => R[k] = At(k)}
  <1>1. /\ n \in Seq(Nat) /\ l \in Nat /\ lifts \in Seq(STRING) /\ Len(lifts) = l
        /\ home \in Msgs /\ home = [route |-> lifts, from |-> n] /\ home.route = lifts
    BY HomeFacts, ModelFacts DEF Home
  <1>2. Routed(home) = R[l] /\ \A k \in 0..l : R[k] = RouteStep(home, R, k)
    BY <1>1, RouteUnfolds
  <1>3. \A k \in 1..l : n[k] \in Below(SubSeq(n, 1, k - 1))
    BY PathFacts
  <1>4. \A k \in 1..l : lifts[k] = SpecsOf(SubSeq(n, 1, k - 1))[n[k]].lift
    BY DEF Lifts, Chain
  <1>5. \A k \in 1..l :
          /\ SpecsOf(SubSeq(n, 1, k - 1))[n[k]].extract = SpecsOf(SubSeq(n, 1, k - 1))[n[k]].lift
          /\ \A i \in 1..(n[k] - 1) : SpecsOf(SubSeq(n, 1, k - 1))[i].extract
                                        # SpecsOf(SubSeq(n, 1, k - 1))[n[k]].lift
    BY DEF Reachable
  <1> DEFINE A == STRING
  <1>6. /\ SubSeq(n, 1, 0) = <<>> /\ SubSeq(n, 1, l) = n
        /\ \A k \in 0..(l - 1) : Append(SubSeq(n, 1, k), n[k + 1]) = SubSeq(n, 1, k + 1)
    BY <1>1, Cuts
  <1>7. /\ SubSeq(lifts, 1, l) = lifts /\ SubSeq(lifts, l + 1, l) = <<>>
        /\ \A k \in 0..(l - 1) : /\ SubSeq(lifts, k + 1, l) # <<>>
                                 /\ Head(SubSeq(lifts, k + 1, l)) = lifts[k + 1]
                                 /\ Tail(SubSeq(lifts, k + 1, l)) = SubSeq(lifts, k + 2, l)
    <2> DEFINE r == lifts
    <2>1. r \in Seq(A) /\ Len(r) = l
      BY <1>1
    <2> HIDE DEF r, A
    <2>2. QED
      BY <2>1, Cuts DEF r
  <1> HIDE DEF home, lifts, l, R
  <1>8. 0 \in T
    <2>1. R[0] = [by |-> <<>>, message |-> home]
      <3>1. 0 \in 0..l
        BY <1>1
      <3>2. R[0] = RouteStep(home, R, 0)
        BY <1>2, <3>1
      <3>3. RouteStep(home, R, 0) = [by |-> <<>>, message |-> home]
        BY DEF RouteStep, RootModel
      <3>4. QED
        BY <3>2, <3>3
    <2>2. QED
      BY <1>1, <1>6, <1>7, <2>1
  <1>9. ASSUME NEW k \in T PROVE k + 1 \in T
    <2> SUFFICES ASSUME k + 1 \in 0..l PROVE R[k + 1] = At(k + 1)
      OBVIOUS
    <2> DEFINE j == k + 1
               p == SubSeq(n, 1, k)
               route == SubSeq(lifts, j, l)
               m == [route |-> route, from |-> n]
               i == n[j]
               specs == SpecsOf(p)
    <2>1. k \in 0..(l - 1) /\ k \in 0..l /\ j \in 1..l /\ j # 0 /\ j - 1 = k /\ j \in 0..l
      BY <1>1
    <2>2. R[k] = [by |-> p, message |-> m]
      BY <2>1
    <2>3. /\ route # <<>> /\ Head(route) = lifts[j] /\ Tail(route) = SubSeq(lifts, k + 2, l)
          /\ Append(p, i) = SubSeq(n, 1, j)
      BY <1>6, <1>7, <2>1
    <2>4. i \in Below(p) /\ lifts[j] = specs[i].lift
      <3> HIDE DEF j
      <3>1. QED
        BY <1>3, <1>4, <2>1
    <2>5. specs[i].extract = specs[i].lift /\ \A h \in 1..(i - 1) : specs[h].extract # specs[i].lift
      <3> HIDE DEF j
      <3>1. QED
        BY <1>5, <2>1
    <2> HIDE DEF route
    <2>6. \A h : Extracts(specs[h], m) <=> specs[h].extract = specs[i].lift
      BY <2>3, <2>4 DEF Extracts
    <2>7. i \in Matching(p, m) /\ i \in Nat
      BY <2>4, <2>5, <2>6 DEF Matching, Below
    <2>8. FirstMatch(p, m) = i
      <3> DEFINE f == FirstMatch(p, m)
      <3>1. f \in Matching(p, m) /\ f <= i /\ f \in Nat
        BY <2>7, MatchingFacts
      <3> HIDE DEF f
      <3>2. f \in 1..Len(specs) /\ specs[f].extract = specs[i].lift
        BY <2>6, <3>1 DEF Matching
      <3>3. f \notin 1..(i - 1)
        BY <2>5, <3>2
      <3>4. f = i
        BY <2>7, <3>1, <3>2, <3>3
      <3>5. QED
        BY <3>4 DEF f
    <2>9. Unwrap(m) = [route |-> Tail(route), from |-> n]
      BY Unwrapped
    <2>10. R[j] = [by |-> Append(p, i), message |-> Unwrap(m)]
      <3> HIDE DEF j, p, m, i
      <3>1. R[j] = RouteStep(home, R, j)
        BY <1>2, <2>1
      <3>2. R[k].by = p /\ R[k].message = m
        BY <2>2
      <3>3. QED
        BY <2>1, <2>7, <2>8, <3>1, <3>2 DEF RouteStep
    <2>11. j + 1 = k + 2
      BY <2>1
    <2>12. QED
      BY <2>3, <2>9, <2>10, <2>11
  <1>10. T = Nat
    <2>1. T \in SUBSET Nat
      OBVIOUS
    <2> HIDE DEF T
    <2>2. QED
      BY <1>8, <1>9, <2>1, AllNaturals
  <1>11. R[l] = At(l)
    <2>1. l \in 0..l
      BY <1>1
    <2>2. l \in T
      BY <1>1, <1>10, Zenon
    <2>3. QED
      BY <2>1, <2>2
  <1>12. QED
    BY <1>2, <1>6, <1>7, <1>11 DEF Local, home

-----------------------------------------------------------------------------
(* Effects in flight.                                                      *)

Homes == {Home(n) : n \in Models}

EffectsAt(n) == [kind : Kinds, body : {n}, output : {{}, {Home(n)}}]

Task(n, effect) == [key |-> KeyOf(n), effect |-> effect]

\* Each of some models has a keyed effect in flight, and nobody else has.
TasksOf(ts, who) ==
    /\ IsFiniteSet(ts) /\ who \in SUBSET Models
    /\ \A t \in ts : \E n \in who : \E e \in EffectsAt(n) : t = Task(n, e)
    /\ \A n \in who : \E t \in ts : t.effect.body = n
    /\ \A t, u \in ts : t.effect.body = u.effect.body => t = u

LEMMA TaskFacts ==
    \A n : \A e \in EffectsAt(n) :
        /\ e.body = n /\ e.kind \in Kinds /\ (e.output = {} \/ e.output = {Home(n)})
        /\ Task(n, e).key = KeyOf(n) /\ Task(n, e).effect = e
  BY DEF EffectsAt, Task

LEMMA TasksAre ==
    ASSUME NEW ts, NEW who, TasksOf(ts, who), NEW t \in ts
    PROVE  LET n == t.effect.body
           IN  /\ n \in who /\ n \in Models /\ t.key = KeyOf(n) /\ t.effect \in EffectsAt(n)
               /\ t = Task(n, t.effect)
  <1>1. PICK n \in who : \E e \in EffectsAt(n) : t = Task(n, e)
    BY DEF TasksOf
  <1>2. PICK e \in EffectsAt(n) : t = Task(n, e)
    BY <1>1
  <1>3. t.effect = e /\ t.key = KeyOf(n) /\ e.body = n
    BY <1>2, TaskFacts
  <1>4. n \in Models
    BY DEF TasksOf
  <1>5. QED
    BY <1>2, <1>3, <1>4

LEMMA NoTasks == TasksOf({}, {})
  BY FS_EmptySet DEF TasksOf

LEMMA TaskCancelled ==
    ASSUME Grown, NEW ts, NEW who, TasksOf(ts, who), NEW n \in Models
    PROVE  TasksOf({t \in ts : t.key # KeyOf(n)}, who \ {n})
  <1> DEFINE rest == {t \in ts : t.key # KeyOf(n)}
  <1>1. \A t \in ts : t \in rest <=> t.effect.body # n
    BY TasksAre, KeysDiffer
  <1>2. IsFiniteSet(rest)
    BY FS_Subset DEF TasksOf
  <1>3. rest \subseteq ts
    OBVIOUS
  <1> HIDE DEF rest
  <1>4. ASSUME NEW t \in rest PROVE \E m \in who \ {n} : \E e \in EffectsAt(m) : t = Task(m, e)
    <2>1. t \in ts /\ t.effect.body # n
      BY <1>1, <1>3
    <2>2. /\ t.effect.body \in who /\ t.effect \in EffectsAt(t.effect.body)
          /\ t = Task(t.effect.body, t.effect)
      BY <2>1, TasksAre
    <2>3. QED
      BY <2>1, <2>2
  <1>5. ASSUME NEW m \in who \ {n} PROVE \E t \in rest : t.effect.body = m
    BY <1>1 DEF TasksOf
  <1>6. QED
    BY <1>2, <1>3, <1>4, <1>5 DEF TasksOf, rest

LEMMA TaskStarted ==
    ASSUME Grown, NEW ts, NEW who, TasksOf(ts, who), NEW n \in Models, NEW e \in EffectsAt(n)
    PROVE  TasksOf({t \in ts : t.key # KeyOf(n)} \cup {Task(n, e)}, who \cup {n})
  <1> DEFINE rest == {t \in ts : t.key # KeyOf(n)}
             task == Task(n, e)
             all == rest \cup {task}
  <1>1. TasksOf(rest, who \ {n})
    BY TaskCancelled
  <1>2. task.effect = e /\ e.body = n /\ task.effect.body = n
    BY TaskFacts
  <1> HIDE DEF rest
  <1>3. \A t \in rest : t.effect.body \in who \ {n}
    BY <1>1, TasksAre
  <1>4. IsFiniteSet(all)
    BY <1>1, FS_AddElement DEF TasksOf
  <1>5. ASSUME NEW t \in all PROVE \E m \in who \cup {n} : \E f \in EffectsAt(m) : t = Task(m, f)
    <2>1. CASE t \in rest
      <3>1. PICK m \in who \ {n} : \E f \in EffectsAt(m) : t = Task(m, f)
        BY <1>1, <2>1 DEF TasksOf
      <3>2. QED
        BY <3>1
    <2>2. CASE t = task
      BY <2>2
    <2>3. QED
      BY <2>1, <2>2
  <1>6. ASSUME NEW m \in who \cup {n} PROVE \E t \in all : t.effect.body = m
    <2>1. CASE m = n
      BY <1>2, <2>1
    <2>2. CASE m # n
      <3>1. m \in who \ {n}
        BY <2>2
      <3>2. PICK t \in rest : t.effect.body = m
        BY <1>1, <3>1 DEF TasksOf
      <3>3. QED
        BY <3>2
    <2>3. QED
      BY <2>1, <2>2
  <1>7. \A t, u \in rest : t.effect.body = u.effect.body => t = u
    BY <1>1 DEF TasksOf
  <1>8. \A t, u \in all : t.effect.body = u.effect.body => t = u
    BY <1>2, <1>3, <1>7
  <1>9. who \cup {n} \in SUBSET Models
    BY DEF TasksOf
  <1> HIDE DEF all
  <1>10. TasksOf(all, who \cup {n})
    BY <1>4, <1>5, <1>6, <1>8, <1>9 DEF TasksOf
  <1>11. QED
    BY <1>10 DEF all, rest

LEMMA TaskCompleted ==
    ASSUME NEW ts, NEW who, TasksOf(ts, who), NEW t \in ts
    PROVE  TasksOf(ts \ {t}, who \ {t.effect.body})
  <1> DEFINE n == t.effect.body
             rest == ts \ {t}
  <1>1. IsFiniteSet(rest) /\ rest \subseteq ts
    BY FS_RemoveElement DEF TasksOf
  <1>2. \A u \in rest : u.effect.body # n
    BY DEF TasksOf
  <1>3. ASSUME NEW u \in rest PROVE \E m \in who \ {n} : \E e \in EffectsAt(m) : u = Task(m, e)
    <2>1. /\ u.effect.body \in who /\ u.effect \in EffectsAt(u.effect.body)
          /\ u = Task(u.effect.body, u.effect) /\ u.effect.body # n
      BY <1>1, <1>2, TasksAre
    <2>2. QED
      BY <2>1
  <1>4. ASSUME NEW m \in who \ {n} PROVE \E u \in rest : u.effect.body = m
    <2>1. PICK u \in ts : u.effect.body = m
      BY DEF TasksOf
    <2>2. QED
      BY <2>1
  <1> HIDE DEF n, rest
  <1>5. TasksOf(rest, who \ {n})
    BY <1>1, <1>3, <1>4 DEF TasksOf
  <1>6. QED
    BY <1>5 DEF n, rest

\* There are as many effects as models that have one.
LEMMA TasksCount ==
    ASSUME NEW ts, NEW who, TasksOf(ts, who)
    PROVE  {t.effect.body : t \in ts} = who /\ Cardinality(ts) = Cardinality(who)
  <1> DEFINE f == [t \in ts |-> t.effect.body]
  <1>1. \A t \in ts : t.effect.body \in who
    BY TasksAre
  <1>2. \A n \in who : \E t \in ts : t.effect.body = n
    BY DEF TasksOf
  <1>3. \A t, u \in ts : t.effect.body = u.effect.body => t = u
    BY DEF TasksOf
  <1>4. f \in Bijection(ts, who)
    <2>1. f \in [ts -> who] /\ \A t \in ts : f[t] = t.effect.body
      BY <1>1
    <2> HIDE DEF f
    <2>2. f \in Injection(ts, who)
      BY <1>3, <2>1 DEF Injection, IsInjective
    <2>3. f \in Surjection(ts, who)
      BY <1>2, <2>1 DEF Surjection
    <2>4. QED
      BY <2>2, <2>3 DEF Bijection
  <1>5. ExistsBijection(ts, who)
    BY <1>4 DEF ExistsBijection
  <1>6. IsFiniteSet(ts)
    BY DEF TasksOf
  <1>7. Cardinality(ts) = Cardinality(who)
    BY <1>5, <1>6, FS_Bijection
  <1>8. QED
    BY <1>1, <1>2, <1>7

-----------------------------------------------------------------------------
(* Execution.                                                              *)

State(p, ts, es) == [pending |-> p, tasks |-> ts, effects |-> es]

\* What is in flight and in the queue, if the models that have keyed effects are who.
StateOf(state, who) ==
    \E p \in Seq(Homes) : \E ts, es :
        /\ state = State(p, ts, es)
        /\ TasksOf(ts, who)
        /\ \A e \in es : \E n \in Models : e \in EffectsAt(n)

LEMMA LeafSteps ==
    \A p, ts, es :
        /\ \A m, l : ExecuteLeaf(State(p, ts, es), EmitLeaf(m, l)) = State(Append(p, m), ts, es)
        /\ \A e, l : ExecuteLeaf(State(p, ts, es), EffectLeaf(e, l)) = State(p, ts, es \cup {e})
        /\ \A k, l : ExecuteLeaf(State(p, ts, es), CancelLeaf(k, l))
                       = State(p, {t \in ts : t.key # k}, es)
        /\ \A k, e, l : ExecuteLeaf(State(p, ts, es), KeyedLeaf(k, e, l))
                          = State(p, {t \in ts : t.key # k} \cup {[key |-> k, effect |-> e]}, es)
  <1> SUFFICES ASSUME NEW p, NEW ts, NEW es
               PROVE
        /\ \A m, l : ExecuteLeaf(State(p, ts, es), EmitLeaf(m, l)) = State(Append(p, m), ts, es)
        /\ \A e, l : ExecuteLeaf(State(p, ts, es), EffectLeaf(e, l)) = State(p, ts, es \cup {e})
        /\ \A k, l : ExecuteLeaf(State(p, ts, es), CancelLeaf(k, l))
                       = State(p, {t \in ts : t.key # k}, es)
        /\ \A k, e, l : ExecuteLeaf(State(p, ts, es), KeyedLeaf(k, e, l))
                          = State(p, {t \in ts : t.key # k} \cup {[key |-> k, effect |-> e]}, es)
    OBVIOUS
  <1> DEFINE s == State(p, ts, es)
  <1>1. s.pending = p /\ s.tasks = ts /\ s.effects = es
    BY DEF State
  <1>2. /\ \A q : [s EXCEPT !.pending = q] = State(q, ts, es)
        /\ \A q : [s EXCEPT !.tasks = q] = State(p, q, es)
        /\ \A q : [s EXCEPT !.effects = q] = State(p, ts, q)
    BY DEF State
  <1> HIDE DEF s
  <1>3. ASSUME NEW m, NEW l
        PROVE  ExecuteLeaf(s, EmitLeaf(m, l)) = State(Append(p, m), ts, es)
    <2> DEFINE q == Append(p, m)
               c == EmitLeaf(m, l)
    <2>1. c.inner.variant = "Emit" /\ c.inner.message = m
      BY DEF EmitLeaf
    <2> HIDE DEF c
    <2>2. ExecuteLeaf(s, c) = [s EXCEPT !.pending = q]
      BY <1>1, <2>1 DEF ExecuteLeaf
    <2> HIDE DEF q
    <2>3. QED
      BY <1>2, <2>2 DEF c, q
  <1>4. ASSUME NEW e, NEW l
        PROVE  ExecuteLeaf(s, EffectLeaf(e, l)) = State(p, ts, es \cup {e})
    <2> DEFINE q == es \cup {e}
               c == EffectLeaf(e, l)
    <2>1. c.inner.variant = "Effect" /\ c.inner.effect = e
      BY DEF EffectLeaf
    <2> HIDE DEF c
    <2>2. ExecuteLeaf(s, c) = [s EXCEPT !.effects = q]
      BY <1>1, <2>1 DEF ExecuteLeaf
    <2> HIDE DEF q
    <2>3. QED
      BY <1>2, <2>2 DEF c, q
  <1>5. ASSUME NEW k, NEW l
        PROVE  ExecuteLeaf(s, CancelLeaf(k, l)) = State(p, {t \in ts : t.key # k}, es)
    <2> DEFINE q == {t \in ts : t.key # k}
               c == CancelLeaf(k, l)
    <2>1. c.inner.variant = "Cancel" /\ c.inner.key = k
      BY DEF CancelLeaf
    <2> HIDE DEF c
    <2>2. ExecuteLeaf(s, c) = [s EXCEPT !.tasks = q]
      BY <1>1, <2>1 DEF ExecuteLeaf
    <2> HIDE DEF q
    <2>3. QED
      BY <1>2, <2>2 DEF c, q
  <1>6. ASSUME NEW k, NEW e, NEW l
        PROVE  ExecuteLeaf(s, KeyedLeaf(k, e, l))
                 = State(p, {t \in ts : t.key # k} \cup {[key |-> k, effect |-> e]}, es)
    <2> DEFINE q == {t \in ts : t.key # k} \cup {[key |-> k, effect |-> e]}
               c == KeyedLeaf(k, e, l)
    <2>1. c.inner.variant = "Keyed" /\ c.inner.key = k /\ c.inner.effect = e
      BY DEF KeyedLeaf
    <2> HIDE DEF c
    <2>2. ExecuteLeaf(s, c) = [s EXCEPT !.tasks = q]
      BY <1>1, <2>1 DEF ExecuteLeaf
    <2> HIDE DEF q
    <2>3. QED
      BY <1>2, <2>2 DEF c, q
  <1>7. QED
    BY <1>3, <1>4, <1>5, <1>6 DEF s

\* A model's command, executed: its own effect is started or cancelled, and no other.
LEMMA LeafExecuted ==
    ASSUME Grown, NEW n \in Models, NEW who, NEW state, StateOf(state, who), NEW c \in Own(n)
    PROVE  StateOf(ExecuteLeaf(state, AtRoot(n, c)), BusyAfterCommand(n, who, c))
  <1>1. PICK p, ts, es :
          /\ p \in Seq(Homes) /\ state = State(p, ts, es)
          /\ TasksOf(ts, who)
          /\ \A e \in es : \E m \in Models : e \in EffectsAt(m)
    BY DEF StateOf
  <1>2. n \in Seq(Nat) /\ Home(n) \in Homes
    BY HomeFacts DEF Homes
  <1>3. OwnEffects(n) \subseteq SomeEffects
    BY <1>2, LocalFacts
  <1>4. \A e \in OwnEffects(n) : HomeEffect(e, n) \in EffectsAt(n)
    <2> SUFFICES ASSUME NEW e \in OwnEffects(n) PROVE HomeEffect(e, n) \in EffectsAt(n)
      OBVIOUS
    <2>1. e.kind \in Kinds /\ e.body = n
      BY DEF OwnEffects
    <2>2. QED
      BY <2>1 DEF HomeEffect, EffectsAt
  <1>5. PICK l \in LabelNames :
          \/ c = EmitLeaf(Local(n), l)
          \/ \E e \in OwnEffects(n) : c = EffectLeaf(e, l)
          \/ c = CancelLeaf(LocalKey, l)
          \/ \E e \in OwnEffects(n) : c = KeyedLeaf(LocalKey, e, l)
    BY DEF Own, IsOwn
  <1>6. CASE c = EmitLeaf(Local(n), l)
    <2>1. AtRoot(n, c) = EmitLeaf(Home(n), l)
      BY <1>6, AtRootLeaves
    <2>2. ExecuteLeaf(state, AtRoot(n, c)) = State(Append(p, Home(n)), ts, es)
      BY <1>1, <2>1, LeafSteps
    <2>3. BusyAfterCommand(n, who, c) = who
      BY <1>6 DEF BusyAfterCommand, EmitLeaf
    <2>4. Append(p, Home(n)) \in Seq(Homes)
      BY <1>1, <1>2
    <2>5. QED
      BY <1>1, <2>2, <2>3, <2>4 DEF StateOf
  <1>7. ASSUME NEW e \in OwnEffects(n), c = EffectLeaf(e, l)
        PROVE  StateOf(ExecuteLeaf(state, AtRoot(n, c)), BusyAfterCommand(n, who, c))
    <2> DEFINE h == HomeEffect(e, n)
               all == es \cup {h}
    <2>1. AtRoot(n, c) = EffectLeaf(h, l)
      BY <1>3, <1>7, AtRootLeaves
    <2>2. ExecuteLeaf(state, AtRoot(n, c)) = State(p, ts, all)
      BY <1>1, <2>1, LeafSteps
    <2>3. BusyAfterCommand(n, who, c) = who
      BY <1>7 DEF BusyAfterCommand, EffectLeaf
    <2>4. \A f \in all : \E m \in Models : f \in EffectsAt(m)
      BY <1>1, <1>4
    <2> HIDE DEF all
    <2>5. QED
      BY <1>1, <2>2, <2>3, <2>4 DEF StateOf
  <1>8. CASE c = CancelLeaf(LocalKey, l)
    <2> DEFINE rest == {t \in ts : t.key # KeyOf(n)}
    <2>1. AtRoot(n, c) = CancelLeaf(KeyOf(n), l)
      BY <1>8, AtRootLeaves
    <2>2. ExecuteLeaf(state, AtRoot(n, c)) = State(p, rest, es)
      BY <1>1, <2>1, LeafSteps
    <2>3. BusyAfterCommand(n, who, c) = who \ {n}
      BY <1>8 DEF BusyAfterCommand, CancelLeaf
    <2>4. TasksOf(rest, who \ {n})
      BY <1>1, TaskCancelled
    <2> HIDE DEF rest
    <2>5. QED
      BY <1>1, <2>2, <2>3, <2>4 DEF StateOf
  <1>9. ASSUME NEW e \in OwnEffects(n), c = KeyedLeaf(LocalKey, e, l)
        PROVE  StateOf(ExecuteLeaf(state, AtRoot(n, c)), BusyAfterCommand(n, who, c))
    <2> DEFINE h == HomeEffect(e, n)
               k == KeyOf(n)
               all == {t \in ts : t.key # k} \cup {Task(n, h)}
    <2>1. AtRoot(n, c) = KeyedLeaf(k, h, l)
      BY <1>3, <1>9, AtRootLeaves
    <2>2. Task(n, h) = [key |-> k, effect |-> h]
      BY DEF Task
    <2>3. TasksOf(all, who \cup {n})
      BY <1>1, <1>4, TaskStarted
    <2> HIDE DEF h, k
    <2>4. ExecuteLeaf(state, AtRoot(n, c)) = State(p, all, es)
      BY <1>1, <2>1, <2>2, LeafSteps
    <2>5. BusyAfterCommand(n, who, c) = who \cup {n}
      BY <1>9 DEF BusyAfterCommand, KeyedLeaf
    <2> HIDE DEF all
    <2>6. QED
      BY <1>1, <2>3, <2>4, <2>5 DEF StateOf
  <1>10. QED
    BY <1>5, <1>6, <1>7, <1>8, <1>9

LEMMA ExecuteIsFold ==
    \A state : \A leaves \in Seq(Singles) :
        ExecuteAll(state, leaves) = Walk!Fold(For("leaves", 0), state, leaves)
  <1> SUFFICES ASSUME NEW state, NEW leaves \in Seq(Singles)
               PROVE  ExecuteAll(state, leaves) = Walk!Fold(For("leaves", 0), state, leaves)
    OBVIOUS
  <1> DEFINE l == Len(leaves)
             Of(g, d) == IF d = {} THEN state ELSE ExecuteLeaf(g[d \ {Max(d)}], leaves[Max(d)])
             f == CHOOSE g : g = [d \in SUBSET (DOMAIN leaves) |-> Of(g, d)]
  <1>1. ExecuteAll(state, leaves) = f[DOMAIN leaves]
    BY DEF ExecuteAll, FoldLeft, MapThenFoldSet
  <1>2. DOMAIN leaves = 1..l
    OBVIOUS
  <1>3. \A g, d : Walk!FoldOf(For("leaves", 0), state, leaves, g, d) = Of(g, d)
    <2>1. \A x, e : WalkStep(For("leaves", 0), x, e) = ExecuteLeaf(x, e)
      BY StepOfLeaves
    <2>2. QED
      BY <2>1 DEF Walk!FoldOf, Walk!Max, Max
  <1> HIDE DEF Of
  <1>4. \A g : Walk!IsFolds(g, For("leaves", 0), state, leaves, l)
                 <=> g = [d \in SUBSET (1..l) |-> Of(g, d)]
    BY <1>3 DEF Walk!IsFolds
  <1>5. (\E g : Walk!IsFolds(g, For("leaves", 0), state, leaves, l))
          => Walk!IsFolds(f, For("leaves", 0), state, leaves, l)
    BY <1>2, <1>4
  <1> HIDE DEF f
  <1>6. QED
    BY <1>1, <1>2, <1>5, Walk!FoldIs

LEMMA ExecuteAllFacts ==
    \A state : /\ ExecuteAll(state, <<>>) = state
               /\ \A s \in Seq(Singles), c \in Singles :
                    ExecuteAll(state, Append(s, c)) = ExecuteLeaf(ExecuteAll(state, s), c)
               /\ \A s \in Seq(Singles), t \in Seq(Singles) :
                    ExecuteAll(state, s \o t) = ExecuteAll(ExecuteAll(state, s), t)
  <1> DEFINE w == For("leaves", 0)
             M == Singles
  <1>1. \A state : \A s \in Seq(M) : ExecuteAll(state, s) = Walk!Fold(w, state, s)
    BY ExecuteIsFold
  <1>2. \A x, y : WalkStep(w, x, y) = ExecuteLeaf(x, y)
    BY StepOfLeaves
  <1> HIDE DEF w, M
  <1> SUFFICES ASSUME NEW state
               PROVE  /\ ExecuteAll(state, <<>>) = state
                      /\ \A s \in Seq(M), c \in M :
                           ExecuteAll(state, Append(s, c)) = ExecuteLeaf(ExecuteAll(state, s), c)
                      /\ \A s \in Seq(M), t \in Seq(M) :
                           ExecuteAll(state, s \o t) = ExecuteAll(ExecuteAll(state, s), t)
    BY DEF M
  <1>3. ExecuteAll(state, <<>>) = state
    <2>1. <<>> \in Seq(M)
      OBVIOUS
    <2>2. QED
      BY <1>1, <2>1, Walk!FoldEmpty
  <1>4. ASSUME NEW s \in Seq(M), NEW c \in M
        PROVE  ExecuteAll(state, Append(s, c)) = ExecuteLeaf(ExecuteAll(state, s), c)
    <2>1. Append(s, c) \in Seq(M)
      OBVIOUS
    <2>2. Walk!Fold(w, state, Append(s, c)) = WalkStep(w, Walk!Fold(w, state, s), c)
      BY Walk!FoldAppend
    <2>3. QED
      BY <1>1, <1>2, <2>1, <2>2
  <1>5. ASSUME NEW s \in Seq(M), NEW t \in Seq(M)
        PROVE  ExecuteAll(state, s \o t) = ExecuteAll(ExecuteAll(state, s), t)
    <2>1. s \o t \in Seq(M)
      OBVIOUS
    <2>2. Walk!Fold(w, state, s \o t) = Walk!Fold(w, Walk!Fold(w, state, s), t)
      BY Walk!FoldConcat
    <2>3. QED
      BY <1>1, <2>1, <2>2
  <1>6. QED
    BY <1>3, <1>4, <1>5

LEMMA BusyIsFold ==
    \A who, n, reply, M : Meant(n, reply) \in Seq(M) =>
        BusyAfterReply(who, [model |-> n, reply |-> reply])
          = Walk!Fold(For("busy", n), who, Meant(n, reply))
  <1> SUFFICES ASSUME NEW who, NEW n, NEW reply, NEW M, Meant(n, reply) \in Seq(M)
               PROVE  BusyAfterReply(who, [model |-> n, reply |-> reply])
                        = Walk!Fold(For("busy", n), who, Meant(n, reply))
    OBVIOUS
  <1> DEFINE l == Len(Meant(n, reply))
             Of(g, d) == IF d = {} THEN who
                         ELSE BusyAfterCommand(n, g[d \ {Max(d)}], Meant(n, reply)[Max(d)])
             f == CHOOSE g : g = [d \in SUBSET (DOMAIN Meant(n, reply)) |-> Of(g, d)]
  <1>1. BusyAfterReply(who, [model |-> n, reply |-> reply]) = f[DOMAIN Meant(n, reply)]
    BY DEF BusyAfterReply, FoldLeft, MapThenFoldSet
  <1>2. DOMAIN Meant(n, reply) = 1..l
    OBVIOUS
  <1>3. \A g, d : Walk!FoldOf(For("busy", n), who, Meant(n, reply), g, d) = Of(g, d)
    <2>1. \A x, e : WalkStep(For("busy", n), x, e) = BusyAfterCommand(n, x, e)
      BY StepOfBusy
    <2>2. QED
      BY <2>1 DEF Walk!FoldOf, Walk!Max, Max
  <1> HIDE DEF Of
  <1>4. \A g : Walk!IsFolds(g, For("busy", n), who, Meant(n, reply), l)
                 <=> g = [d \in SUBSET (1..l) |-> Of(g, d)]
    BY <1>3 DEF Walk!IsFolds
  <1>5. (\E g : Walk!IsFolds(g, For("busy", n), who, Meant(n, reply), l))
          => Walk!IsFolds(f, For("busy", n), who, Meant(n, reply), l)
    BY <1>2, <1>4
  <1> HIDE DEF f
  <1>6. QED
    BY <1>1, <1>2, <1>5, Walk!FoldIs

RepliesOf == [model : Models, reply : ReplyNames]

LEMMA RepliesAreFold ==
    \A who : \A replies \in Seq(RepliesOf) :
        BusyAfter(who, replies) = Walk!Fold(For("replies", 0), who, replies)
  <1> SUFFICES ASSUME NEW who, NEW replies \in Seq(RepliesOf)
               PROVE  BusyAfter(who, replies) = Walk!Fold(For("replies", 0), who, replies)
    OBVIOUS
  <1> DEFINE l == Len(replies)
             Of(g, d) == IF d = {} THEN who ELSE BusyAfterReply(g[d \ {Max(d)}], replies[Max(d)])
             f == CHOOSE g : g = [d \in SUBSET (DOMAIN replies) |-> Of(g, d)]
  <1>1. BusyAfter(who, replies) = f[DOMAIN replies]
    BY DEF BusyAfter, FoldLeft, MapThenFoldSet
  <1>2. DOMAIN replies = 1..l
    OBVIOUS
  <1>3. \A g, d : Walk!FoldOf(For("replies", 0), who, replies, g, d) = Of(g, d)
    <2>1. \A x, e : WalkStep(For("replies", 0), x, e) = BusyAfterReply(x, e)
      BY StepOfReplies
    <2>2. QED
      BY <2>1 DEF Walk!FoldOf, Walk!Max, Max
  <1> HIDE DEF Of
  <1>4. \A g : Walk!IsFolds(g, For("replies", 0), who, replies, l)
                 <=> g = [d \in SUBSET (1..l) |-> Of(g, d)]
    BY <1>3 DEF Walk!IsFolds
  <1>5. (\E g : Walk!IsFolds(g, For("replies", 0), who, replies, l))
          => Walk!IsFolds(f, For("replies", 0), who, replies, l)
    BY <1>2, <1>4
  <1> HIDE DEF f
  <1>6. QED
    BY <1>1, <1>2, <1>5, Walk!FoldIs

\* Who is busy after a model's commands.
BusyWith(n, who, s) == Walk!Fold(For("busy", n), who, s)

LEMMA BusyFacts ==
    \A n, who : /\ BusyWith(n, who, <<>>) = who
                /\ \A M : \A s \in Seq(M), c \in M :
                     BusyWith(n, who, Append(s, c)) = BusyAfterCommand(n, BusyWith(n, who, s), c)
  <1> SUFFICES ASSUME NEW n, NEW who
               PROVE  /\ BusyWith(n, who, <<>>) = who
                      /\ \A M : \A s \in Seq(M), c \in M :
                           BusyWith(n, who, Append(s, c))
                             = BusyAfterCommand(n, BusyWith(n, who, s), c)
    OBVIOUS
  <1> DEFINE w == For("busy", n)
  <1>1. \A s : BusyWith(n, who, s) = Walk!Fold(w, who, s)
    BY DEF BusyWith
  <1>2. \A x, y : WalkStep(w, x, y) = BusyAfterCommand(n, x, y)
    BY StepOfBusy
  <1> HIDE DEF w
  <1>3. BusyWith(n, who, <<>>) = who
    BY <1>1, Walk!FoldEmpty
  <1>4. ASSUME NEW M, NEW s \in Seq(M), NEW c \in M
        PROVE  BusyWith(n, who, Append(s, c)) = BusyAfterCommand(n, BusyWith(n, who, s), c)
    <2>1. Walk!Fold(w, who, Append(s, c)) = WalkStep(w, Walk!Fold(w, who, s), c)
      BY Walk!FoldAppend
    <2>2. QED
      BY <1>1, <1>2, <2>1
  <1>5. QED
    BY <1>3, <1>4

LEMMA RepliesFacts ==
    \A who : /\ BusyAfter(who, <<>>) = who
             /\ \A s \in Seq(RepliesOf), r \in RepliesOf :
                  BusyAfter(who, Append(s, r)) = BusyAfterReply(BusyAfter(who, s), r)
  <1> DEFINE w == For("replies", 0)
             M == RepliesOf
  <1>1. \A who : \A s \in Seq(M) : BusyAfter(who, s) = Walk!Fold(w, who, s)
    BY RepliesAreFold
  <1>2. \A x, y : WalkStep(w, x, y) = BusyAfterReply(x, y)
    BY StepOfReplies
  <1> HIDE DEF w, M
  <1> SUFFICES ASSUME NEW who
               PROVE  /\ BusyAfter(who, <<>>) = who
                      /\ \A s \in Seq(M), r \in M :
                           BusyAfter(who, Append(s, r)) = BusyAfterReply(BusyAfter(who, s), r)
    BY DEF M
  <1>3. BusyAfter(who, <<>>) = who
    <2>1. <<>> \in Seq(M)
      OBVIOUS
    <2>2. QED
      BY <1>1, <2>1, Walk!FoldEmpty
  <1>4. ASSUME NEW s \in Seq(M), NEW r \in M
        PROVE  BusyAfter(who, Append(s, r)) = BusyAfterReply(BusyAfter(who, s), r)
    <2>1. Append(s, r) \in Seq(M)
      OBVIOUS
    <2>2. Walk!Fold(w, who, Append(s, r)) = WalkStep(w, Walk!Fold(w, who, s), r)
      BY Walk!FoldAppend
    <2>3. QED
      BY <1>1, <1>2, <2>1, <2>2
  <1>5. QED
    BY <1>3, <1>4

\* The commands of a reply, one after the other.
LEMMA CommandsExecuted ==
    ASSUME Grown, NEW n \in Models, NEW who, NEW state, StateOf(state, who)
    PROVE  \A s \in Seq(Own(n)) :
             StateOf(ExecuteAll(state, Each(ToRoot(n), s)), BusyWith(n, who, s))
  <1> DEFINE f == ToRoot(n)
             M == Own(n)
             T == {s \in Seq(M) : StateOf(ExecuteAll(state, Each(f, s)), BusyWith(n, who, s))}
  <1>1. Maps(f, Singles, Singles) /\ M \subseteq Singles
    BY HomeFacts, RaiseMaps DEF ToRoot, Own
  <1>2. \A c \in M : AtRoot(n, c) = f[c] /\ f[c] \in Singles
    BY <1>1, OwnAtRoot DEF Maps
  <1>3. \A s \in Seq(M) : s \in Seq(Singles) /\ Each(f, s) \in Seq(Singles)
    <2> HIDE DEF f, M
    <2>1. \A s \in Seq(M) : s \in Seq(Singles)
      BY <1>1
    <2>2. QED
      BY <1>1, <2>1, EachType
  <1> HIDE DEF f, M
  <1>4. <<>> \in T
    <2>1. Each(f, <<>>) = <<>> /\ ExecuteAll(state, <<>>) = state
      BY EachEmpty, ExecuteAllFacts
    <2>2. BusyWith(n, who, <<>>) = who
      BY BusyFacts
    <2>3. <<>> \in Seq(M)
      OBVIOUS
    <2>4. QED
      BY <2>1, <2>2, <2>3
  <1>5. ASSUME NEW s \in Seq(M), NEW c \in M, s \in T PROVE Append(s, c) \in T
    <2> DEFINE before == ExecuteAll(state, Each(f, s))
               w == BusyWith(n, who, s)
               t == Each(f, s)
               d == f[c]
    <2>1. StateOf(before, w)
      BY <1>5
    <2>2. Each(f, Append(s, c)) = Append(t, d)
      BY <1>1, <1>3, EachAppend
    <2>3. t \in Seq(Singles) /\ d \in Singles
      BY <1>2, <1>3
    <2>4. BusyWith(n, who, Append(s, c)) = BusyAfterCommand(n, w, c)
      BY BusyFacts
    <2> HIDE DEF T, t, d
    <2>5. ExecuteAll(state, Append(t, d)) = ExecuteLeaf(ExecuteAll(state, t), d)
      BY <2>3, ExecuteAllFacts
    <2> HIDE DEF w, before
    <2>6. StateOf(ExecuteLeaf(before, d), BusyAfterCommand(n, w, c))
      <3>1. c \in Own(n) /\ AtRoot(n, c) = d
        BY <1>2 DEF M, d
      <3>2. QED
        BY <2>1, <3>1, LeafExecuted
    <2>7. StateOf(ExecuteAll(state, Each(f, Append(s, c))), BusyWith(n, who, Append(s, c)))
      BY <2>2, <2>4, <2>5, <2>6 DEF before, t
    <2>8. Append(s, c) \in Seq(M)
      OBVIOUS
    <2>9. QED
      BY <2>7, <2>8 DEF T
  <1> HIDE DEF T
  <1>6. Seq(M) \subseteq T
    BY <1>4, <1>5, AllSequences
  <1>7. QED
    BY <1>6 DEF T, f, M

LEMMA ReplyExecuted ==
    ASSUME Grown, NEW n \in Models, NEW reply \in ReplyNames, NEW who, NEW state,
           StateOf(state, who)
    PROVE  StateOf(ExecuteAll(state, AtHome(n, reply)),
                   BusyAfterReply(who, [model |-> n, reply |-> reply]))
  <1>1. n \in Seq(Nat)
    BY HomeFacts
  <1>2. Meant(n, reply) \in Seq(Own(n)) /\ AtHome(n, reply) = Each(ToRoot(n), Meant(n, reply))
    BY <1>1, MeantFacts, AtHomeFacts
  <1> DEFINE r == [model |-> n, reply |-> reply]
  <1>3. r.model = n /\ r.reply = reply
    OBVIOUS
  <1> HIDE DEF r
  <1>4. BusyAfterReply(who, r) = BusyWith(n, who, Meant(n, reply))
    BY <1>2, BusyIsFold DEF r, BusyWith
  <1>5. StateOf(ExecuteAll(state, Each(ToRoot(n), Meant(n, reply))),
                BusyWith(n, who, Meant(n, reply)))
    BY <1>2, CommandsExecuted
  <1>6. QED
    BY <1>2, <1>4, <1>5 DEF r

\* What is executed for several replies.
AllAtHome(replies) ==
    [k \in 1..Len(replies) |-> AtHome(replies[k].model, replies[k].reply)]

LEMMA AllAtHomeIs ==
    ASSUME Grown
    PROVE  LET g == [r \in RepliesOf |-> AtHome(r.model, r.reply)]
           IN  /\ Maps(g, RepliesOf, Seq(Singles))
               /\ \A s \in Seq(RepliesOf) : AllAtHome(s) = Each(g, s)
  <1> DEFINE g == [r \in RepliesOf |-> AtHome(r.model, r.reply)]
  <1>1. \A r \in RepliesOf : AtHome(r.model, r.reply) \in Seq(Singles)
    BY AtHomeFacts DEF RepliesOf
  <1>2. Maps(g, RepliesOf, Seq(Singles))
    <2> DEFINE B == Seq(Singles)
    <2> HIDE DEF B
    <2>1. \A r \in RepliesOf : AtHome(r.model, r.reply) \in B
      BY <1>1 DEF B
    <2>2. QED
      BY <2>1 DEF Maps, B
  <1>3. \A r \in RepliesOf : g[r] = AtHome(r.model, r.reply)
    OBVIOUS
  <1> HIDE DEF g
  <1>4. ASSUME NEW s \in Seq(RepliesOf) PROVE AllAtHome(s) = Each(g, s)
    <2>1. \A k \in 1..Len(s) : s[k] \in RepliesOf
      OBVIOUS
    <2>2. \A k \in 1..Len(s) : g[s[k]] = AtHome(s[k].model, s[k].reply)
      BY <1>3, <2>1
    <2>3. QED
      BY <2>2 DEF AllAtHome, Each
  <1>5. QED
    BY <1>2, <1>4 DEF g

LEMMA RepliesExecuted ==
    ASSUME Grown, NEW who, NEW state, StateOf(state, who)
    PROVE  \A s \in Seq(RepliesOf) :
             StateOf(ExecuteAll(state, FlattenSeq(AllAtHome(s))), BusyAfter(who, s))
  <1> DEFINE M == RepliesOf
             g == [r \in M |-> AtHome(r.model, r.reply)]
             T == {s \in Seq(M) :
                     StateOf(ExecuteAll(state, FlattenSeq(Each(g, s))), BusyAfter(who, s))}
  <1>1. Maps(g, M, Seq(Singles)) /\ \A s \in Seq(M) : AllAtHome(s) = Each(g, s)
    BY AllAtHomeIs
  <1>2. \A r \in M : g[r] = AtHome(r.model, r.reply) /\ g[r] \in Seq(Singles)
    <2>1. \A r \in M : g[r] \in Seq(Singles)
      BY <1>1 DEF Maps
    <2>2. QED
      BY <2>1
  <1>3. \A r \in M : /\ r.model \in Models /\ r.reply \in ReplyNames
                     /\ r = [model |-> r.model, reply |-> r.reply]
    BY DEF RepliesOf
  <1> HIDE DEF M, g
  <1>4. <<>> \in T
    <2>1. Each(g, <<>>) = <<>> /\ ExecuteAll(state, <<>>) = state
      BY EachEmpty, ExecuteAllFacts
    <2>2. BusyAfter(who, <<>>) = who
      BY RepliesFacts
    <2>3. <<>> \in Seq(M)
      OBVIOUS
    <2>4. QED
      BY <2>1, <2>2, <2>3, FlattenEmpty
  <1>5. ASSUME NEW s \in Seq(M), NEW r \in M, s \in T PROVE Append(s, r) \in T
    <2> DEFINE t == Each(g, s)
               d == g[r]
               flat == FlattenSeq(t)
               B == Seq(Singles)
               w == BusyAfter(who, s)
    <2>1. t \in Seq(B) /\ d \in B
      BY <1>1, <1>2, EachType
    <2>2. Each(g, Append(s, r)) = Append(t, d)
      BY <1>1, EachAppend
    <2>3. StateOf(ExecuteAll(state, flat), w)
      BY <1>5
    <2>4. BusyAfter(who, Append(s, r)) = BusyAfterReply(w, r)
      BY RepliesFacts DEF M
    <2> HIDE DEF T, t, d, w
    <2>5. FlattenSeq(Append(t, d)) = flat \o d /\ flat \in Seq(Singles)
      BY <2>1, FlattenAppend, FlattenType
    <2> HIDE DEF flat
    <2>6. ExecuteAll(state, flat \o d) = ExecuteAll(ExecuteAll(state, flat), d)
      BY <2>1, <2>5, ExecuteAllFacts DEF B
    <2> DEFINE before == ExecuteAll(state, flat)
    <2> HIDE DEF before
    <2>7. StateOf(ExecuteAll(before, d), BusyAfterReply(w, r))
      <3>1. StateOf(ExecuteAll(before, AtHome(r.model, r.reply)),
                    BusyAfterReply(w, [model |-> r.model, reply |-> r.reply]))
        BY <1>3, <2>3, ReplyExecuted DEF before
      <3>2. QED
        BY <1>2, <1>3, <3>1 DEF d
    <2>8. Append(s, r) \in Seq(M)
      OBVIOUS
    <2>9. QED
      BY <2>2, <2>4, <2>5, <2>6, <2>7, <2>8 DEF T, before
  <1> HIDE DEF T
  <1>6. Seq(M) \subseteq T
    BY <1>4, <1>5, AllSequences
  <1>7. QED
    BY <1>1, <1>6 DEF T, M

-----------------------------------------------------------------------------
(* The tree of models in the order in which init runs through it.          *)

Kids(n) == [i \in 1..Len(SpecsOf(n)) |-> Append(n, i)]

Families == [k \in 1..Len(Kids(RootModel)) |->
               Append(Kids(Kids(RootModel)[k]), Kids(RootModel)[k])]

Order == Append(FlattenSeq(Families), RootModel)

LEMMA InOrderIs ==
    \A reply : InOrder(reply) = [k \in 1..Len(Order) |->
                                   [model |-> Order[k], reply |-> reply[Order[k]]]]
  BY DEF InOrder, Order, Families, Kids

LEMMA KidsFacts ==
    ASSUME Grown
    PROVE  /\ \A n \in Models : /\ Kids(n) \in Seq(Models) /\ Len(Kids(n)) = Len(SpecsOf(n))
                                /\ \A i \in Below(n) : Kids(n)[i] = Append(n, i)
           /\ \A i \in Below(RootModel) : \A j \in Below(<<i>>) : Kids(<<i, j>>) = <<>>
  <1>1. ASSUME NEW n \in Models
        PROVE  /\ Kids(n) \in Seq(Models) /\ Len(Kids(n)) = Len(SpecsOf(n))
               /\ \A i \in Below(n) : Kids(n)[i] = Append(n, i)
    <2> DEFINE l == Len(SpecsOf(n))
    <2>1. l \in Nat /\ Below(n) = 1..l
      BY SpecsFacts DEF Below
    <2>2. \A i \in 1..l : Append(n, i) \in Models
      BY <2>1, ModelsGrow
    <2>3. Kids(n) = [i \in 1..l |-> Append(n, i)]
      BY DEF Kids
    <2> HIDE DEF l
    <2> DEFINE k == [i \in 1..l |-> Append(n, i)]
    <2>4. k \in Seq(Models) /\ Len(k) = l /\ \A i \in 1..l : k[i] = Append(n, i)
      BY <2>1, <2>2
    <2>5. QED
      BY <2>1, <2>3, <2>4 DEF l
  <1>2. ASSUME NEW i \in Below(RootModel), NEW j \in Below(<<i>>) PROVE Kids(<<i, j>>) = <<>>
    <2>1. SpecsOf(<<i, j>>) = <<>>
      BY ModelsUnfold
    <2>2. Len(SpecsOf(<<i, j>>)) = 0
      BY <2>1
    <2>3. QED
      BY <2>2 DEF Kids
  <1>3. QED
    BY <1>1, <1>2

LEMMA FlattenMap ==
    \A G, A, B : Maps(G, A, Seq(B)) => \A s \in Seq(Seq(A)) :
        FlattenSeq(Each(G, FlattenSeq(s)))
          = FlattenSeq([k \in 1..Len(s) |-> FlattenSeq(Each(G, s[k]))])
  <1> SUFFICES ASSUME NEW G, NEW A, NEW B, Maps(G, A, Seq(B))
               PROVE  \A s \in Seq(Seq(A)) :
                        FlattenSeq(Each(G, FlattenSeq(s)))
                          = FlattenSeq([k \in 1..Len(s) |-> FlattenSeq(Each(G, s[k]))])
    OBVIOUS
  <1> DEFINE SA == Seq(A)
             SB == Seq(B)
             h == [c \in SA |-> FlattenSeq(Each(G, c))]
             T == {s \in Seq(SA) : FlattenSeq(Each(G, FlattenSeq(s))) = FlattenSeq(Each(h, s))}
  <1>1. \A c \in SA : Each(G, c) \in Seq(SB) /\ FlattenSeq(Each(G, c)) \in SB
    <2>1. \A c \in SA : Each(G, c) \in Seq(SB)
      BY EachType
    <2> HIDE DEF Maps
    <2>2. QED
      BY <2>1, FlattenType
  <1>2. \A c \in SA : h[c] = FlattenSeq(Each(G, c))
    OBVIOUS
  <1>3. Maps(h, SA, SB)
    <2> HIDE DEF SB
    <2>1. QED
      BY <1>1 DEF Maps
  <1> HIDE DEF h
  <1>4. <<>> \in T
    <2>1. Each(h, <<>>) = <<>> /\ Each(G, <<>>) = <<>> /\ <<>> \in Seq(SA)
      BY EachEmpty
    <2>2. QED
      BY <2>1, FlattenEmpty
  <1>5. ASSUME NEW s \in Seq(SA), NEW c \in SA, s \in T PROVE Append(s, c) \in T
    <2> DEFINE p == FlattenSeq(s)
               q == Each(h, s)
               u == Each(G, p)
               v == Each(G, c)
               d == h[c]
    <2>1. p \in SA /\ FlattenSeq(Append(s, c)) = p \o c
      BY FlattenType, FlattenAppend
    <2>2. q \in Seq(SB) /\ d \in SB /\ Each(h, Append(s, c)) = Append(q, d)
      BY <1>1, <1>2, <1>3, EachType, EachAppend
    <2> HIDE DEF p, q, d
    <2>3. u \in Seq(SB) /\ v \in Seq(SB)
      BY <1>1, <2>1
    <2>4. Each(G, p \o c) = u \o v
      BY <2>1, EachConcat
    <2> HIDE DEF u, v
    <2>5. FlattenSeq(u \o v) = FlattenSeq(u) \o FlattenSeq(v)
      BY <2>3, FlattenConcat
    <2>6. FlattenSeq(Append(q, d)) = FlattenSeq(q) \o d
      BY <2>2, FlattenAppend
    <2>7. FlattenSeq(u) = FlattenSeq(q) /\ FlattenSeq(v) = d
      BY <1>2, <1>5 DEF u, v, p, q, d
    <2>8. FlattenSeq(Each(G, FlattenSeq(Append(s, c)))) = FlattenSeq(Each(h, Append(s, c)))
      BY <2>1, <2>2, <2>4, <2>5, <2>6, <2>7
    <2>9. Append(s, c) \in Seq(SA)
      OBVIOUS
    <2>10. QED
      BY <2>8, <2>9
  <1> HIDE DEF T, SA
  <1>6. Seq(SA) \subseteq T
    BY <1>4, <1>5, AllSequences
  <1>7. ASSUME NEW s \in Seq(SA)
        PROVE  Each(h, s) = [k \in 1..Len(s) |-> FlattenSeq(Each(G, s[k]))]
    <2>1. \A k \in 1..Len(s) : h[s[k]] = FlattenSeq(Each(G, s[k]))
      BY <1>2
    <2>2. QED
      BY <2>1 DEF Each
  <1>8. QED
    BY <1>6, <1>7 DEF T, SA

\* What children do before their parents is done in this order.
LEMMA TreeOrder ==
    ASSUME Grown, NEW M, NEW G, Maps(G, Models, Seq(M)), NEW X, Maps(X, Models, Seq(M)),
           \A n \in Models : X[n] = FlattenSeq(Each(X, Kids(n))) \o G[n]
    PROVE  Order \in Seq(Models) /\ X[RootModel] = FlattenSeq(Each(G, Order))
  <1> DEFINE S == Seq(M)
             N == Models
             H(c) == FlattenSeq(Each(G, c))
             kids == Kids(RootModel)
             Q == Families
  <1>1. /\ RootModel \in N /\ kids \in Seq(N)
        /\ \A n \in N : Kids(n) \in Seq(N)
    BY ModelsUnfold, KidsFacts
  <1>2. \A n \in N : G[n] \in S /\ X[n] \in S
    BY DEF Maps
  <1>3. ASSUME NEW c \in Seq(N), NEW n \in N
        PROVE  H(Append(c, n)) = FlattenSeq(Each(G, c)) \o G[n]
    <2> DEFINE e == Each(G, c)
               g == G[n]
    <2>1. e \in Seq(S) /\ g \in S /\ Each(G, Append(c, n)) = Append(e, g)
      BY <1>2, EachType, EachAppend
    <2> HIDE DEF e, g
    <2>2. FlattenSeq(Append(e, g)) = FlattenSeq(e) \o g
      BY <2>1, FlattenAppend
    <2>3. QED
      BY <2>1, <2>2 DEF e, g
  <1>4. ASSUME NEW n \in N, Kids(n) = <<>> PROVE X[n] = G[n]
    <2>1. Each(X, Kids(n)) = <<>>
      BY <1>4, EachEmpty
    <2>2. X[n] = <<>> \o G[n]
      BY <2>1, FlattenEmpty
    <2> DEFINE g == G[n]
    <2>3. g \in S
      BY <1>2
    <2> HIDE DEF g
    <2>4. <<>> \o g = g
      BY <2>3
    <2>5. QED
      BY <2>2, <2>4 DEF g
  <1>5. ASSUME NEW i \in Below(RootModel)
        PROVE  /\ <<i>> \in N /\ Append(Kids(<<i>>), <<i>>) \in Seq(N)
               /\ X[<<i>>] = H(Append(Kids(<<i>>), <<i>>))
    <2> DEFINE c == <<i>>
               k == Kids(c)
    <2>1. c \in N
      BY ModelsUnfold
    <2>2. k \in Seq(N) /\ Len(k) = Len(SpecsOf(c)) /\ \A j \in Below(c) : k[j] = Append(c, j)
      BY <2>1, KidsFacts
    <2>3. ASSUME NEW j \in 1..Len(k) PROVE X[k[j]] = G[k[j]]
      <3>1. j \in Below(c) /\ i \in Nat /\ j \in Nat
        BY <2>2 DEF Below
      <3>2. k[j] = <<i, j>>
        BY <2>2, <3>1, ShortModels
      <3>3. Kids(<<i, j>>) = <<>>
        BY <3>1, KidsFacts
      <3>4. k[j] \in N
        BY <2>2
      <3>5. QED
        BY <1>4, <3>2, <3>3, <3>4
    <2> HIDE DEF c, k
    <2>4. Each(X, k) = Each(G, k)
      BY <2>3 DEF Each
    <2>5. X[c] = FlattenSeq(Each(G, k)) \o G[c]
      BY <2>1, <2>4 DEF k
    <2>6. H(Append(k, c)) = FlattenSeq(Each(G, k)) \o G[c]
      BY <1>3, <2>1, <2>2
    <2>7. Append(k, c) \in Seq(N)
      BY <2>1, <2>2
    <2>8. QED
      BY <2>1, <2>5, <2>6, <2>7 DEF c, k
  <1>6. ASSUME NEW k \in 1..Len(kids)
        PROVE  /\ kids[k] \in N /\ Append(Kids(kids[k]), kids[k]) \in Seq(N)
               /\ X[kids[k]] = H(Append(Kids(kids[k]), kids[k]))
    <2>1. k \in Below(RootModel) /\ k \in Nat
      BY <1>1, KidsFacts DEF Below
    <2>2. kids[k] = <<k>>
      BY <1>1, <2>1, KidsFacts, ShortModels
    <2>3. QED
      BY <1>5, <2>1, <2>2
  <1> DEFINE l == Len(kids)
  <1>7. /\ l \in Nat /\ Q = [k \in 1..l |-> Append(Kids(kids[k]), kids[k])]
    BY <1>1 DEF Families
  <1> HIDE DEF l
  <1>8. Q \in Seq(Seq(N)) /\ Len(Q) = l /\ \A k \in 1..l : Q[k] = Append(Kids(kids[k]), kids[k])
    <2> DEFINE SN == Seq(N)
               E(k) == Append(Kids(kids[k]), kids[k])
               R == [k \in 1..l |-> E(k)]
    <2>1. \A k \in 1..l : E(k) \in SN
      BY <1>6 DEF l
    <2> HIDE DEF SN, E
    <2>2. R \in Seq(SN) /\ Len(R) = l /\ \A k \in 1..l : R[k] = E(k)
      BY <1>7, <2>1
    <2>3. Q = R
      BY <1>7 DEF E
    <2>4. QED
      BY <2>2, <2>3 DEF SN, E
  <1>9. Each(X, kids) = [k \in 1..Len(Q) |-> H(Q[k])]
    <2>1. \A k \in 1..l : X[kids[k]] = H(Q[k])
      BY <1>6, <1>8 DEF l
    <2>2. Each(X, kids) = [k \in 1..l |-> X[kids[k]]]
      BY DEF Each, l
    <2> HIDE DEF kids, Q, H
    <2>3. QED
      BY <1>8, <2>1, <2>2
  <1> HIDE DEF Q, kids
  <1> DEFINE flat == FlattenSeq(Q)
  <1>10. flat \in Seq(N) /\ H(flat) = FlattenSeq([k \in 1..Len(Q) |-> H(Q[k])])
    BY <1>8, FlattenType, FlattenMap
  <1> HIDE DEF flat
  <1>11. X[RootModel] = FlattenSeq(Each(G, flat)) \o G[RootModel]
    <2>1. X[RootModel] = FlattenSeq(Each(X, kids)) \o G[RootModel]
      BY <1>1 DEF kids
    <2>2. QED
      BY <1>9, <1>10, <2>1
  <1>12. H(Append(flat, RootModel)) = FlattenSeq(Each(G, flat)) \o G[RootModel]
    BY <1>1, <1>3, <1>10
  <1>13. Order = Append(flat, RootModel) /\ Append(flat, RootModel) \in Seq(N)
    BY <1>1, <1>10 DEF Order, flat, Q
  <1>14. QED
    BY <1>11, <1>12, <1>13

-----------------------------------------------------------------------------
(* The command of init.                                                    *)

\* What recursion over the tree has to know: how many levels there are below.
Height == [n \in Models |-> 2 - Len(n)]

LEMMA HeightFacts ==
    ASSUME Grown
    PROVE  /\ Height \in [Models -> 0..2]
           /\ \A n \in Models : \A i \in Below(n) :
                Append(n, i) \in Models /\ Height[Append(n, i)] < Height[n]
  <1>1. \A n \in Models : n \in Seq(Nat) /\ Len(n) \in 0..2
    <2>1. Len(RootModel) = 0
      BY DEF RootModel
    <2>2. \A i \in Nat : Len(<<i>>) = 1 /\ \A j \in Nat : Len(<<i, j>>) = 2
      OBVIOUS
    <2>3. \A n : Below(n) \subseteq Nat
      BY DEF Below
    <2> HIDE DEF RootModel
    <2>4. ASSUME NEW n \in Models PROVE Len(n) \in 0..2
      <3>1. CASE n = RootModel
        BY <2>1, <3>1
      <3>2. CASE \E i \in Below(RootModel) : n = <<i>>
        <4>1. PICK i \in Below(RootModel) : n = <<i>>
          BY <3>2
        <4>2. Len(n) = 1
          BY <2>2, <2>3, <4>1
        <4>3. QED
          BY <4>2
      <3>3. CASE \E i \in Below(RootModel) : \E j \in Below(<<i>>) : n = <<i, j>>
        <4>1. PICK i \in Below(RootModel) : \E j \in Below(<<i>>) : n = <<i, j>>
          BY <3>3
        <4>2. PICK j \in Below(<<i>>) : n = <<i, j>>
          BY <4>1
        <4>3. i \in Nat /\ j \in Nat
          BY <2>3
        <4>4. Len(n) = 2
          BY <2>2, <4>2, <4>3
        <4>5. QED
          BY <4>4
      <3>4. QED
        BY <3>1, <3>2, <3>3, ModelsUnfold
    <2>5. QED
      BY <2>4, ModelsGrow
  <1>2. Height \in [Models -> 0..2] /\ \A n \in Models : Height[n] = 2 - Len(n)
    <2>1. \A n \in Models : 2 - Len(n) \in 0..2
      <3>1. \A x \in 0..2 : 2 - x \in 0..2
        OBVIOUS
      <3>2. QED
        BY <1>1, <3>1, Zenon
    <2>2. QED
      BY <2>1 DEF Height
  <1>3. ASSUME NEW n \in Models, NEW i \in Below(n)
        PROVE  Append(n, i) \in Models /\ Height[Append(n, i)] < Height[n]
    <2>1. Append(n, i) \in Models /\ i \in Nat
      BY ModelsGrow
    <2>2. Len(Append(n, i)) = Len(n) + 1
      BY <1>1, <2>1
    <2> DEFINE a == Len(n)
               b == Len(Append(n, i))
    <2>3. a \in 0..2 /\ b \in 0..2 /\ b = a + 1 /\ Height[n] = 2 - a /\ Height[Append(n, i)] = 2 - b
      BY <1>1, <1>2, <2>1, <2>2
    <2> HIDE DEF a, b
    <2>4. QED
      BY <2>1, <2>3
  <1>4. QED
    BY <1>2, <1>3

\* What init of each model returns.
InitOf(reply) == CHOOSE of : of = [n \in Models |-> InitStep(reply, of, n)]

LEMMA InitUnfolds ==
    ASSUME Grown, NEW reply
    PROVE  /\ InitCommand(reply) = InitOf(reply)[RootModel]
           /\ \A n \in Models : InitOf(reply)[n] = InitStep(reply, InitOf(reply), n)
  <1>1. InitCommand(reply) = InitOf(reply)[RootModel]
    BY DEF InitCommand, InitOf, InitStep, InitsOf
  <1>2. Walk!DependsBelow(For("init", reply), Models, Height)
    <2> SUFFICES ASSUME NEW f, NEW g, NEW n \in Models,
                        \A m \in Models : Height[m] < Height[n] => f[m] = g[m]
                 PROVE  InitStep(reply, f, n) = InitStep(reply, g, n)
      BY StepOfInit DEF Walk!DependsBelow
    <2>1. \A i \in 1..Len(SpecsOf(n)) : f[Append(n, i)] = g[Append(n, i)]
      BY HeightFacts DEF Below
    <2>2. InitsOf(f, n) = InitsOf(g, n)
      BY <2>1 DEF InitsOf
    <2>3. QED
      BY <2>2 DEF InitStep
  <1>3. \E f : f = [n \in Models |-> InitStep(reply, f, n)]
    <2> DEFINE H == Height
               S == Models
    <2>1. H \in [S -> 0..2] /\ Walk!DependsBelow(For("init", reply), S, H) /\ 2 \in Nat
      BY <1>2, HeightFacts
    <2> HIDE DEF H, S
    <2>2. PICK f : Walk!IsRecursion(For("init", reply), S, f)
      BY <2>1, Walk!RecursionExists
    <2>3. f = [n \in S |-> InitStep(reply, f, n)]
      BY <2>2, StepOfInit DEF Walk!IsRecursion
    <2>4. QED
      BY <2>3 DEF S
  <1> DEFINE R == InitOf(reply)
  <1>4. R = [n \in Models |-> InitStep(reply, R, n)]
    BY <1>3 DEF InitOf
  <1> HIDE DEF R
  <1>5. \A n \in Models : R[n] = InitStep(reply, R, n)
    BY <1>4
  <1>6. QED
    BY <1>1, <1>5 DEF R

\* What a model returns from init: what its children's scopes made of their commands,
\* then what it means itself.
LEMMA InitLeaves ==
    ASSUME Grown, NEW reply \in [Models -> ReplyNames], NEW n \in Models,
           NEW of, \A i \in Below(n) : of[Append(n, i)] \in Multi
    PROVE  /\ InitStep(reply, of, n) \in Multi
           /\ EachLeaves(InitsOf(of, n)) \in Seq(Seq(Singles))
           /\ Len(InitsOf(of, n)) = Len(SpecsOf(n))
           /\ Leaves(InitStep(reply, of, n))
                = FlattenSeq(EachLeaves(InitsOf(of, n))) \o Meant(n, reply[n])
  <1> DEFINE inits == InitsOf(of, n)
             own == ReplyCommand(n, reply[n])
             meant == Meant(n, reply[n])
             step == InitStep(reply, of, n)
             l == Len(SpecsOf(n))
  <1>1. reply[n] \in ReplyNames /\ n \in Seq(Nat) /\ l \in Nat /\ Below(n) = 1..l
    BY HomeFacts, SpecsFacts DEF Below
  <1>2. own \in Multi /\ Leaves(own) = meant /\ meant \in Seq(Singles)
    BY <1>1, MeantFacts, AtHomeFacts
  <1>3. inits \in Seq(Multi) /\ Len(inits) = l
    <2> DEFINE E(i) == InScope(Append(n, i), of[Append(n, i)])
               s == [i \in 1..l |-> E(i)]
    <2>1. \A i \in 1..l : E(i) \in Multi
      BY <1>1, ScopeFacts
    <2>2. inits = s
      BY DEF InitsOf
    <2> HIDE DEF E, l, inits
    <2>3. s \in Seq(Multi) /\ Len(s) = l
      BY <1>1, <2>1 DEF l
    <2>4. QED
      BY <2>2, <2>3
  <1>4. step = IF inits = <<>> THEN own ELSE Batch(<<Batch(inits), own>>)
    BY DEF InitStep
  <1> HIDE DEF inits, own, meant, step, l
  <1>5. /\ Batch(inits) \in Multi /\ EachLeaves(inits) \in Seq(Seq(Singles))
        /\ Leaves(Batch(inits)) = FlattenSeq(EachLeaves(inits))
    BY <1>3, BatchFacts
  <1>6. CASE inits = <<>>
    <2>1. EachLeaves(inits) = <<>>
      BY <1>6 DEF EachLeaves
    <2>2. <<>> \o meant = meant
      BY <1>2
    <2>3. QED
      BY <1>2, <1>3, <1>4, <1>5, <1>6, <2>1, <2>2, FlattenEmpty DEF inits, meant, step, l
  <1>7. CASE inits # <<>>
    <2> DEFINE b == Batch(inits)
    <2>1. b \in Multi
      BY <1>5
    <2> HIDE DEF b
    <2>2. Batch(<<b, own>>) \in Multi /\ Leaves(Batch(<<b, own>>)) = Leaves(b) \o Leaves(own)
      BY <1>2, <2>1, BatchOfTwo
    <2>3. step = Batch(<<b, own>>)
      BY <1>4, <1>7 DEF b
    <2>4. QED
      BY <1>2, <1>3, <1>5, <2>2, <2>3 DEF b, inits, meant, step, l
  <1>8. QED
    BY <1>6, <1>7

LEMMA RootRaisesNothing ==
    ASSUME Grown
    PROVE  \A s \in Seq(Singles) : Each(ToRoot(RootModel), s) = s
  <1> SUFFICES ASSUME NEW s \in Seq(Singles) PROVE Each(ToRoot(RootModel), s) = s
    OBVIOUS
  <1> DEFINE f == RaiseMap(<<>>, <<>>)
             A == Singles
  <1>1. ToRoot(RootModel) = f
    BY ModelFacts DEF ToRoot
  <1>2. \A c \in A : f[c] = c
    BY RaisedByNothing DEF RaiseMap
  <1>3. s \in Seq(A)
    OBVIOUS
  <1> HIDE DEF f, A
  <1>4. \A k \in 1..Len(s) : f[s[k]] = s[k]
    BY <1>2, <1>3
  <1>5. s = [k \in 1..Len(s) |-> s[k]]
    BY <1>3
  <1>6. QED
    BY <1>1, <1>4, <1>5 DEF Each

\* What init returns is executed as it has to be, children before parents.
LEMMA InitComesHome ==
    ASSUME Grown, NEW reply \in [Models -> ReplyNames]
    PROVE  /\ InOrder(reply) \in Seq(RepliesOf)
           /\ Leaves(InitCommand(reply)) = FlattenSeq(AllAtHome(InOrder(reply)))
  <1> DEFINE of == InitOf(reply)
             V(n) == Leaves(of[n])
             X == [n \in Models |-> Each(ToRoot(n), V(n))]
             G == [n \in Models |-> AtHome(n, reply[n])]
  <1>1. InitCommand(reply) = of[RootModel] /\ \A n \in Models : of[n] = InitStep(reply, of, n)
    BY InitUnfolds
  <1> HIDE DEF of
  <1>2. \A n \in Models : of[n] \in Multi
    <2> DEFINE T == {n \in Models : of[n] \in Multi}
    <2>1. ASSUME NEW n \in Models, \A i \in Below(n) : Append(n, i) \in T PROVE n \in T
      <3>1. \A i \in Below(n) : of[Append(n, i)] \in Multi
        BY <2>1
      <3>2. InitStep(reply, of, n) \in Multi
        BY <3>1, InitLeaves
      <3>3. QED
        BY <1>1, <3>2
    <2> HIDE DEF T
    <2>2. Models \subseteq T
      BY <2>1, UpTheTree
    <2>3. QED
      BY <2>2 DEF T
  <1>3. \A n \in Models : reply[n] \in ReplyNames /\ V(n) \in Seq(Singles)
    BY <1>2, LeavesType
  <1>4. \A n \in Models : Maps(ToRoot(n), Singles, Singles)
    BY HomeFacts, RaiseMaps DEF ToRoot
  <1>5. Maps(X, Models, Seq(Singles)) /\ \A n \in Models : X[n] = Each(ToRoot(n), V(n))
    <2> DEFINE B == Seq(Singles)
    <2>1. \A n \in Models : Each(ToRoot(n), V(n)) \in B
      BY <1>3, <1>4, EachType
    <2> HIDE DEF V, B
    <2>2. QED
      BY <2>1 DEF Maps, B
  <1>6. Maps(G, Models, Seq(Singles)) /\ \A n \in Models : G[n] = AtHome(n, reply[n])
    <2> DEFINE B == Seq(Singles)
    <2>1. \A n \in Models : AtHome(n, reply[n]) \in B
      BY <1>3, AtHomeFacts
    <2> HIDE DEF B
    <2>2. QED
      BY <2>1 DEF Maps, B
  <1>7. ASSUME NEW n \in Models PROVE X[n] = FlattenSeq(Each(X, Kids(n))) \o G[n]
    <2> DEFINE f == ToRoot(n)
               inits == InitsOf(of, n)
               pieces == EachLeaves(inits)
               flat == FlattenSeq(pieces)
               meant == Meant(n, reply[n])
               l == Len(SpecsOf(n))
    <2>1. /\ pieces \in Seq(Seq(Singles)) /\ Len(inits) = l
          /\ V(n) = flat \o meant
      <3>1. \A i \in Below(n) : of[Append(n, i)] \in Multi
        BY <1>2, ModelsGrow
      <3>2. QED
        BY <1>1, <3>1, InitLeaves
    <2>2. flat \in Seq(Singles) /\ meant \in Seq(Singles) /\ Each(f, meant) = G[n]
      <3>1. flat \in Seq(Singles)
        BY <2>1, FlattenType
      <3>2. QED
        BY <1>3, <1>6, <3>1, AtHomeFacts
    <2>3. Maps(f, Singles, Singles) /\ X[n] = Each(f, V(n))
      BY <1>4, <1>5
    <2>4. EachOfEach(f, pieces) = Each(X, Kids(n))
      <3>1. /\ Len(Kids(n)) = l /\ Below(n) = 1..l /\ \A i \in 1..l : Kids(n)[i] = Append(n, i)
            /\ pieces = [i \in 1..l |-> Leaves(inits[i])]
        BY <2>1, KidsFacts DEF EachLeaves, Below
      <3>2. ASSUME NEW i \in 1..l PROVE Each(f, pieces[i]) = X[Kids(n)[i]]
        <4> DEFINE c == Append(n, i)
                   v == V(c)
                   g == IntoScope(c)
                   h == ToRoot(c)
        <4>1. c \in Models /\ Kids(n)[i] = c /\ i \in Below(n)
          BY <3>1, ModelsGrow
        <4>2. pieces[i] = Leaves(InScope(c, of[c]))
          BY <3>1 DEF InitsOf
        <4>3. of[c] \in Multi /\ v \in Seq(Singles)
          BY <1>2, <1>3, <4>1
        <4>4. /\ Leaves(InScope(c, of[c])) = Each(g, v)
              /\ Maps(g, Singles, Singles) /\ \A x \in Singles : f[g[x]] = h[x]
          BY <4>1, <4>3, ScopeFacts
        <4>5. X[c] = Each(h, v)
          BY <1>5, <4>1
        <4> HIDE DEF c, v, g, h, f
        <4>6. Each(f, Each(g, v)) = Each(h, v)
          BY <2>3, <4>3, <4>4, EachTwice
        <4>7. QED
          BY <4>1, <4>2, <4>4, <4>5, <4>6
      <3> HIDE DEF pieces, f, X, l
      <3>3. Len(pieces) = l
        <4>1. l \in Nat
          BY SpecsFacts DEF l
        <4>2. Len([i \in 1..l |-> Leaves(inits[i])]) = l
          BY <4>1
        <4>3. QED
          BY <3>1, <4>2
      <3>4. QED
        BY <3>1, <3>2, <3>3 DEF EachOfEach, Each
    <2> HIDE DEF f, pieces, meant, V, X, G, l, inits
    <2>5. Each(f, flat) = FlattenSeq(EachOfEach(f, pieces))
      BY <2>1, <2>3, EachFlatten
    <2> HIDE DEF flat
    <2>6. Each(f, flat \o meant) = Each(f, flat) \o Each(f, meant)
      BY <2>2, <2>3, EachConcat
    <2>7. QED
      BY <2>1, <2>2, <2>3, <2>4, <2>5, <2>6 DEF flat
  <1> HIDE DEF X, G, V
  <1>8. Order \in Seq(Models) /\ X[RootModel] = FlattenSeq(Each(G, Order))
    BY <1>5, <1>6, <1>7, TreeOrder
  <1>9. X[RootModel] = Leaves(InitCommand(reply))
    <2>1. RootModel \in Models /\ V(RootModel) \in Seq(Singles)
      BY <1>3, ModelsUnfold
    <2>2. X[RootModel] = V(RootModel)
      BY <1>5, <2>1, RootRaisesNothing
    <2>3. QED
      BY <1>1, <2>2 DEF V
  <1> DEFINE l == Len(Order)
             R(m) == [model |-> m, reply |-> reply[m]]
             s == [k \in 1..l |-> R(Order[k])]
  <1>10. l \in Nat /\ \A k \in 1..l : Order[k] \in Models
    BY <1>8
  <1>11. \A m \in Models : R(m) \in RepliesOf /\ R(m).model = m /\ R(m).reply = reply[m]
    BY <1>3 DEF RepliesOf
  <1>12. InOrder(reply) = s
    BY InOrderIs
  <1> HIDE DEF l, R
  <1>13. s \in Seq(RepliesOf) /\ Len(s) = l /\ \A k \in 1..l : s[k] = R(Order[k])
    BY <1>10, <1>11
  <1> HIDE DEF s
  <1>14. AllAtHome(s) = Each(G, Order)
    <2>1. \A k \in 1..l : AtHome(s[k].model, s[k].reply) = G[Order[k]]
      BY <1>6, <1>10, <1>11, <1>13
    <2>2. QED
      BY <1>13, <2>1 DEF AllAtHome, Each, l
  <1>15. QED
    BY <1>8, <1>9, <1>12, <1>13, <1>14

-----------------------------------------------------------------------------
(* Subscriptions on their way up.                                          *)

ApartBy(f, s) == \A j, k \in 1..Len(s) : f[s[j]] = f[s[k]] => j = k

PiecesApart(f, s) ==
    /\ \A i \in 1..Len(s) : ApartBy(f, s[i])
    /\ \A i, k \in 1..Len(s) : \A x \in Entries(s[i]), y \in Entries(s[k]) : f[x] = f[y] => i = k

LEMMA ConcatApart ==
    \A f, M : \A s, t \in Seq(M) :
        ApartBy(f, s) /\ ApartBy(f, t) /\ (\A x \in Entries(s), y \in Entries(t) : f[x] # f[y])
          => ApartBy(f, s \o t)
  <1> SUFFICES ASSUME NEW f, NEW M, NEW s \in Seq(M),
                      NEW t \in Seq(M), ApartBy(f, s), ApartBy(f, t),
                      \A x \in Entries(s), y \in Entries(t) : f[x] # f[y]
               PROVE  ApartBy(f, s \o t)
    OBVIOUS
  <1> DEFINE u == s \o t
             l == Len(s)
  <1>1. /\ Len(u) = l + Len(t) /\ l \in Nat /\ Len(t) \in Nat
        /\ \A k \in 1..l : u[k] = s[k]
    OBVIOUS
  <1>2. \A k \in 1..Len(u) : k \notin 1..l => k - l \in 1..Len(t) /\ u[k] = t[k - l]
    BY <1>1
  <1>3. \A k \in 1..l : s[k] \in Entries(s)
    BY DEF Entries
  <1>4. \A k \in 1..Len(t) : t[k] \in Entries(t)
    BY DEF Entries
  <1> HIDE DEF u, l
  <1>5. ASSUME NEW j \in 1..Len(u), NEW k \in 1..Len(u), f[u[j]] = f[u[k]] PROVE j = k
    <2>1. CASE j \in 1..l /\ k \in 1..l
      BY <1>1, <1>5, <2>1 DEF ApartBy, l
    <2>2. CASE j \in 1..l /\ k \notin 1..l
      <3>1. u[j] \in Entries(s)
        BY <1>1, <1>3, <2>2
      <3>2. u[k] \in Entries(t)
        BY <1>2, <1>4, <2>2
      <3>3. QED
        BY <1>5, <3>1, <3>2
    <2>3. CASE j \notin 1..l /\ k \in 1..l
      <3>1. u[k] \in Entries(s)
        BY <1>1, <1>3, <2>3
      <3>2. u[j] \in Entries(t)
        BY <1>2, <1>4, <2>3
      <3>3. QED
        BY <1>5, <3>1, <3>2
    <2>4. CASE j \notin 1..l /\ k \notin 1..l
      <3>1. /\ j - l \in 1..Len(t) /\ u[j] = t[j - l]
            /\ k - l \in 1..Len(t) /\ u[k] = t[k - l]
        BY <1>2, <2>4
      <3>2. j - l = k - l
        BY <1>5, <3>1 DEF ApartBy
      <3>3. QED
        BY <1>1, <3>2
    <2>5. QED
      BY <2>1, <2>2, <2>3, <2>4
  <1>6. QED
    BY <1>5 DEF ApartBy, u

LEMMA FlattenApart ==
    \A f, M : \A s \in Seq(Seq(M)) : PiecesApart(f, s) => ApartBy(f, FlattenSeq(s))
  <1> SUFFICES ASSUME NEW f, NEW M
               PROVE  \A s \in Seq(Seq(M)) : PiecesApart(f, s) => ApartBy(f, FlattenSeq(s))
    OBVIOUS
  <1> DEFINE A == Seq(M)
             T == {s \in Seq(A) : PiecesApart(f, s) => ApartBy(f, FlattenSeq(s))}
  <1>1. <<>> \in T
    <2>1. ApartBy(f, <<>>)
      <3>1. \A k \in 1..Len(<<>>) : FALSE
        OBVIOUS
      <3>2. QED
        BY <3>1 DEF ApartBy
    <2>2. <<>> \in Seq(A)
      OBVIOUS
    <2>3. QED
      BY <2>1, <2>2, FlattenEmpty
  <1>2. ASSUME NEW s \in Seq(A), NEW c \in A, s \in T PROVE Append(s, c) \in T
    <2> DEFINE t == Append(s, c)
               l == Len(s)
               flat == FlattenSeq(s)
    <2>1. /\ t \in Seq(A) /\ Len(t) = l + 1 /\ l \in Nat /\ t[l + 1] = c
          /\ \A k \in 1..l : t[k] = s[k]
      <3> HIDE DEF A
      <3>1. QED
        BY AppendIs
    <2> SUFFICES ASSUME PiecesApart(f, t) PROVE ApartBy(f, FlattenSeq(t))
      BY <2>1
    <2> HIDE DEF t, l
    <2>2. PiecesApart(f, s)
      <3>1. ASSUME NEW i \in 1..l PROVE ApartBy(f, s[i])
        BY <2>1 DEF PiecesApart
      <3>2. ASSUME NEW i \in 1..l, NEW k \in 1..l, NEW x \in Entries(s[i]), NEW y \in Entries(s[k]),
                   f[x] = f[y]
            PROVE  i = k
        <4>1. i \in 1..Len(t) /\ k \in 1..Len(t) /\ x \in Entries(t[i]) /\ y \in Entries(t[k])
          BY <2>1
        <4>2. QED
          BY <3>2, <4>1 DEF PiecesApart
      <3>3. QED
        BY <3>1, <3>2 DEF PiecesApart, l
    <2>3. ApartBy(f, flat)
      BY <1>2, <2>2
    <2>4. flat \in A /\ FlattenSeq(t) = flat \o c
            /\ Entries(flat) = UNION {Entries(s[i]) : i \in 1..l}
      BY FlattenType, FlattenAppend, FlattenEntries DEF t, l
    <2>5. l + 1 \in 1..Len(t) /\ ApartBy(f, c)
      BY <2>1 DEF PiecesApart
    <2> HIDE DEF flat
    <2>6. ASSUME NEW x \in Entries(flat), NEW y \in Entries(c) PROVE f[x] # f[y]
      <3>1. PICK i \in 1..l : x \in Entries(s[i])
        BY <2>4
      <3>2. i \in 1..Len(t) /\ x \in Entries(t[i]) /\ y \in Entries(t[l + 1]) /\ i # l + 1
        BY <2>1, <3>1
      <3>3. QED
        BY <2>5, <3>2 DEF PiecesApart
    <2>7. flat \in Seq(M) /\ c \in Seq(M) /\ FlattenSeq(t) = flat \o c
      BY <2>4
    <2> HIDE DEF A
    <2>8. ApartBy(f, flat \o c)
      BY <2>3, <2>5, <2>6, <2>7, ConcatApart
    <2>9. QED
      BY <2>7, <2>8
  <1> HIDE DEF T, A
  <1>3. Seq(A) \subseteq T
    BY <1>1, <1>2, AllSequences
  <1>4. QED
    BY <1>3 DEF T, A

Subs == [key : Keys, message : Msgs]

LEMMA PushIsFold ==
    \A p : \A s \in Seq(Subs) :
        PushAll(p, s) = Walk!Fold(For("subscriptions", 0), [list |-> <<>>, panics |-> p], s)
  <1> SUFFICES ASSUME NEW p, NEW s \in Seq(Subs)
               PROVE  PushAll(p, s)
                        = Walk!Fold(For("subscriptions", 0), [list |-> <<>>, panics |-> p], s)
    OBVIOUS
  <1> DEFINE l == Len(s)
             Of(g, d) == IF d = {} THEN [list |-> <<>>, panics |-> p]
                         ELSE Push(g[d \ {Max(d)}], s[Max(d)])
             f == CHOOSE g : g = [d \in SUBSET (DOMAIN s) |-> Of(g, d)]
  <1>1. PushAll(p, s) = f[DOMAIN s]
    BY DEF PushAll, FoldLeft, MapThenFoldSet
  <1>2. DOMAIN s = 1..l
    OBVIOUS
  <1>3. \A g, d : Walk!FoldOf(For("subscriptions", 0), [list |-> <<>>, panics |-> p], s, g, d)
          = Of(g, d)
    <2>1. \A x, e : WalkStep(For("subscriptions", 0), x, e) = Push(x, e)
      BY StepOfSubscriptions
    <2>2. QED
      BY <2>1 DEF Walk!FoldOf, Walk!Max, Max
  <1> HIDE DEF Of
  <1>4. \A g : Walk!IsFolds(g, For("subscriptions", 0), [list |-> <<>>, panics |-> p], s, l)
                 <=> g = [d \in SUBSET (1..l) |-> Of(g, d)]
    BY <1>3 DEF Walk!IsFolds
  <1>5. (\E g : Walk!IsFolds(g, For("subscriptions", 0), [list |-> <<>>, panics |-> p], s, l))
          => Walk!IsFolds(f, For("subscriptions", 0), [list |-> <<>>, panics |-> p], s, l)
    BY <1>2, <1>4
  <1> HIDE DEF f
  <1>6. QED
    BY <1>1, <1>2, <1>5, Walk!FoldIs

SameKeys(s) == \E j, k \in 1..Len(s) : j # k /\ s[j].key = s[k].key

\* Subscriptions without two of the same key are all taken.
LEMMA AllPushed ==
    ASSUME NEW p
    PROVE  \A s \in Seq(Subs) : ~SameKeys(s) => PushAll(p, s) = [list |-> s, panics |-> p]
  <1> DEFINE T == {s \in Seq(Subs) : ~SameKeys(s) => PushAll(p, s) = [list |-> s, panics |-> p]}
             M == Subs
  <1>1. <<>> \in T
    <2>1. <<>> \in Seq(Subs)
      OBVIOUS
    <2>2. QED
      BY <2>1, PushIsFold, Walk!FoldEmpty
  <1>2. ASSUME NEW s \in Seq(M), NEW c \in M, s \in T PROVE Append(s, c) \in T
    <2> DEFINE t == Append(s, c)
               l == Len(s)
    <2>1. /\ t \in Seq(M) /\ Len(t) = l + 1 /\ l \in Nat /\ t[l + 1] = c
          /\ \A k \in 1..l : t[k] = s[k]
      <3> HIDE DEF M
      <3>1. QED
        BY AppendIs
    <2> SUFFICES ASSUME ~SameKeys(t) PROVE PushAll(p, t) = [list |-> t, panics |-> p]
      BY <2>1
    <2>2. PushAll(p, t) = Push(PushAll(p, s), c)
      <3> DEFINE base == [list |-> <<>>, panics |-> p]
             W == For("subscriptions", 0)
      <3>1. PushAll(p, s) = Walk!Fold(W, base, s) /\ PushAll(p, t) = Walk!Fold(W, base, t)
        BY <2>1, PushIsFold
      <3>4. \A x, y : WalkStep(W, x, y) = Push(x, y)
        BY StepOfSubscriptions
      <3> HIDE DEF M, base, W
      <3>2. Walk!Fold(W, base, t) = WalkStep(W, Walk!Fold(W, base, s), c)
        BY Walk!FoldAppend
      <3> HIDE DEF t
      <3>3. QED
        BY <3>1, <3>2, <3>4
    <2> HIDE DEF t, l
    <2>3. ~SameKeys(s)
      <3> SUFFICES ASSUME NEW j \in 1..l, NEW k \in 1..l, j # k PROVE s[j].key # s[k].key
        BY DEF SameKeys, l
      <3>1. j \in 1..Len(t) /\ k \in 1..Len(t) /\ t[j] = s[j] /\ t[k] = s[k]
        BY <2>1
      <3>2. QED
        BY <3>1 DEF SameKeys
    <2>4. ~\E i \in 1..l : s[i].key = c.key
      <3> SUFFICES ASSUME NEW i \in 1..l PROVE s[i].key # c.key
        OBVIOUS
      <3>1. i \in 1..Len(t) /\ l + 1 \in 1..Len(t) /\ i # l + 1 /\ t[i] = s[i] /\ t[l + 1] = c
        BY <2>1
      <3>2. QED
        BY <3>1 DEF SameKeys
    <2> DEFINE before == [list |-> s, panics |-> p]
    <2>5. PushAll(p, s) = before
      BY <1>2, <2>3
    <2>6. Push(before, c) = [before EXCEPT !.list = t]
      BY <2>4 DEF Push, t, l
    <2>7. QED
      BY <2>2, <2>5, <2>6
  <1> HIDE DEF T
  <1>3. Seq(M) \subseteq T
    <2> HIDE DEF M
    <2>1. <<>> \in T /\ \A s \in Seq(M), c \in M : s \in T => Append(s, c) \in T
      BY <1>1, <1>2
    <2>2. QED
      BY <2>1, AllSequences
  <1>4. QED
    BY <1>3 DEF T

-----------------------------------------------------------------------------
(* The subscriptions that the models declare.                              *)

\* The model m is n or one below it.
IsUnder(n, m) == Len(n) <= Len(m) /\ \A k \in 1..Len(n) : m[k] = n[k]

\* A subscription of m, as n declares it: above n, its message will be what it has
\* to be at the root, and its key is the one of m already unless m is n.
IsOf(n, m, s) ==
    /\ IsUnder(n, m)
    /\ Prefixed(Lifts(n), s.message) = Home(m)
    /\ s.key = IF m = n THEN LocalKey ELSE KeyOf(m)

From == [s \in Subs |-> s.message.from]

LEMMA UnderFacts ==
    ASSUME NEW n \in Seq(Nat), NEW m \in Seq(Nat), NEW i \in Nat
    PROVE  /\ IsUnder(n, n)
           /\ IsUnder(Append(n, i), m) =>
                IsUnder(n, m) /\ m[Len(n) + 1] = i /\ Len(m) >= Len(n) + 1 /\ m # n
           /\ IsUnder(n, m) /\ m # n => Len(m) > 0
  <1>1. IsUnder(n, n)
    BY DEF IsUnder
  <1>2. ASSUME IsUnder(Append(n, i), m)
        PROVE  IsUnder(n, m) /\ m[Len(n) + 1] = i /\ Len(m) >= Len(n) + 1 /\ m # n
    <2> DEFINE c == Append(n, i)
               l == Len(n)
    <2>1. Len(c) = l + 1 /\ l \in Nat /\ c[l + 1] = i /\ \A k \in 1..l : c[k] = n[k]
      OBVIOUS
    <2>2. Len(c) <= Len(m) /\ Len(m) \in Nat /\ \A k \in 1..Len(c) : m[k] = c[k]
      BY <1>2 DEF IsUnder
    <2> HIDE DEF c
    <2>3. l <= Len(m) /\ Len(m) >= l + 1 /\ \A k \in 1..l : m[k] = n[k]
      BY <2>1, <2>2
    <2>4. m[l + 1] = i
      BY <2>1, <2>2
    <2>5. m # n
      BY <2>1, <2>3
    <2>6. QED
      BY <2>3, <2>4, <2>5 DEF IsUnder
  <1>3. ASSUME IsUnder(n, m), m # n PROVE Len(m) > 0
    <2> SUFFICES ASSUME Len(m) = 0 PROVE FALSE
      OBVIOUS
    <2>1. Len(n) = 0
      BY <1>3 DEF IsUnder
    <2>2. QED
      BY <1>3, <2>1
  <1>4. QED
    BY <1>1, <1>2, <1>3

\* What a scope makes of the subscription of a model in it.
LEMMA SubscriptionRises ==
    ASSUME Grown, NEW n \in Models, NEW i \in Below(n),
           NEW s \in Subs, NEW m \in Models, s.message.from = m, IsOf(Append(n, i), m, s)
    PROVE  /\ SubscriptionInScope(Append(n, i), s) \in Subs
           /\ SubscriptionInScope(Append(n, i), s).message.from = m
           /\ IsOf(n, m, SubscriptionInScope(Append(n, i), s))
           /\ m # n /\ m[Len(n) + 1] = i
  <1> DEFINE c == Append(n, i)
             t == SubscriptionInScope(c, s)
             lift == SpecsOf(n)[i].lift
             u == s.message.route
             r == Lifts(n)
             one == <<lift>>
  <1>1. c \in Models /\ n \in Seq(Nat) /\ i \in Nat /\ m \in Seq(Nat) /\ c \in Seq(Nat)
    BY ModelsGrow
  <1>2. IsUnder(n, m) /\ m[Len(n) + 1] = i /\ m # n
    BY <1>1, UnderFacts DEF IsOf
  <1>3. SpecOf(c) = SpecsOf(n)[i]
    BY <1>1, AppendFacts
  <1>4. lift \in STRING
    BY SpecsFacts DEF Specs
  <1>5. /\ u \in Seq(STRING) /\ r \in Seq(STRING) /\ one \in Seq(STRING)
             /\ Lifts(c) = Append(r, lift)
        /\ s.message = [route |-> u, from |-> m] /\ s.key \in Keys
    <2>1. s.message \in Msgs /\ s.key \in Keys
      BY DEF Subs
    <2>2. s.message = [route |-> u, from |-> m] /\ u \in Seq(STRING)
      BY <2>1 DEF Msgs
    <2>3. one \in Seq(STRING)
      BY <1>4
    <2>4. QED
      BY <2>1, <2>2, <2>3, ModelFacts
  <1>6. Append(r, lift) = r \o one /\ (r \o one) \o u = r \o (one \o u) /\ one \o u \in Seq(STRING)
    <2> DEFINE A == STRING
    <2>1. u \in Seq(A) /\ r \in Seq(A) /\ lift \in A
      BY <1>4, <1>5
    <2> HIDE DEF A, u, r, lift
    <2>2. Append(r, lift) = r \o one
      BY <2>1
    <2>3. one \in Seq(A)
      BY <2>1
    <2> HIDE DEF one
    <2>4. (r \o one) \o u = r \o (one \o u)
      BY <2>1, <2>3
    <2>5. one \o u \in Seq(A)
      BY <2>1, <2>3
    <2>6. QED
      BY <2>2, <2>4, <2>5 DEF A
  <1>7. t.message = [route |-> one \o u, from |-> m] /\ t.key = ScopedKey(s.key, ContextOf(c))
          /\ t = [key |-> t.key, message |-> t.message]
    <2>1. Lift(lift, s.message) = [route |-> one \o u, from |-> m]
      <3>1. s.message = [route |-> u, from |-> m]
        BY <1>5
      <3> HIDE DEF u, lift
      <3>2. Lift(lift, [route |-> u, from |-> m]) = [route |-> <<lift>> \o u, from |-> m]
        BY Lifted
      <3>3. QED
        BY <3>1, <3>2
    <2>2. QED
      BY <1>3, <2>1 DEF SubscriptionInScope
  <1>8. Prefixed(r, t.message) = Home(m)
    <2>1. Prefixed(Lifts(c), s.message) = Home(m)
      BY DEF IsOf
    <2>2. Prefixed(Lifts(c), s.message) = [route |-> Append(r, lift) \o u, from |-> m]
      BY <1>5 DEF Prefixed
    <2>3. Prefixed(r, t.message) = [route |-> r \o (one \o u), from |-> m]
      BY <1>7 DEF Prefixed
    <2>4. QED
      BY <1>6, <2>1, <2>2, <2>3
  <1>9. t.key = KeyOf(m)
    <2>1. CASE m = c
      BY <1>7, <2>1 DEF IsOf, KeyOf
    <2>2. CASE m # c
      <3>1. s.key = KeyOf(m)
        BY <2>2 DEF IsOf
      <3>2. KeyOf(m).child_path = ContextOf(m) /\ Len(ContextOf(m)) = Len(m)
        BY HomeFacts, ModelFacts
      <3>3. Len(m) > 0
        BY <1>1, <2>2, UnderFacts DEF IsOf
      <3>4. ContextOf(m) # <<>>
        BY <3>2, <3>3
      <3>5. QED
        BY <1>7, <3>1, <3>2, <3>4 DEF ScopedKey, IsRoot, Root
    <2>3. QED
      BY <2>1, <2>2
  <1>10. t \in Subs
    <2>1. t.message \in Msgs
      BY <1>1, <1>6, <1>7 DEF Msgs
    <2>2. t.key \in Keys
      BY <1>9, HomeFacts
    <2>3. QED
      BY <1>7, <2>1, <2>2 DEF Subs
  <1>11. QED
    BY <1>2, <1>7, <1>8, <1>9, <1>10 DEF IsOf

\* Nor do the keys that a model declares collide.
LEMMA KeysOfSubscriptions ==
    ASSUME Grown, NEW n \in Models,
           NEW x, NEW y, NEW m \in Models, NEW o \in Models, IsOf(n, m, x), IsOf(n, o, y),
           x.key = y.key
    PROVE  m = o
  <1>1. \A p \in Models : p \in Seq(Nat) /\ KeyOf(p).child_path = ContextOf(p)
          /\ Len(ContextOf(p)) = Len(p)
    BY HomeFacts, ModelFacts
  <1>2. LocalKey.child_path = <<>>
    BY <1>1, LocalFacts
  <1>3. \A p \in Models : IsUnder(n, p) /\ p # n => KeyOf(p).child_path # <<>>
    <2> SUFFICES ASSUME NEW p \in Models, IsUnder(n, p), p # n PROVE KeyOf(p).child_path # <<>>
      OBVIOUS
    <2>1. Len(p) > 0
      BY <1>1, UnderFacts
    <2>2. QED
      BY <1>1, <2>1
  <1>4. CASE m = n /\ o = n
    BY <1>4
  <1>5. CASE m = n /\ o # n
    BY <1>2, <1>3, <1>5 DEF IsOf
  <1>6. CASE m # n /\ o = n
    BY <1>2, <1>3, <1>6 DEF IsOf
  <1>7. CASE m # n /\ o # n
    BY <1>7, KeysDiffer DEF IsOf
  <1>8. QED
    BY <1>4, <1>5, <1>6, <1>7

\* What each model declares, with its children's.
DeclaredOf == CHOOSE of : of = [n \in Models |-> DeclaredStep(of, n)]

LEMMA DeclaredUnfolds ==
    ASSUME Grown
    PROVE  /\ Declared = DeclaredOf[RootModel]
           /\ \A n \in Models : DeclaredOf[n] = DeclaredStep(DeclaredOf, n)
  <1>1. Declared = DeclaredOf[RootModel]
    BY DEF Declared, DeclaredOf, DeclaredStep, PushAll, BelowPanics, AllOf, OwnSubscription,
           FromChildren, FromChild
  <1>2. Walk!DependsBelow(For("declared", 0), Models, Height)
    <2> SUFFICES ASSUME NEW f, NEW g, NEW n \in Models,
                        \A m \in Models : Height[m] < Height[n] => f[m] = g[m]
                 PROVE  DeclaredStep(f, n) = DeclaredStep(g, n)
      BY StepOfDeclared DEF Walk!DependsBelow
    <2>1. \A i \in 1..Len(SpecsOf(n)) : f[Append(n, i)] = g[Append(n, i)]
      BY HeightFacts DEF Below
    <2>2. \A i \in 1..Len(SpecsOf(n)) : FromChild(f, n, i) = FromChild(g, n, i)
      BY <2>1 DEF FromChild
    <2>3. FromChildren(f, n) = FromChildren(g, n)
      BY <2>2 DEF FromChildren
    <2>4. BelowPanics(f, n) = BelowPanics(g, n)
      BY <2>1 DEF BelowPanics
    <2>5. QED
      BY <2>3, <2>4 DEF DeclaredStep, AllOf
  <1>3. \E f : f = [n \in Models |-> DeclaredStep(f, n)]
    <2> DEFINE H == Height
               S == Models
    <2>1. H \in [S -> 0..2] /\ Walk!DependsBelow(For("declared", 0), S, H) /\ 2 \in Nat
      BY <1>2, HeightFacts
    <2> HIDE DEF H, S
    <2>2. PICK f : Walk!IsRecursion(For("declared", 0), S, f)
      BY <2>1, Walk!RecursionExists
    <2>3. f = [n \in S |-> DeclaredStep(f, n)]
      BY <2>2, StepOfDeclared DEF Walk!IsRecursion
    <2>4. QED
      BY <2>3 DEF S
  <1> DEFINE R == DeclaredOf
  <1>4. R = [n \in Models |-> DeclaredStep(R, n)]
    BY <1>3 DEF DeclaredOf
  <1> HIDE DEF R
  <1>5. \A n \in Models : R[n] = DeclaredStep(R, n)
    BY <1>4
  <1>6. QED
    BY <1>1, <1>5 DEF R

\* A set of subscriptions as a model n should declare it.
Sound(n, d) ==
    /\ d.panics = FALSE
    /\ d.list \in Seq(Subs)
    /\ \A s \in Entries(d.list) : s.message.from \in Models /\ IsOf(n, s.message.from, s)
    /\ ApartBy(From, d.list)

LEMMA ChildSubscriptions ==
    ASSUME Grown, NEW n \in Models, NEW i \in Below(n), NEW of,
           Sound(Append(n, i), of[Append(n, i)])
    PROVE  /\ FromChild(of, n, i) \in Seq(Subs)
           /\ ApartBy(From, FromChild(of, n, i))
           /\ \A x \in Entries(FromChild(of, n, i)) :
                /\ x.message.from \in Models /\ IsOf(n, x.message.from, x)
                /\ x.message.from # n /\ x.message.from[Len(n) + 1] = i
  <1> DEFINE c == Append(n, i)
             s == of[c].list
             E(j) == SubscriptionInScope(c, s[j])
             t == FromChild(of, n, i)
             l == Len(s)
  <1>1. /\ s \in Seq(Subs) /\ ApartBy(From, s)
        /\ \A x \in Entries(s) : x.message.from \in Models /\ IsOf(c, x.message.from, x)
    BY DEF Sound
  <1>2. l \in Nat /\ \A j \in 1..l : s[j] \in Subs /\ s[j] \in Entries(s)
    BY <1>1 DEF Entries
  <1>3. ASSUME NEW j \in 1..l
        PROVE  /\ E(j) \in Subs /\ E(j).message.from = s[j].message.from
               /\ E(j).message.from \in Models /\ IsOf(n, E(j).message.from, E(j))
               /\ E(j).message.from # n /\ E(j).message.from[Len(n) + 1] = i
    <2> DEFINE x == s[j]
               m == x.message.from
    <2>1. x \in Subs /\ m \in Models /\ IsOf(c, m, x)
      BY <1>1, <1>2
    <2> HIDE DEF x
    <2>2. /\ SubscriptionInScope(c, x) \in Subs
          /\ SubscriptionInScope(c, x).message.from = m
          /\ IsOf(n, m, SubscriptionInScope(c, x))
          /\ m # n /\ m[Len(n) + 1] = i
      BY <2>1, SubscriptionRises
    <2>3. QED
      BY <2>1, <2>2 DEF x
  <1>4. t = [j \in 1..l |-> E(j)]
    BY DEF FromChild
  <1> HIDE DEF s, E, t, l
  <1>5. t \in Seq(Subs) /\ Len(t) = l /\ \A j \in 1..l : t[j] = E(j)
    BY <1>2, <1>3, <1>4
  <1>6. ASSUME NEW j \in 1..l, NEW k \in 1..l, From[t[j]] = From[t[k]] PROVE j = k
    <2>1. From[t[j]] = s[j].message.from /\ From[t[k]] = s[k].message.from
      BY <1>3, <1>5 DEF From
    <2>2. From[s[j]] = s[j].message.from /\ From[s[k]] = s[k].message.from
      BY <1>2 DEF From
    <2>3. QED
      BY <1>1, <1>6, <2>1, <2>2 DEF ApartBy, l
  <1>7. ApartBy(From, t)
    BY <1>5, <1>6 DEF ApartBy
  <1>8. \A x \in Entries(t) : \E j \in 1..l : x = E(j)
    BY <1>5 DEF Entries
  <1>9. \A x \in Entries(t) :
          /\ x.message.from \in Models /\ IsOf(n, x.message.from, x)
          /\ x.message.from # n /\ x.message.from[Len(n) + 1] = i
    BY <1>3, <1>8
  <1>10. QED
    BY <1>5, <1>7, <1>9 DEF t

\* The subscriptions of different models do not collide, so what a model declares is
\* what its children do and its own.
LEMMA DeclaredSound ==
    ASSUME Grown, NEW n \in Models, NEW of,
           \A i \in Below(n) : Sound(Append(n, i), of[Append(n, i)])
    PROVE  Sound(n, DeclaredStep(of, n))
  <1> DEFINE l == Len(SpecsOf(n))
             pieces == FromChildren(of, n)
             own == OwnSubscription(n)
             flat == FlattenSeq(pieces)
             one == <<own>>
             all == AllOf(of, n)
             A == Subs
             Good(x) == x.message.from \in Models /\ IsOf(n, x.message.from, x)
  <1>1. l \in Nat /\ n \in Seq(Nat) /\ Below(n) = 1..l
    BY HomeFacts, SpecsFacts DEF Below
  <1>2. own \in A /\ own.message.from = n /\ Good(own)
    <2>1. Local(n) \in Msgs /\ LocalKey \in Keys
      BY <1>1, LocalFacts
    <2>2. own \in Subs /\ own.message.from = n
      BY <2>1 DEF OwnSubscription, Subs, Local
    <2>3. Prefixed(Lifts(n), own.message) = Home(n) /\ own.key = LocalKey
      BY HomeFacts DEF OwnSubscription
    <2>4. IsUnder(n, n)
      BY DEF IsUnder
    <2>5. QED
      BY <2>2, <2>3, <2>4 DEF IsOf
  <1>3. ASSUME NEW i \in 1..l
        PROVE  /\ FromChild(of, n, i) \in Seq(A)
               /\ ApartBy(From, FromChild(of, n, i))
               /\ \A x \in Entries(FromChild(of, n, i)) :
                    Good(x) /\ x.message.from # n /\ x.message.from[Len(n) + 1] = i
    BY <1>1, ChildSubscriptions
  <1>4. pieces \in Seq(Seq(A)) /\ Len(pieces) = l /\ \A i \in 1..l : pieces[i] = FromChild(of, n, i)
    <2>1. pieces = [i \in 1..l |-> FromChild(of, n, i)]
      BY DEF FromChildren
    <2> DEFINE X == Seq(A)
               P(i) == FromChild(of, n, i)
    <2>2. \A i \in 1..l : P(i) \in X
      BY <1>3
    <2>3. pieces = [i \in 1..l |-> P(i)]
      BY <2>1
    <2> HIDE DEF pieces, l, X, P
    <2>4. pieces \in Seq(X) /\ Len(pieces) = l /\ \A i \in 1..l : pieces[i] = P(i)
      BY <1>1, <2>2, <2>3
    <2>5. QED
      BY <2>4 DEF X, P
  <1> HIDE DEF l, pieces, own, all
  <1>5. \A i \in 1..l : \A x \in Entries(pieces[i]) : x \in Subs
    <2>1. \A s \in Seq(Subs) : \A x \in Entries(s) : x \in Subs
      BY DEF Entries
    <2>2. QED
      BY <1>3, <1>4, <2>1
  <1>6. PiecesApart(From, pieces)
    <2>1. \A i \in 1..l : ApartBy(From, pieces[i])
      BY <1>3, <1>4
    <2>2. ASSUME NEW i \in 1..l, NEW k \in 1..l, NEW x \in Entries(pieces[i]),
                 NEW y \in Entries(pieces[k]), From[x] = From[y]
          PROVE  i = k
      <3>1. From[x] = x.message.from /\ From[y] = y.message.from
        BY <1>5 DEF From
      <3>2. x.message.from[Len(n) + 1] = i /\ y.message.from[Len(n) + 1] = k
        BY <1>3, <1>4
      <3>3. QED
        BY <2>2, <3>1, <3>2
    <2>3. QED
      BY <1>4, <2>1, <2>2 DEF PiecesApart
  <1>7. flat \in Seq(A) /\ Entries(flat) = UNION {Entries(pieces[i]) : i \in 1..l}
          /\ ApartBy(From, flat)
    <2> HIDE DEF A
    <2>1. flat \in Seq(A) /\ Entries(flat) = UNION {Entries(pieces[i]) : i \in 1..l}
      BY <1>4, FlattenType, FlattenEntries
    <2>2. ApartBy(From, flat)
      BY <1>4, <1>6, FlattenApart
    <2>3. QED
      BY <2>1, <2>2
  <1>8. \A x \in Entries(flat) : Good(x) /\ x.message.from # n /\ x \in Subs
    BY <1>3, <1>4, <1>5, <1>7
  <1> HIDE DEF flat, Good
  <1>9. one \in Seq(A) /\ Len(one) = 1 /\ one[1] = own
    <2> HIDE DEF A
    <2>1. QED
      BY <1>2
  <1> HIDE DEF one
  <1>10. Entries(one) = {own} /\ ApartBy(From, one)
    BY <1>9 DEF Entries, ApartBy
  <1>11. all = flat \o one
    BY DEF all, AllOf, flat, one, own, pieces
  <1>12. all \in Seq(A) /\ ApartBy(From, all) /\ Entries(all) = Entries(flat) \cup {own}
    <2>1. ASSUME NEW x \in Entries(flat), NEW y \in Entries(one) PROVE From[x] # From[y]
      <3>1. y = own /\ From[own] = n
        BY <1>2, <1>10 DEF From
      <3>2. From[x] # n
        BY <1>8 DEF From
      <3>3. QED
        BY <3>1, <3>2
    <2> HIDE DEF A
    <2>2. ApartBy(From, flat \o one)
      BY <1>7, <1>9, <1>10, <2>1, ConcatApart
    <2>3. flat \o one \in Seq(A) /\ Entries(flat \o one) = Entries(flat) \cup Entries(one)
      BY <1>7, <1>9, ConcatEntries
    <2>4. QED
      BY <1>10, <1>11, <2>2, <2>3
  <1>13. \A x \in Entries(all) : Good(x) /\ x \in Subs
    BY <1>2, <1>8, <1>12
  <1>14. ~SameKeys(all)
    <2> SUFFICES ASSUME NEW j \in 1..Len(all), NEW k \in 1..Len(all), all[j].key = all[k].key
                 PROVE  j = k
      BY DEF SameKeys
    <2> DEFINE x == all[j]
               y == all[k]
    <2>1. x \in Entries(all) /\ y \in Entries(all)
      BY DEF Entries
    <2>2. Good(x) /\ Good(y) /\ x \in Subs /\ y \in Subs
      BY <1>13, <2>1
    <2>3. x.message.from = y.message.from
      BY <2>2, KeysOfSubscriptions DEF Good
    <2>4. From[x] = From[y]
      BY <2>2, <2>3 DEF From
    <2>5. QED
      BY <1>12, <2>4 DEF ApartBy
  <1>15. BelowPanics(of, n) = FALSE
    BY <1>1 DEF BelowPanics, Sound, l
  <1>16. PushAll(FALSE, all) = [list |-> all, panics |-> FALSE]
    BY <1>12, <1>14, AllPushed
  <1>17. DeclaredStep(of, n) = [list |-> all, panics |-> FALSE]
    BY <1>15, <1>16 DEF DeclaredStep, all
  <1>18. QED
    BY <1>12, <1>13, <1>17 DEF Sound, Good

\* The expect of the generated code does not fail, and each subscription's message is
\* as the root needs it.
LEMMA DeclaredComesHome ==
    ASSUME Grown
    PROVE  /\ Declared.panics = FALSE
           /\ \A i \in 1..Len(Declared.list) : \E n \in Models : Declared.list[i].message = Home(n)
           /\ Declared.list \in Seq(Subs)
  <1> DEFINE T == {n \in Models : Sound(n, DeclaredOf[n])}
  <1>1. ASSUME NEW n \in Models, \A i \in Below(n) : Append(n, i) \in T PROVE n \in T
    <2>1. Sound(n, DeclaredStep(DeclaredOf, n))
      BY <1>1, DeclaredSound
    <2>2. QED
      BY <2>1, DeclaredUnfolds
  <1> HIDE DEF T
  <1>2. Models \subseteq T
    BY <1>1, UpTheTree
  <1>3. Sound(RootModel, Declared)
    <2>1. RootModel \in T
      BY <1>2, ModelsUnfold
    <2>2. QED
      BY <2>1, DeclaredUnfolds DEF T
  <1> DEFINE d == Declared
             s == d.list
  <1>4. ASSUME NEW i \in 1..Len(s) PROVE \E n \in Models : s[i].message = Home(n)
    <2> DEFINE x == s[i]
               m == x.message.from
    <2>1. x \in Entries(s)
      BY DEF Entries
    <2>2. m \in Models /\ IsOf(RootModel, m, x) /\ x \in Subs
      BY <1>3, <2>1 DEF Sound
    <2>3. Lifts(RootModel) = <<>>
      BY ModelFacts
    <2>4. x.message \in Msgs
      BY <2>2 DEF Subs
    <2> DEFINE y == x.message
    <2> HIDE DEF x
    <2>5. Prefixed(<<>>, y) = Home(m)
      BY <2>2, <2>3 DEF IsOf
    <2>6. Prefixed(<<>>, y) = y
      <3> DEFINE r == y.route
                 A == STRING
      <3>1. r \in Seq(A) /\ y = [route |-> r, from |-> y.from]
        BY <2>4 DEF Msgs
      <3> HIDE DEF r, A, y
      <3>2. <<>> \o r = r
        BY <3>1
      <3>3. y.route = r
        BY DEF r
      <3>4. QED
        BY <3>1, <3>2, <3>3 DEF Prefixed
    <2>7. QED
      BY <2>2, <2>5, <2>6 DEF x
  <1>5. QED
    BY <1>3, <1>4 DEF Sound

-----------------------------------------------------------------------------
(* The invariant.  What is in flight and in the queue belongs to a model,  *)
(* under its own key and with the message that finds its way home.         *)

InFlight(p, ts, es, who) ==
    /\ p \in Seq(Homes)
    /\ TasksOf(ts, who)
    /\ \A e \in es : \E n \in Models : e \in EffectsAt(n)

AtRest ==
    /\ pending = <<>> /\ tasks = {} /\ effects = {} /\ subscriptions = <<>> /\ busy = {}
    /\ replied = <<>> /\ executed = <<>> /\ handled = {}

CompositeInv ==
    /\ stage \in {"source", "rejected", "compiled", "mounted"}
    /\ input \in Inputs \cup {NoInput} /\ (stage = "source" => input \in Inputs)
    /\ \A i \in 1..Len(errors) : errors[i].site \in 0..Len(input.fields)
    /\ stage # "rejected" => errors = <<>>
    /\ Grown
    /\ stage # "mounted" => AtRest
    /\ InFlight(pending, tasks, effects, busy)
    /\ panicked = FALSE
    /\ \A i \in 1..Len(subscriptions) : subscriptions[i].message \in Homes
    /\ MessagesComeHome
    /\ CompositionIsTransparent

LEMMA InFlightIs ==
    \A p, ts, es, who : StateOf(State(p, ts, es), who) <=> InFlight(p, ts, es, who)
  <1>1. \A p, ts, es, q, us, fs : State(p, ts, es) = State(q, us, fs) => p = q /\ ts = us /\ es = fs
    BY DEF State
  <1>2. ASSUME NEW p, NEW ts, NEW es, NEW who, StateOf(State(p, ts, es), who)
        PROVE  InFlight(p, ts, es, who)
    <2>1. PICK q \in Seq(Homes) : \E us, fs :
            /\ State(p, ts, es) = State(q, us, fs)
            /\ TasksOf(us, who)
            /\ \A e \in fs : \E n \in Models : e \in EffectsAt(n)
      BY <1>2 DEF StateOf
    <2>2. QED
      BY <1>1, <2>1 DEF InFlight
  <1>3. ASSUME NEW p, NEW ts, NEW es, NEW who, InFlight(p, ts, es, who)
        PROVE  StateOf(State(p, ts, es), who)
    BY <1>3 DEF InFlight, StateOf
  <1>4. QED
    BY <1>2, <1>3

\* AtRoot, from the ChildSpecs on the way to the model.
Through(specs, n, command) ==
    LET path == [k \in 1..Len(n) |-> specs[k].path]
        message == [route |-> [k \in 1..Len(n) |-> specs[k].lift], from |-> n]
        key == IF n = RootModel THEN LocalKey
               ELSE [id |-> path \o <<"#", "k">>, child_path |-> path, local_id |-> <<"k">>]
        inner == command.inner
    IN  CASE inner.variant = "Emit" -> [command EXCEPT !.inner.message = message]
          [] inner.variant = "Cancel" -> [command EXCEPT !.inner.key = key]
          [] inner.variant = "Effect" ->
               [command EXCEPT !.inner.effect.output = IF @ = {} THEN {} ELSE {message}]
          [] inner.variant = "Keyed" ->
               [command EXCEPT !.inner.effect.output = IF @ = {} THEN {} ELSE {message},
                               !.inner.key = key]

\* As long as the models are the same, so is everything about them.
LEMMA SameTree ==
    ASSUME children' = children, panel' = panel
    PROVE  /\ Models' = Models /\ Homes' = Homes
           /\ \A n : /\ SpecsOf(n)' = SpecsOf(n) /\ EffectsAt(n)' = EffectsAt(n)
                     /\ KeyOf(n)' = KeyOf(n) /\ Reachable(n)' = Reachable(n)
           /\ \A n, c : AtRoot(n, c)' = AtRoot(n, c)
           /\ Grown' = Grown
  <1>1. \A n : SpecsOf(n)' = SpecsOf(n)
    BY DEF SpecsOf
  <1>2. Models' = Models
    <2> DEFINE Pairs(i) == {<<i, j>> : j \in 1..Len(SpecsOf(<<i>>))}
               n == Len(children)
    <2>1. /\ Models = ({RootModel} \cup {<<i>> : i \in 1..n}) \cup UNION {Pairs(i) : i \in 1..n}
          /\ Models' = ({RootModel} \cup {<<i>> : i \in 1..n'}) \cup UNION {Pairs(i)' : i \in 1..n'}
      BY DEF Models
    <2>2. n' = n /\ \A i : Pairs(i)' = Pairs(i)
      BY <1>1
    <2> HIDE DEF Pairs, n
    <2>3. UNION {Pairs(i)' : i \in 1..n} = UNION {Pairs(i) : i \in 1..n}
      BY <2>2
    <2>4. QED
      BY <2>1, <2>2, <2>3
  <1>3. \A n : Home(n)' = Home(n)
    BY <1>1 DEF Home, Lifts, Chain
  <1>4. Homes' = Homes
    BY <1>2, <1>3 DEF Homes
  <1>5. \A n : EffectsAt(n)' = EffectsAt(n)
    BY <1>3 DEF EffectsAt
  <1>6. \A n : ContextOf(n)' = ContextOf(n)
    <2>1. \A n : SpecOf(n)' = SpecOf(n)
      BY <1>1 DEF SpecOf
    <2>2. QED
      BY <2>1 DEF ContextOf, FoldLeft, MapThenFoldSet
  <1>7. \A n : KeyOf(n)' = KeyOf(n)
    BY <1>6 DEF KeyOf
  <1>8. \A n : Reachable(n)' = Reachable(n)
    BY <1>1 DEF Reachable
  <1>9. \A n, c : AtRoot(n, c)' = AtRoot(n, c)
    <2>1. \A n : Chain(n)' = Chain(n)
      BY <1>1 DEF Chain
    <2>2. \A n, c : AtRoot(n, c) = Through(Chain(n), n, c)
      BY DEF AtRoot, Through, Chain
    <2>3. \A n, c : AtRoot(n, c)' = Through(Chain(n)', n, c)
      BY DEF AtRoot, Through, Chain
    <2>4. QED
      BY <2>1, <2>2, <2>3
  <1>10. Grown' = Grown
    BY DEF Grown
  <1>11. QED
    BY <1>1, <1>2, <1>4, <1>5, <1>7, <1>8, <1>9, <1>10

LEMMA InFlightStays ==
    ASSUME children' = children, panel' = panel, InFlight(pending', tasks', effects', busy')
    PROVE  InFlight(pending, tasks, effects, busy)'
  <1>1. /\ Models' = Models /\ Homes' = Homes
        /\ \A n : EffectsAt(n)' = EffectsAt(n) /\ KeyOf(n)' = KeyOf(n)
    BY SameTree
  <1>2. \A n, e : Task(n, e)' = Task(n, e)
    BY <1>1 DEF Task
  <1>3. TasksOf(tasks, busy)'
    BY <1>1, <1>2 DEF InFlight, TasksOf
  <1>4. QED
    BY <1>1, <1>3 DEF InFlight

LEMMA TransparentStays ==
    ASSUME children' = children, panel' = panel, executed' = FlattenSeq(AllAtHome(replied'))
    PROVE  CompositionIsTransparent'
  <1>1. \A n, c : AtRoot(n, c)' = AtRoot(n, c)
    BY SameTree
  <1>2. QED
    BY <1>1 DEF CompositionIsTransparent, AllAtHome, AtHome

-----------------------------------------------------------------------------
(* The invariant is kept.                                                  *)

LEMMA ExecuteFacts ==
    ASSUME NEW command, NEW queue, Execute(command, queue)
    PROVE  LET after == ExecuteAll(State(queue, tasks, effects), Leaves(command))
           IN  /\ pending' = after.pending /\ tasks' = after.tasks /\ effects' = after.effects
               /\ executed' = Leaves(command)
  BY DEF Execute, State

\* One reply, or several, executed.
LEMMA RepliesExecute ==
    ASSUME Grown, NEW queue, InFlight(queue, tasks, effects, busy), NEW replies \in Seq(RepliesOf),
           NEW command, Leaves(command) = FlattenSeq(AllAtHome(replies)),
           Execute(command, queue), Replying(replies), children' = children, panel' = panel
    PROVE  InFlight(pending, tasks, effects, busy)' /\ CompositionIsTransparent'
  <1> DEFINE before == State(queue, tasks, effects)
             after == ExecuteAll(before, Leaves(command))
             who == BusyAfter(busy, replies)
  <1>1. /\ pending' = after.pending /\ tasks' = after.tasks /\ effects' = after.effects
        /\ executed' = Leaves(command) /\ busy' = who /\ replied' = replies
    BY ExecuteFacts DEF Replying
  <1>2. StateOf(before, busy)
    BY InFlightIs
  <1>3. StateOf(after, who)
    <2> HIDE DEF before
    <2>1. StateOf(ExecuteAll(before, FlattenSeq(AllAtHome(replies))), BusyAfter(busy, replies))
      BY <1>2, RepliesExecuted
    <2>2. QED
      BY <2>1
  <1> HIDE DEF before, after, who
  <1>4. after = State(after.pending, after.tasks, after.effects)
    <2>1. PICK p \in Seq(Homes) : \E ts, es : after = State(p, ts, es)
      BY <1>3 DEF StateOf
    <2>2. PICK ts, es : after = State(p, ts, es)
      BY <2>1
    <2>3. after.pending = p /\ after.tasks = ts /\ after.effects = es
      BY <2>2 DEF State
    <2>4. QED
      BY <2>2, <2>3
  <1>5. InFlight(after.pending, after.tasks, after.effects, who)
    BY <1>3, <1>4, InFlightIs
  <1>6. InFlight(pending', tasks', effects', busy')
    BY <1>1, <1>5
  <1>7. executed' = FlattenSeq(AllAtHome(replied'))
    BY <1>1
  <1>8. QED
    BY <1>6, <1>7, InFlightStays, TransparentStays

LEMMA OneReply ==
    ASSUME Grown, NEW n \in Models, NEW reply \in ReplyNames
    PROVE  LET replies == <<[model |-> n, reply |-> reply]>>
           IN  /\ replies \in Seq(RepliesOf)
               /\ FlattenSeq(AllAtHome(replies)) = AtHome(n, reply)
  <1> DEFINE r == [model |-> n, reply |-> reply]
             replies == <<r>>
             home == AtHome(n, reply)
  <1>1. r \in RepliesOf /\ r.model = n /\ r.reply = reply
    BY DEF RepliesOf
  <1> HIDE DEF r
  <1>2. replies \in Seq(RepliesOf)
    BY <1>1, OneType
  <1>3. home \in Seq(Singles)
    BY AtHomeFacts
  <1>4. AllAtHome(replies) = <<home>>
    <2>1. Len(replies) = 1 /\ replies[1] = r
      OBVIOUS
    <2> HIDE DEF replies
    <2>2. AllAtHome(replies) = [k \in 1..1 |-> AtHome(replies[k].model, replies[k].reply)]
      BY <2>1 DEF AllAtHome
    <2>3. [k \in 1..1 |-> AtHome(replies[k].model, replies[k].reply)] = [k \in 1..1 |-> home]
      BY <1>1, <2>1
    <2> HIDE DEF home
    <2>4. [k \in 1..1 |-> home] = <<home>>
      OBVIOUS
    <2>5. QED
      BY <2>2, <2>3, <2>4
  <1> HIDE DEF home, replies
  <1>5. FlattenSeq(<<home>>) = home
    BY <1>3, FlattenOne
  <1>6. QED
    BY <1>2, <1>4, <1>5 DEF r, home, replies

LEMMA Enqueued ==
    ASSUME NEW messages, messages \subseteq Homes, pending \in Seq(Homes), Enqueue(messages)
    PROVE  pending' \in Seq(Homes)
  <1>1. CASE messages = {}
    BY <1>1 DEF Enqueue
  <1>2. CASE messages # {}
    <2> DEFINE m == CHOOSE m \in messages : TRUE
    <2>1. m \in messages
      BY <1>2
    <2>2. pending' = Append(pending, m)
      BY <1>2 DEF Enqueue
    <2> HIDE DEF m
    <2>3. m \in Homes
      BY <2>1
    <2> DEFINE H == Homes
    <2>4. pending \in Seq(H) /\ m \in H
      BY <2>3
    <2> HIDE DEF H
    <2>5. Append(pending, m) \in Seq(H)
      BY <2>4
    <2>6. QED
      BY <2>2, <2>5 DEF H
  <1>3. QED
    BY <1>1, <1>2

\* A step that executes nothing and leaves the models as they are.
LEMMA Quiet ==
    ASSUME CompositeInv, stage = "mounted", NothingReplied,
           UNCHANGED <<stage, input, errors, children, panel, subscriptions, panicked>>,
           InFlight(pending', tasks', effects', busy')
    PROVE  CompositeInv'
  <1>1. InFlight(pending, tasks, effects, busy)'
    BY InFlightStays
  <1>2. Homes' = Homes /\ Grown' = Grown
    BY SameTree
  <1>3. MessagesComeHome'
    BY DEF NothingReplied, MessagesComeHome
  <1>4. CompositionIsTransparent'
    <2>1. AllAtHome(<<>>) = <<>>
      BY DEF AllAtHome
    <2>2. executed' = FlattenSeq(AllAtHome(replied'))
      BY <2>1, FlattenEmpty DEF NothingReplied
    <2>3. QED
      BY <2>2, TransparentStays
  <1>5. QED
    BY <1>1, <1>2, <1>3, <1>4 DEF CompositeInv

\* The derive's children are good, of the root and of the type "Panel".
LEMMA ParsedSpecs ==
    ASSUME NEW decl \in Declarations, ParseComposite(decl).errors = <<>>
    PROVE  GoodSpecs(ParseComposite(decl).children)
  <1> DEFINE p == ParseComposite(decl)
  <1>1. ChildrenOf(p.children, decl.fields) /\ RepeatedFields(decl.fields) = {}
    BY ParseCompositeFacts
  <1>2. decl.fields \in Seq(Fields)
    BY DEF Declarations
  <1> HIDE DEF p
  <1>3. GoodSpecs(p.children)
    BY <1>1, <1>2, ChildrenAreGood
  <1>4. QED
    BY <1>3 DEF p

LEMMA InitInv == Init => CompositeInv
  <1> SUFFICES ASSUME Init PROVE CompositeInv
    OBVIOUS
  <1>1. AtRest /\ children = <<>> /\ panel = <<>> /\ panicked = FALSE
          /\ stage = "source" /\ input \in Inputs /\ errors = <<>>
    BY DEF Init, AtRest
  <1>2. Grown
    BY <1>1 DEF Grown, GoodSpecs
  <1>3. InFlight(<<>>, {}, {}, {})
    BY NoTasks DEF InFlight
  <1>4. InFlight(pending, tasks, effects, busy)
    BY <1>1, <1>3 DEF AtRest
  <1>5. MessagesComeHome
    BY <1>1 DEF AtRest, MessagesComeHome
  <1>6. CompositionIsTransparent
    <2>1. AllAtHome(<<>>) = <<>>
      BY DEF AllAtHome
    <2>2. executed = FlattenSeq(AllAtHome(replied))
      BY <1>1, <2>1, FlattenEmpty DEF AtRest
    <2>3. QED
      BY <2>2 DEF CompositionIsTransparent, AllAtHome, AtHome
  <1>7. QED
    BY <1>1, <1>2, <1>4, <1>5, <1>6 DEF CompositeInv, AtRest

LEMMA DeriveKeeps ==
    ASSUME CompositeInv, Derive
    PROVE  CompositeInv'
  <1> DEFINE p == ParseComposite(input)
  <1>1. input \in Declarations /\ PanelInput \in Declarations /\ input \in Inputs
    BY InputAssumption DEF CompositeInv, Derive
  <1>2. /\ errors' = p.errors
        /\ children' = IF p.errors = <<>> THEN p.children ELSE <<>>
        /\ stage' = IF p.errors = <<>> THEN "compiled" ELSE "rejected"
        /\ panel' = ParseComposite(PanelInput).children
        /\ UNCHANGED <<input, pending, tasks, effects, subscriptions, panicked, busy,
                       replied, executed, handled>>
    BY DEF Derive, Expand
  <1>3. p.errors \in Seq(Errors) /\ Sites(p.errors) \subseteq 0..Len(input.fields)
    BY <1>1, ParseCompositeFacts, CulpritsInside
  <1>4. p.errors = <<>> => GoodSpecs(p.children)
    BY <1>1, ParsedSpecs
  <1>5. GoodSpecs(panel')
    BY <1>1, <1>2, InputAssumption, ParsedSpecs
  <1> HIDE DEF p
  <1>6. GoodSpecs(children')
    <2>1. GoodSpecs(<<>>)
      BY DEF GoodSpecs
    <2>2. QED
      BY <1>2, <1>4, <2>1
  <1>7. Grown'
    BY <1>5, <1>6 DEF Grown, GoodSpecs
  <1>8. AtRest /\ AtRest'
    BY <1>2 DEF CompositeInv, Derive, AtRest
  <1>9. InFlight(pending, tasks, effects, busy)'
    <2>1. pending' = <<>> /\ tasks' = {} /\ effects' = {} /\ busy' = {}
      BY <1>8 DEF AtRest
    <2>2. TasksOf(tasks, busy)'
      BY <2>1, FS_EmptySet DEF TasksOf
    <2>3. QED
      BY <2>1, <2>2 DEF InFlight
  <1>10. MessagesComeHome'
    BY <1>8 DEF AtRest, MessagesComeHome
  <1>11. CompositionIsTransparent'
    <2>1. executed' = <<>> /\ replied' = <<>>
      BY <1>8 DEF AtRest
    <2>2. CompositionIsTransparent' <=> executed' = FlattenSeq(<<>>)
      BY <2>1 DEF CompositionIsTransparent
    <2>3. QED
      BY <2>1, <2>2, FlattenEmpty
  <1>12. \A i \in 1..Len(errors') : errors'[i].site \in 0..Len(input'.fields)
    BY <1>2, <1>3 DEF Sites
  <1>13. \A i \in 1..Len(subscriptions') : FALSE
    BY <1>8 DEF AtRest
  <1>14. stage' # "rejected" => errors' = <<>>
    BY <1>2
  <1>15. stage' \in {"compiled", "rejected"} /\ input' \in Inputs /\ panicked' = FALSE
    BY <1>1, <1>2 DEF CompositeInv
  <1>16. QED
    BY <1>7, <1>8, <1>9, <1>10, <1>11, <1>12, <1>13, <1>14, <1>15 DEF CompositeInv

LEMMA MountKeeps ==
    ASSUME CompositeInv, Mount
    PROVE  CompositeInv'
  <1>1. /\ Grown /\ AtRest /\ errors = <<>> /\ stage' = "mounted" /\ input' = NoInput
        /\ handled' = {} /\ UNCHANGED <<errors, children, panel>>
        /\ subscriptions' = Declared.list /\ panicked' = Declared.panics
    BY DEF CompositeInv, Mount
  <1>2. PICK reply \in [Models -> InitReplies] :
          Execute(InitCommand(reply), <<>>) /\ Replying(InOrder(reply))
    BY DEF Mount
  <1>3. reply \in [Models -> ReplyNames]
    BY ReplyAssumption
  <1> DEFINE replies == InOrder(reply)
             command == InitCommand(reply)
  <1>4. replies \in Seq(RepliesOf) /\ Leaves(command) = FlattenSeq(AllAtHome(replies))
    BY <1>1, <1>3, InitComesHome
  <1>5. InFlight(<<>>, tasks, effects, busy)
    BY <1>1 DEF CompositeInv, AtRest
  <1>6. Execute(command, <<>>) /\ Replying(replies)
    BY <1>2
  <1> HIDE DEF replies, command
  <1>7. InFlight(pending, tasks, effects, busy)' /\ CompositionIsTransparent'
    BY <1>1, <1>4, <1>5, <1>6, RepliesExecute
  <1>8. Homes' = Homes /\ Grown' = Grown
    BY <1>1, SameTree
  <1>9. panicked' = FALSE /\ \A i \in 1..Len(subscriptions') : subscriptions'[i].message \in Homes
    BY <1>1, DeclaredComesHome DEF Homes
  <1>10. MessagesComeHome'
    BY <1>1 DEF MessagesComeHome
  <1>11. QED
    BY <1>1, <1>7, <1>8, <1>9, <1>10 DEF CompositeInv

LEMMA ProcessKeeps ==
    ASSUME CompositeInv, Process
    PROVE  CompositeInv'
  <1> DEFINE message == Head(pending)
             to == Routed(message)
             n == to.by
  <1>1. Grown /\ pending # <<>> /\ stage = "mounted" /\ pending \in Seq(Homes)
    BY DEF CompositeInv, InFlight, AtRest, Process
  <1>2. message \in Homes /\ Tail(pending) \in Seq(Homes)
    <2> DEFINE H == Homes
    <2>1. pending \in Seq(H)
      BY <1>1
    <2> HIDE DEF H
    <2>2. Head(pending) \in H /\ Tail(pending) \in Seq(H)
      BY <1>1, <2>1
    <2>3. QED
      BY <2>2 DEF H
  <1>3. /\ handled' = {[message |-> message, by |-> n, as |-> to.message]}
        /\ UNCHANGED <<stage, input, errors, children, panel, subscriptions, panicked>>
    BY DEF Process
  <1>4. PICK reply \in Replies :
          /\ Execute(Ascend(n, ReplyCommand(n, reply)), Tail(pending))
          /\ Replying(<<[model |-> n, reply |-> reply]>>)
    BY DEF Process
  <1>5. PICK m \in Models : message = Home(m)
    BY <1>2 DEF Homes
  <1>6. n \in Models
    BY <1>1, <1>5, HomeFacts, RoutedType
  <1>7. Reachable(m) => n = m /\ to.message = Local(m)
    BY <1>1, <1>5, RoutedHome
  <1>8. reply \in ReplyNames
    BY ReplyAssumption
  <1> DEFINE replies == <<[model |-> n, reply |-> reply]>>
             command == Ascend(n, ReplyCommand(n, reply))
             queue == Tail(pending)
  <1> HIDE DEF message, to, n
  <1>9. replies \in Seq(RepliesOf) /\ Leaves(command) = FlattenSeq(AllAtHome(replies))
    BY <1>1, <1>6, <1>8, ReplyComesHome, OneReply
  <1>10. InFlight(queue, tasks, effects, busy)
    BY <1>2 DEF CompositeInv, InFlight
  <1>11. Execute(command, queue) /\ Replying(replies)
    BY <1>4
  <1> HIDE DEF replies, command, queue
  <1>12. InFlight(pending, tasks, effects, busy)' /\ CompositionIsTransparent'
    BY <1>1, <1>3, <1>9, <1>10, <1>11, RepliesExecute
  <1>13. Homes' = Homes /\ Grown' = Grown /\ \A k : Reachable(k)' = Reachable(k)
    BY <1>3, SameTree
  <1>14. MessagesComeHome'
    <2> SUFFICES ASSUME NEW h \in handled', Reachable(h.message.from)'
                 PROVE  h.by = h.message.from /\ h.as = Local(h.message.from)
      BY DEF MessagesComeHome
    <2>1. h.message = Home(m) /\ h.by = n /\ h.as = to.message
      BY <1>3, <1>5
    <2>2. h.message.from = m
      BY <2>1 DEF Home
    <2>3. Reachable(m)
      BY <1>13, <2>2
    <2>4. QED
      BY <1>7, <2>1, <2>2, <2>3
  <1>15. QED
    BY <1>1, <1>3, <1>12, <1>13, <1>14 DEF CompositeInv

LEMMA CompleteTaskKeeps ==
    ASSUME CompositeInv, CompleteTask
    PROVE  CompositeInv'
  <1>1. PICK t \in tasks : /\ tasks' = tasks \ {t}
                           /\ Enqueue(t.effect.output)
                           /\ busy' = busy \ {t.effect.body}
    BY DEF CompleteTask
  <1>2. /\ NothingReplied
        /\ UNCHANGED <<stage, input, errors, children, panel, effects, subscriptions, panicked>>
    BY DEF CompleteTask
  <1>3. TasksOf(tasks, busy) /\ pending \in Seq(Homes) /\ stage = "mounted"
    BY <1>1 DEF CompositeInv, InFlight, AtRest
  <1>4. TasksOf(tasks', busy')
    BY <1>1, <1>3, TaskCompleted
  <1>5. t.effect.output \subseteq Homes
    <2>1. t.effect.body \in Models /\ t.effect \in EffectsAt(t.effect.body)
      BY <1>3, TasksAre
    <2>2. QED
      BY <2>1, TaskFacts DEF Homes
  <1>6. pending' \in Seq(Homes)
    BY <1>1, <1>3, <1>5, Enqueued
  <1>7. InFlight(pending', tasks', effects', busy')
    BY <1>2, <1>4, <1>6 DEF CompositeInv, InFlight
  <1>8. QED
    BY <1>2, <1>3, <1>7, Quiet

LEMMA CompleteEffectKeeps ==
    ASSUME CompositeInv, CompleteEffect
    PROVE  CompositeInv'
  <1>1. PICK e \in effects : effects' = effects \ {e} /\ Enqueue(e.output)
    BY DEF CompleteEffect
  <1>2. /\ NothingReplied
        /\ UNCHANGED <<stage, input, errors, children, panel, tasks, subscriptions, panicked, busy>>
    BY DEF CompleteEffect
  <1>3. pending \in Seq(Homes) /\ stage = "mounted"
    BY <1>1 DEF CompositeInv, InFlight, AtRest
  <1>4. PICK n \in Models : e \in EffectsAt(n)
    BY DEF CompositeInv, InFlight
  <1>5. e.output \subseteq Homes
    BY <1>4, TaskFacts DEF Homes
  <1>6. pending' \in Seq(Homes)
    BY <1>1, <1>3, <1>5, Enqueued
  <1>7. InFlight(pending', tasks', effects', busy')
    BY <1>1, <1>2, <1>6 DEF CompositeInv, InFlight
  <1>8. QED
    BY <1>2, <1>3, <1>7, Quiet

\* A message from outside: of a subscription, or of a view.
LEMMA MessageEnqueued ==
    ASSUME CompositeInv, stage = "mounted", NEW m \in Homes, Enqueue({m}), NothingReplied,
           UNCHANGED <<stage, input, errors, children, panel, tasks, effects, subscriptions,
                       panicked, busy>>
    PROVE  CompositeInv'
  <1>1. pending' \in Seq(Homes)
    BY Enqueued DEF CompositeInv, InFlight
  <1>2. InFlight(pending', tasks', effects', busy')
    BY <1>1 DEF CompositeInv, InFlight
  <1>3. QED
    BY <1>2, Quiet

LEMMA StutterKeeps ==
    ASSUME CompositeInv, UNCHANGED vars
    PROVE  CompositeInv'
  <1>1. /\ UNCHANGED <<stage, input, errors, children, panel, pending, tasks, effects>>
        /\ UNCHANGED <<subscriptions, panicked, busy, replied, executed, handled>>
    BY DEF vars
  <1>2. InFlight(pending, tasks, effects, busy)'
    BY <1>1, InFlightStays DEF CompositeInv
  <1>3. Homes' = Homes /\ Grown' = Grown /\ \A k : Reachable(k)' = Reachable(k)
    BY <1>1, SameTree
  <1>4. MessagesComeHome'
    BY <1>1, <1>3 DEF CompositeInv, MessagesComeHome
  <1>5. CompositionIsTransparent'
    <2>1. executed' = FlattenSeq(AllAtHome(replied'))
      BY <1>1 DEF CompositeInv, CompositionIsTransparent, AllAtHome, AtHome
    <2>2. QED
      BY <1>1, <2>1, TransparentStays
  <1>6. AtRest' = AtRest
    BY <1>1 DEF AtRest
  <1>7. QED
    BY <1>1, <1>2, <1>3, <1>4, <1>5, <1>6 DEF CompositeInv

LEMMA CompositeInvHolds == Spec => []CompositeInv
  <1>1. CompositeInv /\ [Next]_vars => CompositeInv'
    <2> SUFFICES ASSUME CompositeInv, [Next]_vars PROVE CompositeInv'
      OBVIOUS
    <2>1. CASE SubscriptionFires
      <3>1. PICK i \in 1..Len(subscriptions) : Enqueue({subscriptions[i].message})
        BY <2>1 DEF SubscriptionFires
      <3>2. subscriptions[i].message \in Homes
        BY DEF CompositeInv
      <3>3. stage = "mounted"
        <4>1. subscriptions # <<>>
          BY <3>1
        <4>2. QED
          BY <4>1 DEF CompositeInv, AtRest
      <3>4. QED
        BY <2>1, <3>1, <3>2, <3>3, MessageEnqueued DEF SubscriptionFires
    <2>2. CASE ViewDispatches
      <3>1. PICK n \in Models : Enqueue({Dispatched(n)})
        BY <2>2 DEF ViewDispatches
      <3>2. Dispatched(n) \in Homes
        BY DispatchedFacts DEF CompositeInv, Homes
      <3>3. QED
        BY <2>2, <3>1, <3>2, MessageEnqueued DEF ViewDispatches
    <2>3. QED
      BY <2>1, <2>2, DeriveKeeps, MountKeeps, ProcessKeeps, CompleteTaskKeeps,
         CompleteEffectKeeps, StutterKeeps DEF Next
  <1>2. QED
    BY <1>1, InitInv, PTL DEF Spec

-----------------------------------------------------------------------------
(* The theorems.                                                           *)

\* The state has its types: whatever is queued or in flight belongs to a model of the
\* tree that the derive accepted, and whatever the derive reports has a place in the
\* declaration.
THEOREM CompositeTypeOK == Spec => []TypeOK
  <1>1. CompositeInv => TypeOK
    <2> SUFFICES ASSUME CompositeInv PROVE TypeOK
      OBVIOUS
    <2>1. \A i \in 1..Len(children) : children[i].path # ""
            /\ children[i].type \in {"Panel", "Leaf"}
      <3>1. children \in Seq(Specs) /\ \A i \in 1..Len(children) : children[i].path # ""
        BY DEF CompositeInv, Grown, GoodSpecs
      <3> DEFINE M == Specs
      <3>2. \A c \in M : c.type \in {"Panel", "Leaf"}
        BY DEF Specs
      <3>3. children \in Seq(M)
        BY <3>1
      <3> HIDE DEF M
      <3>4. \A i \in 1..Len(children) : children[i] \in M
        BY <3>3
      <3>5. QED
        BY <3>1, <3>2, <3>4
    <2>2. \A i \in 1..Len(pending) : pending[i].from \in Models
      <3>1. \A i \in 1..Len(pending) : pending[i] \in Homes
        BY DEF CompositeInv, InFlight
      <3>2. \A m \in Homes : m.from \in Models
        BY DEF Homes, Home
      <3>3. QED
        BY <3>1, <3>2
    <2>3. ASSUME NEW t \in tasks
          PROVE  t.effect.body \in Models /\ t.effect.kind \in {"Foreground", "Background"}
      <3>1. t.effect.body \in Models /\ t.effect \in EffectsAt(t.effect.body)
        BY TasksAre DEF CompositeInv, InFlight
      <3>2. QED
        BY <3>1, TaskFacts DEF Kinds
    <2>4. ASSUME NEW e \in effects PROVE e.body \in Models /\ Cardinality(e.output) <= 1
      <3>1. PICK n \in Models : e \in EffectsAt(n)
        BY DEF CompositeInv, InFlight
      <3>2. e.body = n /\ (e.output = {} \/ e.output = {Home(n)})
        BY <3>1, TaskFacts
      <3>3. Cardinality({}) = 0 /\ Cardinality({Home(n)}) = 1
        BY FS_EmptySet, FS_Singleton
      <3>4. QED
        BY <3>2, <3>3
    <2>5. panicked \in BOOLEAN /\ busy \subseteq Models
      BY DEF CompositeInv, InFlight, TasksOf
    <2>6. QED
      BY <2>1, <2>2, <2>3, <2>4, <2>5 DEF CompositeInv, TypeOK
  <1>2. QED
    BY <1>1, CompositeInvHolds, PTL

\* Whatever model the generated update hands a message to is the one that sent it, and
\* gets it as it was sent, when the declarations on the way allow it: wherever in the
\* tree that is, and whether a command, an effect, a subscription or a view sent it.
THEOREM MessagesComeHomeHolds == Spec => []MessagesComeHome
  <1>1. CompositeInv => MessagesComeHome
    BY DEF CompositeInv
  <1>2. QED
    BY <1>1, CompositeInvHolds, PTL

\* Key::scoped keeps the keys of models apart, whatever keyed effects the models start
\* and cancel and however these complete, and Subscriptions::push does not refuse the
\* subscription of any model.
THEOREM KeysStayApartHolds == Spec => []KeysStayApart
  <1>1. CompositeInv => KeysStayApart
    BY TasksCount DEF CompositeInv, InFlight, KeysStayApart
  <1>2. QED
    BY <1>1, CompositeInvHolds, PTL

\* What a turn executes is what the authors of the models wrote, with their labels and
\* in their order, whatever the models of the tree reply: neither
\* Command::batch nor the scopes on the way up lose, reorder or rename anything.
THEOREM CompositionIsTransparentHolds == Spec => []CompositionIsTransparent
  <1>1. CompositeInv => CompositionIsTransparent
    BY DEF CompositeInv
  <1>2. QED
    BY <1>1, CompositeInvHolds, PTL

=============================================================================
