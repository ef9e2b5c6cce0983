---------------------- MODULE SubscriptionRegistryProofs ----------------------
(***************************************************************************)
(* Theorems about SubscriptionRegistry, for every finite set of keys and   *)
(* any sequence of declarations.                                           *)
(***************************************************************************)
EXTENDS SubscriptionRegistry, CollectionsProofs, FiniteSetTheorems

\* The sources that a registry, or a part of one, holds.
Sources(handles) == {[key |-> k, handle |-> handles[k]] : k \in Held(handles)}

LEMMA SameEntries == \A s : Elements(s) = Entries(s)
  BY DEF Elements, Entries

\* What a model declares is a sequence of distinct keys.
LEMMA DeclarationFacts ==
    ASSUME NEW d \in Declarations
    PROVE  d \in Seq(Keys) /\ Distinct(d)
  <1>1. PICK n \in 0..Cardinality(Keys) : d \in [1..n -> Keys]
    BY DEF Declarations
  <1>2. Cardinality(Keys) \in Nat
    BY RegistryAssumption, FS_CardinalityType
  <1>3. n \in Nat
    BY <1>1, <1>2
  <1>4. d \in Seq(Keys) /\ Len(d) = n /\ DOMAIN d = 1..Len(d)
    BY <1>1, <1>3
  <1>5. QED
    BY <1>4 DEF Declarations, Distinct

LEMMA HeldFacts ==
    ASSUME NEW h \in [Keys -> Nat]
    PROVE  /\ Held(h) \subseteq Keys /\ IsFiniteSet(Held(h))
           /\ Cardinality(Held(h)) \in Nat
  <1>1. Held(h) \subseteq Keys
    BY DEF Held
  <1>2. IsFiniteSet(Held(h))
    BY <1>1, RegistryAssumption, FS_Subset
  <1>3. QED
    BY <1>1, <1>2, FS_CardinalityType

\* A registry holds one source for each key it holds.
LEMMA SourcesCounted ==
    ASSUME NEW h \in [Keys -> Nat]
    PROVE  Cardinality(Sources(h)) = Cardinality(Held(h))
  <1> DEFINE f == [k \in Held(h) |-> [key |-> k, handle |-> h[k]]]
  <1>1. f \in Bijection(Held(h), Sources(h))
    <2>1. f \in [Held(h) -> Sources(h)]
      BY DEF Sources
    <2>2. \A k, l \in Held(h) : f[k] = f[l] => k = l
      <3> SUFFICES ASSUME NEW k \in Held(h), NEW l \in Held(h), f[k] = f[l] PROVE k = l
        OBVIOUS
      <3>1. f[k].key = k /\ f[l].key = l
        OBVIOUS
      <3>2. QED
        BY <3>1
    <2>3. \A s \in Sources(h) : \E k \in Held(h) : f[k] = s
      BY DEF Sources
    <2> HIDE DEF f
    <2>4. QED
      BY <2>1, <2>2, <2>3 DEF Bijection, Injection, Surjection, IsInjective
  <1>2. ExistsBijection(Held(h), Sources(h))
    BY <1>1 DEF ExistsBijection
  <1>3. QED
    BY <1>2, HeldFacts, FS_Bijection

LEMMA NothingHeld ==
    /\ NoHandles \in [Keys -> Nat] /\ Held(NoHandles) = {} /\ Sources(NoHandles) = {}
  BY DEF NoHandles, NoHandle, Held, Sources

LEMMA KeySequences ==
    ASSUME NEW s \in Seq(Keys)
    PROVE  /\ Len(s) \in Nat
           /\ s # <<>> =>
                /\ Head(s) \in Keys /\ Tail(s) \in Seq(Keys) /\ Len(Tail(s)) = Len(s) - 1
                /\ Elements(s) = {Head(s)} \cup Elements(Tail(s))
                /\ Distinct(s) => Head(s) \notin Elements(Tail(s)) /\ Distinct(Tail(s))
  <1>1. CASE s = <<>>
    BY <1>1
  <1>2. CASE s # <<>>
    <2> DEFINE t == Tail(s)
    <2>1. /\ Len(s) \in Nat /\ Len(s) >= 1 /\ Head(s) = s[1] /\ Head(s) \in Keys
          /\ t \in Seq(Keys) /\ Len(t) = Len(s) - 1
          /\ \A i \in 1..Len(t) : t[i] = s[i + 1]
      BY <1>2
    <2> HIDE DEF t
    <2>2. /\ 1 \in 1..Len(s)
          /\ \A i \in 1..Len(t) : i + 1 \in 1..Len(s) /\ i + 1 # 1
          /\ \A i \in 1..Len(s) : i # 1 => i - 1 \in 1..Len(t) /\ (i - 1) + 1 = i
      BY <2>1
    <2>3. Elements(s) \subseteq {Head(s)} \cup Elements(t)
      <3> SUFFICES ASSUME NEW i \in 1..Len(s), i # 1 PROVE s[i] \in Elements(t)
        BY <2>1 DEF Elements
      <3>1. i - 1 \in 1..Len(t) /\ t[i - 1] = s[i]
        BY <2>1, <2>2
      <3>2. QED
        BY <3>1 DEF Elements
    <2>4. {Head(s)} \cup Elements(t) \subseteq Elements(s)
      BY <2>1, <2>2 DEF Elements
    <2>5. ASSUME Distinct(s) PROVE Head(s) \notin Elements(t) /\ Distinct(t)
      <3>1. \A i \in 1..Len(t) : t[i] # s[1]
        BY <2>1, <2>2, <2>5 DEF Distinct
      <3>2. \A i, j \in 1..Len(t) : t[i] = t[j] => i = j
        <4> SUFFICES ASSUME NEW i \in 1..Len(t), NEW j \in 1..Len(t), t[i] = t[j]
                     PROVE  i = j
          OBVIOUS
        <4>1. i + 1 \in 1..Len(s) /\ j + 1 \in 1..Len(s) /\ s[i + 1] = s[j + 1]
          BY <2>1, <2>2
        <4>2. i + 1 = j + 1
          BY <4>1, <2>5 DEF Distinct
        <4>3. QED
          BY <4>2
      <3>3. QED
        BY <2>1, <3>1, <3>2 DEF Elements, Distinct
    <2>6. QED
      BY <2>1, <2>3, <2>4, <2>5 DEF t
  <1>3. QED
    BY <1>1, <1>2

-----------------------------------------------------------------------------
(* The invariant.                                                          *)

\* While reconcile works the handles are in two parts, those to be removed, none of
\* which is declared, and those of the new registry, and what is still to be built
\* completes the latter to the declared keys.
Working ==
    /\ active = NoHandles
    /\ Distinct(builds)
    /\ Held(current) \cap Elements(wanted) = {}
    /\ Held(next) \cap Elements(builds) = {}
    /\ Held(next) \cup Elements(builds) = Elements(wanted)
    /\ live = Sources(current) \cup Sources(next)
    /\ stats.added + stats.retained = Len(builds) + Cardinality(Held(next))

RegistryInv ==
    /\ TypeOK
    /\ phase = "idle" =>
         /\ current = NoHandles /\ next = NoHandles /\ builds = <<>>
         /\ Held(active) = Elements(wanted)
         /\ live = Sources(active)
         /\ stats.active = Cardinality(Held(active))
         /\ stats.active = stats.added + stats.retained
    /\ phase \in {"remove", "build"} => Working
    /\ phase = "build" => Held(current) = {}
    /\ phase = "dropped" => live = {}

LEMMA RegistryInit == Init => RegistryInv
  <1> SUFFICES ASSUME Init PROVE RegistryInv
    OBVIOUS
  <1>1. <<>> \in Seq(Keys) /\ Elements(<<>>) = {}
    BY DEF Elements
  <1>2. TypeOK
    BY <1>1, NothingHeld DEF Init, TypeOK
  <1>3. Cardinality({}) = 0
    BY FS_EmptySet
  <1>4. QED
    BY <1>1, <1>2, <1>3, NothingHeld DEF Init, RegistryInv

LEMMA ReconcileStep ==
    ASSUME RegistryInv, NEW d \in Declarations, Reconcile(d)
    PROVE  RegistryInv'
  <1> DEFINE free == {k \in Keys : active[k] = NoHandle}
             retained == {k \in Elements(d) : active[k] # NoHandle}
             left == [k \in Keys |-> IF k \in retained THEN NoHandle ELSE active[k]]
             kept == [k \in Keys |-> IF k \in retained THEN active[k] ELSE NoHandle]
             new == Only(d, free)
  <1>1. /\ phase = "idle" /\ phase' = "remove" /\ wanted' = d /\ active' = NoHandles
        /\ next' = kept /\ current' = left /\ builds' = new
        /\ stats' = [active |-> 0, added |-> Len(new),
                     removed |-> Cardinality(Held(left)), retained |-> Cardinality(retained)]
        /\ UNCHANGED <<live, built>>
    BY DEF Reconcile, Diff
  <1>2. /\ TypeOK /\ live = Sources(active)
    BY <1>1 DEF RegistryInv
  <1>3. d \in Seq(Keys) /\ Distinct(d) /\ Elements(d) \subseteq Keys
    BY DeclarationFacts DEF Elements
  <1>4. new \in Seq(Keys) /\ Distinct(new) /\ Elements(new) = Elements(d) \cap free
    <2>1. \A s \in Seq(Keys) : Only(s, free) \in Seq(Keys)
      BY OnlyType
    <2>2. \A s \in Seq(Keys) : /\ Entries(Only(s, free)) = Entries(s) \cap free
                               /\ Distinct(s) => Distinct(Only(s, free))
      BY OnlyEntries
    <2>3. QED
      BY <1>3, <2>1, <2>2, SameEntries
  <1>5. /\ left \in [Keys -> Nat] /\ kept \in [Keys -> Nat]
        /\ Held(kept) = retained /\ Held(left) = Held(active) \ Elements(d)
    BY <1>2, <1>3 DEF TypeOK, NoHandle, Held
  <1>6. Sources(active) = Sources(left) \cup Sources(kept)
    <2>1. Held(active) = Held(left) \cup Held(kept)
      BY <1>3, <1>5 DEF Held
    <2>2. /\ \A k \in Held(left) : left[k] = active[k]
          /\ \A k \in Held(kept) : kept[k] = active[k]
      BY <1>3, <1>5 DEF Held
    <2> HIDE DEF left, kept
    <2>3. QED
      BY <2>1, <2>2 DEF Sources
  <1>7. retained \cap Elements(new) = {} /\ retained \cup Elements(new) = Elements(d)
    BY <1>3, <1>4
  <1>8. Len(new) \in Nat /\ Cardinality(Held(left)) \in Nat /\ Cardinality(retained) \in Nat
    BY <1>4, <1>5, HeldFacts, KeySequences
  <1> HIDE DEF left, kept, new, retained, free
  <1>9. TypeOK'
    BY <1>1, <1>2, <1>3, <1>4, <1>5, <1>8, NothingHeld DEF TypeOK
  <1>10. Working'
    <2>1. stats'.added + stats'.retained = Len(builds') + Cardinality(Held(next'))
      BY <1>1, <1>5, <1>8
    <2>2. Held(current') \cap Elements(wanted') = {}
      BY <1>1, <1>5
    <2>3. /\ Held(next') \cap Elements(builds') = {}
          /\ Held(next') \cup Elements(builds') = Elements(wanted')
      BY <1>1, <1>5, <1>7
    <2>4. live' = Sources(current') \cup Sources(next')
      BY <1>1, <1>2, <1>6
    <2>5. active' = NoHandles /\ Distinct(builds')
      BY <1>1, <1>4
    <2>6. QED
      BY <2>1, <2>2, <2>3, <2>4, <2>5 DEF Working, NoHandles
  <1>11. QED
    BY <1>1, <1>9, <1>10 DEF RegistryInv

LEMMA RemoveStep ==
    ASSUME RegistryInv, NEW k \in Keys, Remove(k)
    PROVE  RegistryInv'
  <1>1. /\ phase = "remove" /\ current[k] # NoHandle
        /\ live' = live \ {[key |-> k, handle |-> current[k]]}
        /\ current' = [current EXCEPT ![k] = NoHandle]
        /\ UNCHANGED <<active, next, builds, phase, stats, wanted, built>>
    BY DEF Remove
  <1>2. Working /\ TypeOK
    BY <1>1 DEF RegistryInv
  <1>3. current \in [Keys -> Nat] /\ current' \in [Keys -> Nat]
    BY <1>1, <1>2 DEF TypeOK, NoHandle
  <1>4. /\ k \in Held(current) /\ Held(current') = Held(current) \ {k}
        /\ \A l \in Held(current') : current'[l] = current[l] /\ l # k
    BY <1>1, <1>3 DEF Held
  <1>5. k \notin Held(next)
    BY <1>2, <1>4 DEF Working
  <1>6. Sources(current') = Sources(current) \ {[key |-> k, handle |-> current[k]]}
    BY <1>4 DEF Sources
  <1>7. [key |-> k, handle |-> current[k]] \notin Sources(next)
    BY <1>5 DEF Sources
  <1>8. live' = Sources(current') \cup Sources(next')
    BY <1>1, <1>2, <1>6, <1>7 DEF Working
  <1>9. TypeOK'
    BY <1>1, <1>2, <1>3 DEF TypeOK
  <1>10. Working'
    BY <1>1, <1>2, <1>4, <1>8 DEF Working, NoHandles
  <1>11. QED
    BY <1>1, <1>9, <1>10 DEF RegistryInv

LEMMA BuildStep ==
    ASSUME RegistryInv, Build
    PROVE  RegistryInv'
  <1> DEFINE k == Head(builds)
             h == built + 1
  <1>1. /\ phase = "build" /\ builds # <<>> /\ builds' = Tail(builds) /\ built' = h
        /\ next' = [next EXCEPT ![k] = h]
        /\ live' = live \cup {[key |-> k, handle |-> h]}
        /\ UNCHANGED <<active, current, phase, stats, wanted>>
    BY DEF Build
  <1>2. Working /\ TypeOK /\ Held(current) = {}
    BY <1>1 DEF RegistryInv
  <1>3. /\ builds \in Seq(Keys) /\ k \in Keys /\ builds' \in Seq(Keys)
        /\ Len(builds') = Len(builds) - 1 /\ Len(builds) \in Nat
        /\ Elements(builds) = {k} \cup Elements(builds')
        /\ k \notin Elements(builds') /\ Distinct(builds')
    BY <1>1, <1>2, KeySequences DEF TypeOK, Working
  <1>4. h \in Nat /\ h # NoHandle /\ next \in [Keys -> Nat]
    BY <1>2 DEF TypeOK, NoHandle
  <1> HIDE DEF k, h
  <1>5. next' \in [Keys -> Nat] /\ Held(next') = Held(next) \cup {k} /\ next'[k] = h
        /\ \A l \in Held(next) : l # k => next'[l] = next[l]
    BY <1>1, <1>3, <1>4 DEF Held
  <1>6. k \notin Held(next)
    BY <1>2, <1>3 DEF Working
  <1>7. Sources(next') = Sources(next) \cup {[key |-> k, handle |-> h]}
    BY <1>5, <1>6 DEF Sources
  <1>8. Cardinality(Held(next')) = Cardinality(Held(next)) + 1
    BY <1>4, <1>5, <1>6, HeldFacts, FS_AddElement
  <1>9. TypeOK'
    <2>1. live' \subseteq [key : Keys, handle : Nat]
      BY <1>1, <1>2, <1>3, <1>4 DEF TypeOK
    <2>2. QED
      BY <1>1, <1>2, <1>3, <1>4, <1>5, <2>1 DEF TypeOK
  <1>10. Working'
    <2>1. stats'.added + stats'.retained = Len(builds') + Cardinality(Held(next'))
      <3>1. Cardinality(Held(next)) \in Nat
        BY <1>4, HeldFacts
      <3>2. Len(builds) + Cardinality(Held(next)) = Len(builds') + Cardinality(Held(next'))
        BY <1>3, <1>8, <3>1
      <3>3. QED
        BY <1>1, <1>2, <3>2 DEF Working
    <2>2. live' = Sources(current') \cup Sources(next')
      BY <1>1, <1>2, <1>7 DEF Working
    <2>3. /\ Held(next') \cap Elements(builds') = {}
          /\ Held(next') \cup Elements(builds') = Elements(wanted')
      BY <1>1, <1>2, <1>3, <1>5 DEF Working
    <2>4. QED
      BY <1>1, <1>2, <1>3, <2>1, <2>2, <2>3 DEF Working, NoHandles
  <1>11. QED
    BY <1>1, <1>2, <1>9, <1>10 DEF RegistryInv

LEMMA FinishStep ==
    ASSUME RegistryInv, Finish
    PROVE  RegistryInv'
  <1>1. /\ phase = "build" /\ builds = <<>> /\ phase' = "idle"
        /\ active' = next /\ next' = NoHandles
        /\ stats' = [stats EXCEPT !.active = Cardinality(Held(next))]
        /\ UNCHANGED <<current, builds, wanted, live, built>>
    BY DEF Finish
  <1>2. Working /\ TypeOK /\ Held(current) = {}
    BY <1>1 DEF RegistryInv
  <1>3. next \in [Keys -> Nat] /\ Cardinality(Held(next)) \in Nat
    BY <1>2, HeldFacts DEF TypeOK
  <1>4. current = NoHandles /\ Sources(current) = {}
    BY <1>2 DEF TypeOK, Held, NoHandles, NoHandle, Sources
  <1>5. Elements(builds) = {} /\ Len(builds) = 0
    BY <1>1 DEF Elements
  <1>6. /\ stats' \in [active : Nat, added : Nat, removed : Nat, retained : Nat]
        /\ stats'.active = Cardinality(Held(next))
        /\ stats'.added = stats.added /\ stats'.retained = stats.retained
    BY <1>1, <1>2, <1>3 DEF TypeOK
  <1>7. TypeOK'
    BY <1>1, <1>2, <1>3, <1>6, NothingHeld DEF TypeOK
  <1>8. Cardinality(Held(next)) = stats.added + stats.retained
    BY <1>2, <1>3, <1>5 DEF Working
  <1>9. live = Sources(next) /\ Held(next) = Elements(wanted)
    BY <1>2, <1>4, <1>5 DEF Working
  <1>10. QED
    BY <1>1, <1>4, <1>6, <1>7, <1>8, <1>9 DEF RegistryInv, NoHandles

LEMMA RegistryStep == RegistryInv /\ [Next]_vars => RegistryInv'
  <1> SUFFICES ASSUME RegistryInv, [Next]_vars PROVE RegistryInv'
    OBVIOUS
  <1>1. CASE RemovalDone
    BY <1>1 DEF RemovalDone, RegistryInv, Working, TypeOK, NoHandles
  <1>2. CASE Drop
    <2>1. live' = {} /\ phase' = "dropped"
      BY <1>2 DEF Drop, RegistryInv, Sources
    <2>2. TypeOK'
      BY <1>2, NothingHeld DEF Drop, RegistryInv, TypeOK
    <2>3. QED
      BY <2>1, <2>2 DEF RegistryInv
  <1>3. CASE UNCHANGED vars
    BY <1>3 DEF vars, RegistryInv, Working, TypeOK, NoHandles
  <1>4. QED
    BY <1>1, <1>2, <1>3, ReconcileStep, RemoveStep, BuildStep, FinishStep DEF Next

LEMMA RegistryHolds == Spec => []RegistryInv
  BY RegistryInit, RegistryStep, PTL DEF Spec

-----------------------------------------------------------------------------
(* The theorems.                                                           *)

\* Every variable of the registry keeps its type.
THEOREM RegistryTypesCorrect == Spec => []TypeOK
  <1>1. RegistryInv => TypeOK
    BY DEF RegistryInv
  <1>2. QED
    BY <1>1, RegistryHolds, PTL

\* No key ever has two sources, and a builder never runs next to a source that is to
\* be removed, whatever the model declares and in whatever order handles are dropped.
THEOREM NeverDoubleSubscribed == Spec => []NoDoubleSubscription
  <1>1. RegistryInv => NoDoubleSubscription
    <2> SUFFICES ASSUME RegistryInv PROVE NoDoubleSubscription
      OBVIOUS
    <2>1. \A h : \A s, t \in Sources(h) : s.key \in Held(h) /\ (s.key = t.key => s = t)
      BY DEF Sources
    <2>2. CASE phase \in {"remove", "build"}
      <3>1. Working
        BY <2>2 DEF RegistryInv
      <3>2. \A s \in Sources(current) : \A t \in Sources(next) : s.key # t.key
        BY <3>1, <2>1 DEF Working
      <3>3. \A s, t \in live : s.key = t.key => s = t
        BY <3>1, <3>2, <2>1 DEF Working
      <3>4. ASSUME phase = "build", NEW s \in live PROVE s.key \in Elements(wanted)
        <4>1. s \in Sources(next)
          BY <3>1, <3>4 DEF Working, RegistryInv, Sources
        <4>2. QED
          BY <3>1, <4>1, <2>1 DEF Working
      <3>5. QED
        BY <3>3, <3>4 DEF NoDoubleSubscription
    <2>3. CASE phase \notin {"remove", "build"}
      <3>1. live = Sources(active) \/ live = {}
        BY <2>3 DEF RegistryInv, TypeOK
      <3>2. QED
        BY <2>1, <2>3, <3>1 DEF NoDoubleSubscription
    <2>4. QED
      BY <2>2, <2>3
  <1>2. QED
    BY <1>1, RegistryHolds, PTL

\* Between reconciliations the sources are those the model declares, each held by the
\* registry and counted, and a dropped program leaves none.
THEOREM RegistryAlwaysFollows == Spec => []RegistryFollowsModel
  <1>1. RegistryInv => RegistryFollowsModel
    <2> SUFFICES ASSUME RegistryInv PROVE RegistryFollowsModel
      OBVIOUS
    <2>1. phase = "idle" => Cardinality(live) = Cardinality(Held(active))
      BY SourcesCounted DEF RegistryInv, TypeOK
    <2>2. QED
      BY <2>1 DEF RegistryInv, RegistryFollowsModel, Sources
  <1>2. QED
    BY <1>1, RegistryHolds, PTL

\* No step ends a source whose key stays declared, but the drop of the program.
THEOREM RetainedAlwaysSurvive == Spec => RetainedSourcesSurvive
  <1> DEFINE Survive == \A s \in live :
                          s \notin live' => s.key \notin Elements(wanted) \/ phase' = "dropped"
  <1>1. RegistryInv /\ [Next]_vars => [Survive]_vars
    <2> SUFFICES ASSUME RegistryInv, Next PROVE Survive
      OBVIOUS
    <2>1. ASSUME NEW k \in Keys, Remove(k) PROVE Survive
      <3>1. k \notin Elements(wanted)
        BY <2>1 DEF Remove, RegistryInv, Working, Held
      <3>2. \A s \in live : s \notin live' => s.key = k
        BY <2>1 DEF Remove
      <3>3. QED
        BY <3>1, <3>2
    <2>2. CASE Drop
      BY <2>2 DEF Drop
    <2>3. ASSUME live \subseteq live' PROVE Survive
      BY <2>3
    <2>4. ASSUME \/ \E declared \in Declarations : Reconcile(declared)
                 \/ RemovalDone \/ Build \/ Finish
          PROVE  live \subseteq live'
      BY <2>4 DEF Reconcile, RemovalDone, Build, Finish
    <2>5. QED
      BY <2>1, <2>2, <2>3, <2>4 DEF Next
  <1>2. QED
    BY <1>1, RegistryHolds, PTL DEF Spec, RetainedSourcesSurvive

=============================================================================
