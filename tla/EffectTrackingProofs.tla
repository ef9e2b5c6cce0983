------------------------ MODULE EffectTrackingProofs ------------------------
(***************************************************************************)
(* Proofs about EffectTracking, for every set of keys and any number of    *)
(* effects.  The lemmas about one action each are also what ProgramProofs  *)
(* uses, where the program drives the registries.                          *)
(***************************************************************************)
EXTENDS EffectTracking, TLAPS

\* Two contexts of running effects are equal when they agree on what they carry.
LEMMA ContextFacts ==
    ASSUME EffectTypeOK
    PROVE  /\ \A r \in running : r.context \in {"Keyed", "NonKeyed"}
           /\ \A r \in running : r.context = "Keyed" =>
                /\ r.key \in Keys /\ r.generation \in Nat
                /\ r = Keyed(r.key, r.generation)
           /\ \A r \in running : r.context = "NonKeyed" =>
                r.id \in Nat /\ r = NonKeyed(r.id)
           /\ \A k, l, g, h : Keyed(k, g) = Keyed(l, h) => k = l /\ g = h
           /\ \A k, g, i : Keyed(k, g) # NonKeyed(i)
           /\ \A k, g : Keyed(k, g).context = "Keyed" /\ Keyed(k, g).generation = g
           /\ \A i : NonKeyed(i).context = "NonKeyed" /\ NonKeyed(i).id = i
  <1>1. ASSUME NEW r \in running
        PROVE  /\ r.context \in {"Keyed", "NonKeyed"}
               /\ r.context = "Keyed" =>
                    /\ r.key \in Keys /\ r.generation \in Nat
                    /\ r = Keyed(r.key, r.generation)
               /\ r.context = "NonKeyed" => r.id \in Nat /\ r = NonKeyed(r.id)
    <2>1. CASE r \in KeyedContexts
      BY <2>1 DEF KeyedContexts, Keyed
    <2>2. CASE r \in NonKeyedContexts
      BY <2>2 DEF NonKeyedContexts, NonKeyed
    <2>3. QED
      BY <2>1, <2>2 DEF EffectTypeOK
  <1>2. QED
    BY <1>1 DEF Keyed, NonKeyed

-----------------------------------------------------------------------------
(* Types.                                                                  *)

LEMMA EffectTypeInit == EffectInit => EffectTypeOK
  BY DEF EffectInit, EffectTypeOK, NoTask

LEMMA StartKeyedType ==
    ASSUME EffectTypeOK, NEW k \in Keys, StartKeyed(k)
    PROVE  EffectTypeOK'
  <1>1. Keyed(k, nextGeneration + 1) \in KeyedContexts
    BY DEF EffectTypeOK, Keyed, KeyedContexts
  <1>2. QED
    BY <1>1 DEF EffectTypeOK, StartKeyed

LEMMA CancelKeyedType ==
    ASSUME EffectTypeOK, NEW k \in Keys, CancelKeyed(k)
    PROVE  EffectTypeOK'
  BY DEF EffectTypeOK, CancelKeyed, NoTask

LEMMA StartEffectType ==
    ASSUME EffectTypeOK, StartEffect
    PROVE  EffectTypeOK'
  <1>1. NonKeyed(nextEffectId + 1) \in NonKeyedContexts
    BY DEF EffectTypeOK, NonKeyed, NonKeyedContexts
  <1>2. QED
    BY <1>1 DEF EffectTypeOK, StartEffect

LEMMA CompletionType ==
    ASSUME EffectTypeOK, NEW r \in running,
           CompleteCurrent(r) \/ CompleteStale(r) \/ Reap(r) \/ CompleteEffect(r)
    PROVE  EffectTypeOK'
  <1>1. CASE CompleteCurrent(r)
    <2>1. r.key \in Keys /\ r.generation \in Nat
      BY <1>1, ContextFacts DEF CompleteCurrent
    <2>2. [key |-> r.key, generation |-> r.generation, newest |-> newest[r.key]]
            \in [key : Keys, generation : Nat, newest : Nat]
      BY <2>1 DEF EffectTypeOK
    <2>3. QED
      BY <1>1, <2>1, <2>2 DEF CompleteCurrent, EffectTypeOK, NoTask
  <1>2. CASE CompleteStale(r) \/ Reap(r)
    BY <1>2 DEF CompleteStale, Reap, EffectTypeOK
  <1>3. CASE CompleteEffect(r)
    BY <1>3 DEF CompleteEffect, EffectTypeOK
  <1>4. QED
    BY <1>1, <1>2, <1>3

LEMMA EffectTypeStep == EffectTypeOK /\ [EffectNext]_effectVars => EffectTypeOK'
  <1> SUFFICES ASSUME EffectTypeOK, [EffectNext]_effectVars PROVE EffectTypeOK'
    OBVIOUS
  <1>1. CASE UNCHANGED effectVars
    BY <1>1 DEF EffectTypeOK, effectVars
  <1>2. QED
    BY <1>1, StartKeyedType, CancelKeyedType, StartEffectType, CompletionType
       DEF EffectNext

\* The registries and the effects that run have the types EffectTypeOK states.
THEOREM EffectTypesCorrect == EffectSpec => []EffectTypeOK
  <1>1. QED
    BY EffectTypeInit, EffectTypeStep, PTL DEF EffectSpec

-----------------------------------------------------------------------------
(* The newest command of a key wins.                                       *)

\* LatestWins is not inductive: what makes the next completion the newest one is
\* that a key's entry, while there is one, is that of the key's newest start, even
\* when the key was canceled or completed in between.
NewestTracked ==
    /\ LatestWins
    /\ \A k \in Keys : tasks[k] # NoTask => tasks[k] = newest[k]

LEMMA NewestTrackedInit == EffectInit => NewestTracked
  BY DEF EffectInit, NewestTracked, LatestWins

LEMMA CommandNewest ==
    ASSUME EffectTypeOK, NewestTracked,
           (\E k \in Keys : StartKeyed(k) \/ CancelKeyed(k)) \/ StartEffect
    PROVE  NewestTracked'
  <1>1. ASSUME NEW k \in Keys, StartKeyed(k) PROVE NewestTracked'
    BY <1>1 DEF EffectTypeOK, NewestTracked, LatestWins, StartKeyed
  <1>2. ASSUME NEW k \in Keys, CancelKeyed(k) PROVE NewestTracked'
    BY <1>2 DEF EffectTypeOK, NewestTracked, LatestWins, CancelKeyed
  <1>3. CASE StartEffect
    BY <1>3 DEF NewestTracked, LatestWins, StartEffect
  <1>4. QED
    BY <1>1, <1>2, <1>3

LEMMA CompletionNewest ==
    ASSUME EffectTypeOK, NewestTracked, NEW r \in running,
           CompleteCurrent(r) \/ CompleteStale(r) \/ Reap(r) \/ CompleteEffect(r)
    PROVE  NewestTracked'
  <1>1. CASE CompleteCurrent(r)
    <2>1. r.key \in Keys /\ r.generation = newest[r.key]
      BY <1>1, ContextFacts DEF CompleteCurrent, IsCurrent, NewestTracked
    <2>2. LatestWins'
      BY <1>1, <2>1 DEF CompleteCurrent, NewestTracked, LatestWins
    <2>3. \A k \in Keys : tasks'[k] # NoTask => tasks'[k] = newest'[k]
      BY <1>1, <2>1 DEF CompleteCurrent, NewestTracked, EffectTypeOK
    <2>4. QED
      BY <2>2, <2>3 DEF NewestTracked
  <1>2. CASE CompleteStale(r) \/ Reap(r)
    BY <1>2 DEF CompleteStale, Reap, NewestTracked, LatestWins
  <1>3. CASE CompleteEffect(r)
    BY <1>3 DEF CompleteEffect, NewestTracked, LatestWins
  <1>4. QED
    BY <1>1, <1>2, <1>3

\* A completion that reaches the model is that of the newest command of its key, for
\* any number of starts, cancellations and completions under any number of keys.
THEOREM LatestAlwaysWins == EffectSpec => []LatestWins
  <1>1. EffectTypeOK /\ NewestTracked /\ [EffectNext]_effectVars => NewestTracked'
    <2>1. CASE UNCHANGED effectVars
      BY <2>1 DEF NewestTracked, LatestWins, effectVars
    <2>2. QED
      BY <2>1, CommandNewest, CompletionNewest DEF EffectNext
  <1>2. NewestTracked => LatestWins
    BY DEF NewestTracked
  <1>3. QED
    BY <1>1, <1>2, NewestTrackedInit, EffectTypesCorrect, PTL DEF EffectSpec

-----------------------------------------------------------------------------
(* The registries and the futures.                                         *)

LEMMA EntriesInit == EffectInit => EntriesHaveFutures
  BY DEF EffectInit, EntriesHaveFutures

LEMMA CommandEntries ==
    ASSUME EffectTypeOK, EntriesHaveFutures,
           (\E k \in Keys : StartKeyed(k) \/ CancelKeyed(k)) \/ StartEffect
    PROVE  EntriesHaveFutures'
  <1>1. ASSUME NEW k \in Keys, StartKeyed(k) PROVE EntriesHaveFutures'
    <2>1. \A l \in Keys : tasks'[l] # NoTask => Keyed(l, tasks'[l]) \in running'
      BY <1>1 DEF StartKeyed, EntriesHaveFutures, EffectTypeOK
    <2>2. {x \in running' : x.context = "NonKeyed"} = {x \in running : x.context = "NonKeyed"}
      BY <1>1, ContextFacts DEF StartKeyed
    <2>3. QED
      BY <1>1, <2>1, <2>2 DEF StartKeyed, EntriesHaveFutures
  <1>2. ASSUME NEW k \in Keys, CancelKeyed(k) PROVE EntriesHaveFutures'
    BY <1>2 DEF CancelKeyed, EntriesHaveFutures, EffectTypeOK
  <1>3. CASE StartEffect
    <2>1. {x \in running' : x.context = "NonKeyed"}
            = {x \in running : x.context = "NonKeyed"} \cup {NonKeyed(nextEffectId + 1)}
      BY <1>3, ContextFacts DEF StartEffect
    <2>2. effects' = {r.id : r \in {x \in running' : x.context = "NonKeyed"}}
      BY <1>3, <2>1, ContextFacts DEF StartEffect, EntriesHaveFutures
    <2>3. QED
      BY <1>3, <2>2 DEF StartEffect, EntriesHaveFutures
  <1>4. QED
    BY <1>1, <1>2, <1>3

LEMMA CompletionEntries ==
    ASSUME EffectTypeOK, EntriesHaveFutures, NEW r \in running,
           CompleteCurrent(r) \/ CompleteStale(r) \/ Reap(r) \/ CompleteEffect(r)
    PROVE  EntriesHaveFutures'
  <1>1. ASSUME r.context = "Keyed", running' = running \ {r}, effects' = effects
        PROVE  effects' = {x.id : x \in {y \in running' : y.context = "NonKeyed"}}
    <2>1. {x \in running' : x.context = "NonKeyed"} = {x \in running : x.context = "NonKeyed"}
      BY <1>1
    <2>2. QED
      BY <1>1, <2>1 DEF EntriesHaveFutures
  <1>2. CASE CompleteCurrent(r)
    <2>1. r.key \in Keys /\ r = Keyed(r.key, r.generation)
      BY <1>2, ContextFacts DEF CompleteCurrent
    <2>2. ASSUME NEW k \in Keys, tasks'[k] # NoTask PROVE Keyed(k, tasks'[k]) \in running'
      <3>1. k # r.key /\ tasks'[k] = tasks[k]
        BY <1>2, <2>1, <2>2 DEF CompleteCurrent, EffectTypeOK
      <3>2. Keyed(k, tasks[k]) \in running /\ Keyed(k, tasks[k]) # r
        BY <2>1, <2>2, <3>1, ContextFacts DEF EntriesHaveFutures
      <3>3. QED
        BY <1>2, <3>1, <3>2 DEF CompleteCurrent
    <2>3. QED
      BY <1>1, <1>2, <2>2 DEF CompleteCurrent, EntriesHaveFutures
  <1>3. CASE CompleteStale(r) \/ Reap(r)
    <2>1. /\ r.context = "Keyed" /\ ~IsCurrent(r) /\ running' = running \ {r}
          /\ tasks' = tasks /\ effects' = effects
      BY <1>3 DEF CompleteStale, Reap
    <2>2. r.key \in Keys /\ r = Keyed(r.key, r.generation)
      BY <2>1, ContextFacts
    <2>3. ASSUME NEW k \in Keys, tasks[k] # NoTask PROVE Keyed(k, tasks[k]) \in running'
      <3>1. Keyed(k, tasks[k]) \in running
        BY <2>3 DEF EntriesHaveFutures
      <3>2. Keyed(k, tasks[k]) # r
        BY <2>1, <2>2, <2>3, ContextFacts DEF IsCurrent
      <3>3. QED
        BY <2>1, <3>1, <3>2
    <2>4. QED
      BY <1>1, <2>1, <2>3 DEF EntriesHaveFutures
  <1>4. CASE CompleteEffect(r)
    <2>1. /\ r.context = "NonKeyed" /\ running' = running \ {r}
          /\ tasks' = tasks /\ effects' = effects \ {r.id} /\ r = NonKeyed(r.id)
      BY <1>4, ContextFacts DEF CompleteEffect
    <2>2. \A k \in Keys : tasks[k] # NoTask => Keyed(k, tasks[k]) \in running'
      BY <2>1, ContextFacts DEF EntriesHaveFutures
    <2>3. \A x \in running : x.context = "NonKeyed" => (x.id = r.id <=> x = r)
      BY <2>1, ContextFacts
    <2>4. effects' = {x.id : x \in {y \in running' : y.context = "NonKeyed"}}
      BY <2>1, <2>3 DEF EntriesHaveFutures
    <2>5. QED
      BY <2>1, <2>2, <2>4 DEF EntriesHaveFutures
  <1>5. QED
    BY <1>2, <1>3, <1>4

\* Every entry of the registries belongs to a future that exists, and every effect
\* without a key that runs is tracked, in whatever order effects start and end.
THEOREM EntriesAlwaysHaveFutures == EffectSpec => []EntriesHaveFutures
  <1>1. EffectTypeOK /\ EntriesHaveFutures /\ [EffectNext]_effectVars => EntriesHaveFutures'
    <2>1. CASE UNCHANGED effectVars
      BY <2>1 DEF EntriesHaveFutures, effectVars
    <2>2. QED
      BY <2>1, CommandEntries, CompletionEntries DEF EffectNext
  <1>2. QED
    BY <1>1, EntriesInit, EffectTypesCorrect, PTL DEF EffectSpec

-----------------------------------------------------------------------------
(* Generations.                                                            *)

\* The entry of a key only changes to a generation that no task had before, so what
\* was canceled or replaced never becomes current again.
THEOREM GenerationsNeverReturn == EffectSpec => NoGenerationReturns
  <1> DEFINE Fresh == \A k \in Keys :
                        tasks'[k] \notin {tasks[k], NoTask} => tasks'[k] > nextGeneration
  <1>1. EffectTypeOK /\ [EffectNext]_effectVars => [Fresh]_effectVars
    <2> SUFFICES ASSUME EffectTypeOK, EffectNext PROVE Fresh
      OBVIOUS
    <2>1. ASSUME NEW k \in Keys, StartKeyed(k) PROVE Fresh
      BY <2>1 DEF StartKeyed, EffectTypeOK
    <2>2. ASSUME NEW k \in Keys, CancelKeyed(k) PROVE Fresh
      BY <2>2 DEF CancelKeyed, EffectTypeOK
    <2>3. CASE StartEffect
      BY <2>3 DEF StartEffect
    <2>4. ASSUME NEW r \in running,
                 CompleteCurrent(r) \/ CompleteStale(r) \/ Reap(r) \/ CompleteEffect(r)
          PROVE  Fresh
      BY <2>4 DEF CompleteCurrent, CompleteStale, Reap, CompleteEffect, EffectTypeOK
    <2>5. QED
      BY <2>1, <2>2, <2>3, <2>4 DEF EffectNext
  <1>2. QED
    BY <1>1, EffectTypesCorrect, PTL DEF EffectSpec, NoGenerationReturns

=============================================================================
