--------------------------- MODULE EffectTracking ---------------------------
(***************************************************************************)
(* The effects of a program that run, and the two registries that track    *)
(* them: keyed tasks (keyed_tasks.rs), where the newest command of a key   *)
(* wins, and effects without a key (PendingEffects, runtime.rs), which     *)
(* always deliver.  The calls come from execute_command, from              *)
(* apply_completion (program.rs) and from the drop of the runtime.         *)
(*                                                                         *)
(* Dropping a Task asks the executor to cancel its future.  The future may *)
(* still have been on its way to apply_completion, so a future that is no  *)
(* longer tracked either completes or disappears.  Generations and effect  *)
(* ids do not wrap here: both are u64 counters.                            *)
(***************************************************************************)
EXTENDS Integers

CONSTANTS
    Keys,     \* keys of keyed effects
    MaxKeyed, \* bound: keyed effects started
    MaxEffects \* bound: effects without a key started

ASSUME EffectBoundAssumption == MaxKeyed \in Nat /\ MaxEffects \in Nat

VARIABLES
    nextGeneration, \* KeyedTasks.next_generation
    tasks,          \* KeyedTasks.active: the generation of each key's task, or 0
    nextEffectId,   \* PendingEffects.next_effect_id
    effects,        \* PendingEffects.active
    running,        \* CompletionContext of each effect whose future exists
    newest,         \* history: the generation of each key's newest start
    delivered       \* history: keyed completions that were not stale, with the
                    \* newest start of the key at that moment

effectVars ==
    <<nextGeneration, tasks, nextEffectId, effects, running, newest, delivered>>

NoTask == 0

Keyed(k, g) == [context |-> "Keyed", key |-> k, generation |-> g]
NonKeyed(id) == [context |-> "NonKeyed", id |-> id]

KeyedContexts == [context : {"Keyed"}, key : Keys, generation : Nat]
NonKeyedContexts == [context : {"NonKeyed"}, id : Nat]

EffectTypeOK ==
    /\ nextGeneration \in Nat
    /\ tasks \in [Keys -> Nat]
    /\ nextEffectId \in Nat
    /\ effects \subseteq Nat
    /\ running \subseteq KeyedContexts \cup NonKeyedContexts
    /\ newest \in [Keys -> Nat]
    /\ delivered \subseteq [key : Keys, generation : Nat, newest : Nat]

EffectInit ==
    /\ nextGeneration = 0
    /\ tasks = [k \in Keys |-> NoTask]
    /\ nextEffectId = 0
    /\ effects = {}
    /\ running = {}
    /\ newest = [k \in Keys |-> 0]
    /\ delivered = {}

-----------------------------------------------------------------------------
(* Commands.                                                               *)

\* Mutant of StartKeyed: generations are counted per key and forgotten with the entry.
StartKeyedPerKey(k) ==
    /\ nextGeneration < MaxKeyed
    /\ nextGeneration' = nextGeneration + 1
    /\ tasks' = [tasks EXCEPT ![k] = tasks[k] + 1]
    /\ running' = running \cup {Keyed(k, tasks[k] + 1)}
    /\ newest' = [newest EXCEPT ![k] = tasks[k] + 1]
    /\ UNCHANGED <<nextEffectId, effects, delivered>>

\* CommandInner::Keyed: the task of the new generation replaces the key's entry,
\* and a previous Task is dropped.
StartKeyed(k) ==
    /\ nextGeneration < MaxKeyed
    /\ nextGeneration' = nextGeneration + 1
    /\ tasks' = [tasks EXCEPT ![k] = nextGeneration + 1]
    /\ running' = running \cup {Keyed(k, nextGeneration + 1)}
    /\ newest' = [newest EXCEPT ![k] = nextGeneration + 1]
    /\ UNCHANGED <<nextEffectId, effects, delivered>>

\* CommandInner::Cancel: the key's entry, if there is one, is removed and dropped.
CancelKeyed(k) ==
    /\ tasks' = [tasks EXCEPT ![k] = NoTask]
    /\ UNCHANGED <<nextGeneration, nextEffectId, effects, running, newest, delivered>>

\* CommandInner::Effect.
StartEffect ==
    /\ nextEffectId < MaxEffects
    /\ nextEffectId' = nextEffectId + 1
    /\ effects' = effects \cup {nextEffectId + 1}
    /\ running' = running \cup {NonKeyed(nextEffectId + 1)}
    /\ UNCHANGED <<nextGeneration, tasks, newest, delivered>>

-----------------------------------------------------------------------------
(* Completions.                                                            *)

\* Mutant of IsCurrent: any task of the key will do.
IsCurrentAny(r) == tasks[r.key] # NoTask

\* KeyedTasks::is_current.
IsCurrent(r) == tasks[r.key] # NoTask /\ tasks[r.key] = r.generation

\* Mutant of CompleteCurrent: the entry is not cleared.
CompleteCurrentUncleared(r) ==
    /\ r \in running /\ r.context = "Keyed"
    /\ IsCurrent(r)
    /\ running' = running \ {r}
    /\ delivered' = delivered \cup
         {[key |-> r.key, generation |-> r.generation, newest |-> newest[r.key]]}
    /\ UNCHANGED <<nextGeneration, tasks, nextEffectId, effects, newest>>

\* apply_completion of a keyed effect that is current: its entry is cleared.
CompleteCurrent(r) ==
    /\ r \in running /\ r.context = "Keyed"
    /\ IsCurrent(r)
    /\ tasks' = [tasks EXCEPT ![r.key] = NoTask]
    /\ running' = running \ {r}
    /\ delivered' = delivered \cup
         {[key |-> r.key, generation |-> r.generation, newest |-> newest[r.key]]}
    /\ UNCHANGED <<nextGeneration, nextEffectId, effects, newest>>

\* apply_completion of a keyed effect that is not: it is ignored.
CompleteStale(r) ==
    /\ r \in running /\ r.context = "Keyed"
    /\ ~IsCurrent(r)
    /\ running' = running \ {r}
    /\ UNCHANGED <<nextGeneration, tasks, nextEffectId, effects, newest, delivered>>

\* The executor drops the future of a Task that was dropped: a replaced or canceled
\* keyed effect never reaches apply_completion.
Reap(r) ==
    /\ r \in running /\ r.context = "Keyed"
    /\ ~IsCurrent(r)
    /\ running' = running \ {r}
    /\ UNCHANGED <<nextGeneration, tasks, nextEffectId, effects, newest, delivered>>

\* apply_completion of an effect without a key.
CompleteEffect(r) ==
    /\ r \in running /\ r.context = "NonKeyed"
    /\ effects' = effects \ {r.id}
    /\ running' = running \ {r}
    /\ UNCHANGED <<nextGeneration, tasks, nextEffectId, newest, delivered>>

\* The runtime is dropped, and with it every tracked Task.  Nothing starts or
\* completes afterwards, so this is a step of the program that owns the registries.
DropTasks ==
    /\ tasks' = [k \in Keys |-> NoTask]
    /\ effects' = {}
    /\ running' = {}
    /\ UNCHANGED <<nextGeneration, nextEffectId, newest, delivered>>

-----------------------------------------------------------------------------

EffectNext ==
    \/ \E k \in Keys : StartKeyed(k) \/ CancelKeyed(k)
    \/ StartEffect
    \/ \E r \in running :
         CompleteCurrent(r) \/ CompleteStale(r) \/ Reap(r) \/ CompleteEffect(r)

EffectSpec == EffectInit /\ [][EffectNext]_effectVars

-----------------------------------------------------------------------------
(* Properties.                                                             *)

\* A completion that reaches the model is that of the newest command of its key:
\* "latest wins" (command.rs), whatever was replaced, canceled or started again
\* under the same key in between.
LatestWins == \A c \in delivered : c.generation = c.newest

\* Every entry of the two registries belongs to a future that exists.  An entry left
\* behind would keep a key busy for ever, an effect without an entry would fail the
\* debug_assert of apply_completion (program.rs).
EntriesHaveFutures ==
    /\ \A k \in Keys : tasks[k] # NoTask => Keyed(k, tasks[k]) \in running
    /\ effects = {r.id : r \in {x \in running : x.context = "NonKeyed"}}

\* A canceled or replaced generation never becomes current again: the entry of a key
\* only ever changes to a generation that no task had before (TaskGeneration::next).
NoGenerationReturns ==
    [][\A k \in Keys : tasks'[k] \notin {tasks[k], NoTask} => tasks'[k] > nextGeneration]_effectVars

=============================================================================
