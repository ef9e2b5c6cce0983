------------------------ MODULE SubscriptionRegistry ------------------------
(***************************************************************************)
(* The subscriptions of a mounted program (subscription_registry.rs): what *)
(* reconcile does to the handles that keep event sources alive when the    *)
(* model declares another set of keys.                                     *)
(*                                                                         *)
(* All of it runs in one turn of the foreground thread, but dropping a     *)
(* handle and running a builder call code of the application, which sees   *)
(* the sources that are alive at that moment, so each is a step.  Removed  *)
(* handles go in the order of a hash map.                                  *)
(***************************************************************************)
EXTENDS Integers, Sequences, FiniteSets, Subsequences

CONSTANTS
    Keys,     \* keys of subscriptions
    MaxBuilds \* bound: builders run

ASSUME RegistryAssumption == IsFiniteSet(Keys) /\ MaxBuilds \in Nat

VARIABLES
    active,  \* SubscriptionRegistry.active: each key's handle, or NoHandle
    current, \* reconcile's current_active
    next,    \* reconcile's next_active
    builds,  \* reconcile's pending_builds: the keys to build, in order
    phase,   \* "idle", or where reconcile is: "remove", "build"; "dropped"
    stats,   \* SubscriptionReconcileStats of the last reconciliation
    wanted,  \* the keys the model declared last, in order
    live,    \* subscriptions whose event source is alive, with their handles
    built    \* the number of handles made so far

vars == <<active, current, next, builds, phase, stats, wanted, live, built>>

NoHandle == 0
NoHandles == [k \in Keys |-> NoHandle]

Elements(s) == {s[i] : i \in 1..Len(s)}

\* Subscriptions::push rejects a key that is already in the set, so what a model
\* declares is a sequence of distinct keys.
Declarations ==
    {d \in UNION {[1..n -> Keys] : n \in 0..Cardinality(Keys)} :
        \A i, j \in DOMAIN d : d[i] = d[j] => i = j}

Held(handles) == {k \in Keys : handles[k] # NoHandle}

TypeOK ==
    /\ active \in [Keys -> Nat]
    /\ current \in [Keys -> Nat]
    /\ next \in [Keys -> Nat]
    /\ builds \in Seq(Keys)
    /\ phase \in {"idle", "remove", "build", "dropped"}
    /\ stats \in [active : Nat, added : Nat, removed : Nat, retained : Nat]
    /\ wanted \in Seq(Keys)
    /\ live \subseteq [key : Keys, handle : Nat]
    /\ built \in Nat

Init ==
    /\ active = NoHandles
    /\ current = NoHandles
    /\ next = NoHandles
    /\ builds = <<>>
    /\ phase = "idle"
    /\ stats = [active |-> 0, added |-> 0, removed |-> 0, retained |-> 0]
    /\ wanted = <<>>
    /\ live = {}
    /\ built = 0

-----------------------------------------------------------------------------

\* Mutant of Diff: a key that is retained is built anew.
DiffRebuilding(declared) ==
    /\ next' = NoHandles
    /\ current' = active
    /\ builds' = declared
    /\ stats' = [active |-> 0, retained |-> 0, added |-> Len(declared),
                 removed |-> Cardinality(Held(active))]

\* Mutant of Diff: the removals are counted as the difference of the two sizes.
DiffBySize(declared) ==
    /\ next' = [k \in Keys |-> IF k \in Elements(declared) THEN active[k] ELSE NoHandle]
    /\ current' = [k \in Keys |-> IF k \in Elements(declared) THEN NoHandle ELSE active[k]]
    /\ builds' = Only(declared, {k \in Keys : active[k] = NoHandle})
    /\ stats' = [active |-> 0, retained |-> Cardinality(Held(active) \cap Elements(declared)),
                 added |-> Len(builds'),
                 removed |-> Cardinality(Held(active)) - Len(declared)]

\* The declared keys that are active keep their handle; the others are to be built;
\* what is left of the active ones is to be removed.
Diff(declared) ==
    LET retained == {k \in Elements(declared) : active[k] # NoHandle}
        new == Only(declared, {k \in Keys : active[k] = NoHandle})
        left == [k \in Keys |-> IF k \in retained THEN NoHandle ELSE active[k]]
    IN  /\ next' = [k \in Keys |-> IF k \in retained THEN active[k] ELSE NoHandle]
        /\ current' = left
        /\ builds' = new
        /\ stats' = [active |-> 0, added |-> Len(new),
                     removed |-> Cardinality(Held(left)),
                     retained |-> Cardinality(retained)]

\* reconcile begins with what subscriptions() returns for the current model.
Reconcile(declared) ==
    /\ phase = "idle"
    /\ built + Len(declared) <= MaxBuilds
    /\ wanted' = declared
    /\ Diff(declared)
    /\ active' = NoHandles
    /\ phase' = "remove"
    /\ UNCHANGED <<live, built>>

\* Mutant of Remove: the handle is kept until the end.
RemoveLater(k) ==
    /\ phase = "remove"
    /\ current[k] # NoHandle
    /\ current' = [current EXCEPT ![k] = NoHandle]
    /\ UNCHANGED <<active, next, builds, phase, stats, wanted, live, built>>

\* The handle of a key that is no longer declared is dropped, and its source with it.
Remove(k) ==
    /\ phase = "remove"
    /\ current[k] # NoHandle
    /\ live' = live \ {[key |-> k, handle |-> current[k]]}
    /\ current' = [current EXCEPT ![k] = NoHandle]
    /\ UNCHANGED <<active, next, builds, phase, stats, wanted, built>>

\* Mutant of RemovalDone: building does not wait for the removals.
RemovalDoneEarly ==
    /\ phase = "remove"
    /\ phase' = "build"
    /\ UNCHANGED <<active, current, next, builds, stats, wanted, live, built>>

RemovalDone ==
    /\ phase = "remove"
    /\ Held(current) = {}
    /\ phase' = "build"
    /\ UNCHANGED <<active, current, next, builds, stats, wanted, live, built>>

\* The builder of the next new key runs and returns a handle.
Build ==
    /\ phase = "build"
    /\ builds # <<>>
    /\ builds' = Tail(builds)
    /\ built' = built + 1
    /\ next' = [next EXCEPT ![Head(builds)] = built + 1]
    /\ live' = live \cup {[key |-> Head(builds), handle |-> built + 1]}
    /\ UNCHANGED <<active, current, phase, stats, wanted>>

\* The new registry takes effect.
Finish ==
    /\ phase = "build"
    /\ builds = <<>>
    /\ active' = next
    /\ next' = NoHandles
    /\ stats' = [stats EXCEPT !.active = Cardinality(Held(next))]
    /\ phase' = "idle"
    /\ UNCHANGED <<current, builds, wanted, live, built>>

\* The runtime is dropped with the registry and every handle in it.
Drop ==
    /\ phase = "idle"
    /\ phase' = "dropped"
    /\ live' = live \ {[key |-> k, handle |-> active[k]] : k \in Held(active)}
    /\ active' = NoHandles
    /\ UNCHANGED <<current, next, builds, stats, wanted, built>>

Next ==
    \/ \E declared \in Declarations : Reconcile(declared)
    \/ \E k \in Keys : Remove(k)
    \/ RemovalDone
    \/ Build
    \/ Finish
    \/ Drop

Spec == Init /\ [][Next]_vars

-----------------------------------------------------------------------------
(* Properties.                                                             *)

\* "Removed keys drop their handles first so a replacement key can rebuild immediately
\* without double-subscribing" (reconcile): while builders run, whatever is alive is
\* declared, and no key ever has two sources.
NoDoubleSubscription ==
    /\ phase = "build" => \A s \in live : s.key \in Elements(wanted)
    /\ \A s, t \in live : s.key = t.key => s = t

\* Between reconciliations the sources alive are those of the keys the model declared,
\* each held by the registry, and the count reported is theirs; a dropped program
\* leaves no source behind.
RegistryFollowsModel ==
    /\ phase = "idle" =>
         /\ Held(active) = Elements(wanted)
         /\ live = {[key |-> k, handle |-> active[k]] : k \in Held(active)}
         /\ stats.active = Cardinality(live)
         /\ stats.active = stats.added + stats.retained
    /\ phase = "dropped" => live = {}

\* A source that runs is never stopped while its key stays declared, so a retained
\* subscription misses no event: a step ends a source only for a key that the model
\* no longer declares, or with the program.
RetainedSourcesSurvive ==
    [][\A s \in live :
         s \notin live' => s.key \notin Elements(wanted) \/ phase' = "dropped"]_vars

=============================================================================
