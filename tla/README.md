# gpui_tea: models and proofs

`gpui_tea` runs a Model–Update–View program inside GPUI. Threads send messages through
`Dispatcher`s; the mounted `Program` drains them on GPUI's foreground thread, gives each one to
`Model::update`, executes the `Command` it returns, and reconciles the model's subscriptions.
This directory holds TLA+ modules of that runtime, TLC configurations that check them on small
instances, and TLAPS proofs for every instance. Paths below are relative to
`crates/gpui_tea/src/`, unless they name the repository's own `README.md`.

## Inventory

| Component | State | Operations | Correct when |
|---|---|---|---|
| Message queue: `queue.rs`, `dispatcher.rs`, `observability/policy.rs` | `QueueControl` under one mutex (policy, next id, active, inbox, dropped, internal count, closed, waker) | `offer`, `poll_take`, `begin_processing`, `internal_enqueued`, `internal_dequeued`, `close` | no accepted message is lost, duplicated or reordered; the bound holds; the depth is exact; no wakeup is lost |
| Program: `program.rs`, `runtime.rs` | pending queue, drain flag, suspension depth, deferred drain | `mount_with`, `receive_external`, `enqueue_internal_message`, `drain_queue`, `execute_command`, `apply_completion`, drop | nothing is stranded between two turns; a turn ends; internal messages are delivered; subscriptions follow the model |
| Effect registries: `keyed_tasks.rs`, `runtime.rs` | generation per key, effect ids in flight | insert, cancel, `is_current`, `clear_current`, `finish` | the newest command of a key wins; no entry outlives its future |
| Subscription registry: `subscription_registry.rs`, `subscription.rs` | handle and label per key | `reconcile` | the built keys are the model's keys; old handles go before new builders run |
| Metrics and tracing adapters: `observability/adapters.rs`, `observability/mod.rs` | gauge contribution per program | `observe` on any thread | the series are sums; a contribution follows its program, and goes with it; counters balance; records tell events apart |
| Commands: `command.rs` | none | the constructors, `batch`, `map`, `label`, `scoped` | what is executed is what the author wrote, whatever it was nested in |
| Keys and scopes: `key.rs`, `scope.rs` | none | scoping of keys, commands and subscriptions, lifting of messages | different models never share a key; messages find their model |
| Configuration, events, errors: `observability/config.rs`, `observability/events.rs`, `error.rs` | none | builders and data carriers | each change of the program's bookkeeping is told once to each observer |
| Composite derive: `gpui_tea_macros` | none | parsing a declaration, generating `init`, `update`, `subscriptions` and view helpers | it accepts what is well formed and reports the rest; generated routing brings messages home |
| Models and views: `model.rs`, `view.rs`, `lib.rs` | none | traits of the application | — |

How they interact: a dispatcher calls `QueueTracker::offer` on its own thread and wakes the
receive task; the receive task polls the queue on the foreground thread and hands batches to
the program; the program tells the queue which message it begins to process and how many
internal messages it holds; effects run as tasks and come back through `apply_completion`;
every drain that ran `update` reconciles the subscriptions, whose builders may dispatch. A model
that derives `Composite` hands each message to the child whose `extract` takes it, and what a
child returns passes its `ChildScope`, which scopes the keys and lifts the messages. All
components but the queue and the metrics adapter are used by one thread only, but their turns
interleave in any order.

What is hard here: the queue's critical sections race with each other and with `wake()`, which
is called outside the lock; a message may be displaced at any point of its way through two
queues; drains end early on a budget and continue in a later turn; completions arrive after
their command was replaced or canceled; a program may be released between any two turns
while dispatchers live on; dispatchers report what they did after it may be history; and
nested models use the same local keys, which only scoping keeps apart. `PROJECT.json` lists these hazards one by one, with the properties
that cover them.

## Modules

| Module | Models | Composed of |
|---|---|---|
| `QueueTracker` | the queue, the dispatch closure, the receive task | `INSTANCE Mailbox` as its abstract specification |
| `Mailbox` | what the policy promises: one bounded first-in first-out mailbox, and what it may hand back | — |
| `EffectTracking` | keyed tasks and effects without a key | — |
| `Program` | mounting, turns, the drain loop, commands, completions, unmounting | `EXTENDS EffectTracking`, `INSTANCE QueueTracker` |
| `ProgramTurns` | what a turn may do at most and does at least: histories beside `Program` | `EXTENDS Program` |
| `SubscriptionRegistry` | one reconciliation after another | — |
| `MetricsGauges` | building and applying telemetry events, the adapter's gauges | — |
| `Telemetry` | every event, who gets it, and what its readers can know | `EXTENDS EffectTracking` |
| `ScopedKeys` | paths, keys, contexts | — |
| `Commands` | the constructors and the algebra of commands | `EXTENDS ScopedKeys` |
| `CompositeDerive` | the parser of `derive(Composite)` | — |
| `Composite` | compiling, mounting and running nested models | `EXTENDS CompositeDerive, Commands` |
| `Subsequences` | `Only(s, S)`: the elements of a sequence that are in a set, in order | used by `QueueTracker`, `Program`, `SubscriptionRegistry`, `CompositeDerive` |
| `Sums` | `Total(f, S)`: the sum of a function over a finite set | used by `MetricsGauges`, `Telemetry` |
| `MCQueueTracker`, `MCEffectTracking`, `MCProgram`, `MCProgramTurns`, `MCSubscriptionRegistry`, `MCMetricsGauges`, `MCTelemetry`, `MCComposite` | values for the constants | |
| `CollectionsProofs` | induction on naturals and sequences; lemmas about `Only`, `Total`, folds and recursion | `EXTENDS Subsequences, Sums` |
| `QueueTrackerProofs`, `EffectTrackingProofs`, `SubscriptionRegistryProofs`, `MetricsGaugesProofs`, `TelemetryProofs` | theorems about the module in their name | `EXTENDS` that module |
| `ProgramProofs` | theorems about `Program` and `ProgramTurns` | `EXTENDS ProgramTurns`, `INSTANCE QueueTrackerProofs` |
| `CompositeProofs` | theorems about `Composite`, and about the modules it extends | `EXTENDS Composite`, `INSTANCE CollectionsProofs` |

`Only` and `Total` are there to be reasoned about: a predicate passed to `SelectSeq` or to a fold is an
operator, which the provers cannot instantiate, while a set and a function are ordinary values.

### QueueTracker

One action is one critical section of the mutex. `offer` is four actions, one per outcome:
refused (closed, `RejectNew`, `DropNewest`), accepted, accepted after displacing a message that
waits in the inbox, and accepted after displacing one that the program already took. The waker
is taken inside the lock and called in the later action `Wake(d)`. The receive task is
`scheduled`, `running` between two polls of one turn, `parked` with its waker registered, or
`done`; `poll_take` is `PollTake`, `PollPending` or, when the last `Entity` handle is gone
before the program itself is dropped, `PollTakeUndelivered`. `begin_processing` is
`BeginProcessing` or `SkipDropped`. `Close` is the drop of the runtime, with what goes with it.

Messages are their ids. The program's pending queue appears here as `taken` (its external
messages) and `internals` (the number of the others): the module holds for any order the
program mixes them in. `refused`, `processed`, `displaced` and `discarded` are histories.

In `Mailbox` a refusal is an action too: the mailbox may hand a message back when nobody is
there any more, or when it is full and its policy keeps what it has. So `ImplementsMailbox` also
says that nothing else is refused: `DropOldest` keeps the new message at capacity 0, where there
is nothing to displace, and an empty queue does not make `offer` refuse.

### Program

The drain flag and the suspension depth of `MessageQueue` are the program counter `fg`: a drain
in progress is `fg` in `drain` or `command`, init's transaction is `mount`. A step is what a turn
does up to its next access to the shared queue, so dispatchers get in between any two steps.
`todo` is what is left of the command in execution, with batches flattened in the order in which
`execute_command` visits them. `handled` is a history of what `update` was given.

Each action that touches the queue is the queue's own action (`Queue!BeginProcessing`, ...)
conjoined with what the program does around it. That the composition is again a behaviour of
`QueueTracker` is checked as `ImplementsQueue`.

### ProgramTurns

Some properties are about a whole drain, or about the moment a message was enqueued, which no state
of the program remembers. `TurnSpec` is `Program` with three histories that observe every step and
constrain none: the command that `init` returned, how much was handled when the drain began, and
for each external message how many internal ones were enqueued before it was taken. They say what
the drain loop owes to whom: `DrainsUseTheirBudget` that a drain runs `update` at most as often
as its budget allows, and exactly so often if it leaves anything behind; `AnswersNeverOvertake` that
a model which answers each message with another one cannot put its answers in front of external
messages; `InitComesFirst` that nothing is drained inside the transaction of `init`.

### EffectTracking

Dropping a GPUI `Task` cancels its future, but the future may already be past its last await.
`running` holds every future that exists; one that was replaced or canceled either completes
(`CompleteStale`) or disappears (`Reap`).

The run `effects` is about who wins. The registries' types (`EffectTypeOK`) are part of the type
invariants of `Program` and `Telemetry`, and that entries have futures is checked as
`TrackedWhileMounted`, as a whole program drives the registries. `LatestWins` speaks of generations, so it
relies on `NoGenerationReturns`: a generation that came back would make an old completion look new.

### SubscriptionRegistry

`reconcile` runs within one turn, but dropping a handle and running a builder call code of the
application, so each is a step: `Reconcile(declared)` takes the registry apart (`Diff`), `Remove(k)`
drops one handle (in any order: the code iterates over a hash map), `Build` runs the next builder in
the order of declaration, `Finish` installs the new registry. `active`, `current`, `next` and
`builds` are the code's `self.active`, `current_active`, `next_active` and `pending_builds`; `live`
is what the application sees, the event sources that exist. In `Program` all of this is one step
that makes the subscriptions those of the current model.

### MetricsGauges

The depth in an event is read under the queue's lock when the event is built, and
`update_gauges` runs later under the adapter's own lock: `Emit(a)` and `Observe(a)` are these two
steps of a thread `a`, which emits synchronously and does nothing else in between. The gauges see
only three kinds of events: the unmount, a reconciliation, and all the others, which carry nothing
but the depth. A program is its turns on the foreground thread (`Mount`, `BeginDrain`, `Process`,
`EnqueueInternal`, `Reconcile`, `FinishDrain`, `Unmount`), a dispatch one of three outcomes with
its number of events. An absent entry of the hash map and a zero one are the same to
`update_gauges`, so `gauges` is total.

### Telemetry

Every place that calls `observe_runtime` or `observe_telemetry` is an action: the outcomes of an
offer, the five kinds of commands, drains, reconciliations, completions and the unmount. Three
readers fold what passes through: `known` is an application's `RuntimeObserver`, `log` a reader of
the tracing adapter's records, `meters` a dashboard of the metrics adapter's counters. They know the
vocabulary and nothing else of the program, so a change that is reported twice, not at all or under
another name puts them out of step with the state. Nearly all events go to both enums (`Watch`
and `TracingRecord` see the same sequence); `TelemetryOnly` names the variants `RuntimeEvent` does
not have. On the foreground an event is part of the step that changes the state. A dispatcher
emits after its offer, one event at a time (`Send(t)`), in any interleaving with the program's
turns and the unmount. The queue is reduced to its two counts, since events carry no more of it.
`Tell(readers, e)` is what one event does to the three readers and `Told(readers, events)` what a
sequence does; an event is a record of every field some event has, with `"none"` in those it lacks.

### ScopedKeys and Commands

Operators without state, one for each function of `key.rs`, `scope.rs` and `command.rs`. The runtime
identifier of a scoped key is the sequence of its parts: the code writes each part with its
length in front, so two sequences give the same string only if they are equal. `batch` flattens,
so a batch has no batch in it and `map`, `scoped` and `execute_command` need no recursion here.
An effect is its executor, the model that wrote it and the message it will send, if any.

### CompositeDerive and Composite

`ParseComposite` is the parser, with one operator per function of `parser.rs`: folds over the
attributes and their metas that fill slots and accumulate errors. A declaration is what `syn`
gives: forms, names and values of metas; spans and wording are left out, the place of an error is
the field it is at. Where the code's conditions overlap, the order in which it tests them is an
`IF` in the model: a `CASE` of which two guards hold may take either, and says nothing definite.

`Composite` starts from a declaration: `Derive` compiles it or rejects it, `Mount` runs the generated
`init` of all models and executes what it returns, `Process` routes a message from the root down and
lifts the reply on the way up, and effects, subscriptions and views send messages. A model is known
by the positions of the fields on the way to it; the messages it sends to itself are lifted by the
`lift` of every level (`route`), and each level's `extract` takes the ones its constructor matches.
All models use the same local key on purpose. Turns are single steps and the queue is
one sequence: their interleavings are the subject of `Program`. The histories `replied`, `executed`
and `handled` are of the last turn, and `busy` is what the models would have in flight if each were
alone.

## Runs

| Run | Instance | States | Question |
|---|---|---|---|
| `queue` | 2 dispatchers, 4 policies with capacities 0 to 2, 5 dispatches, 1 internal message | 11,627 | does the queue keep every promise whatever races on it? |
| `effects` | 2 keys, 4 keyed starts, 2 plain effects | 15,239 | does the newest command of a key win in every order? |
| `program_drain` | 1 dispatcher, unbounded and bounded policies, budgets 1 and 2, 3 dispatches, 3 internal messages, 1 effect, updates and `init` that return a message or a batch | 148,255 | does every turn leave the program in order, what may it do at most and at least, and is every message settled? |
| `program_load` | 2 dispatchers, unbounded and bounded policies; 8 dispatches without commands, or 2 with keyed batches (replace, cancel then start), 3 generations and 1 plain effect | 810,110 | do displaced messages pile up under a flood, and do the registries hold up when a whole program drives them? |
| `subscriptions` | 3 keys, every sequence of distinct keys declared, 6 builds | 5,719 | does a reconciliation ever double, lose or disturb a source? |
| `metrics` | 2 programs sharing labels, the foreground and 1 other thread, depth 2, 1 subscription | 1,145,469 | are the gauges a sum, and exact where nothing races? |
| `composite` | 1,562 declarations of one to three fields, among them two levels with equal paths, 8 kinds of replies, 1 message pending, 2 effects in flight | 22,804 | does the derive accept the right declarations, and do nested models run undisturbed by each other? |
| `telemetry` | 2 dispatching threads, 4 policies, 2 keys, 2 keyed starts and 1 other effect, 1 subscription, depth 2 per origin | 1,084,292 | can an observer reconstruct the program's bookkeeping from its events? |
| `program_backlog` | `DropOldest(1)`, budget 1, 4 internal messages | violation | is memory bounded when internal messages wait too? |
| `program_order` | unbounded policy, 1 effect | violation | are both origins handled in order of acceptance? |
| `program_yield` | unbounded policy, budget 1, 3 dispatches | violation | is a turn over when the budget is? |
| `metrics_late` | 1 program, the foreground and 1 other thread | violation | does an unmounted program leave the gauges? |

The bounds: capacities 0, 1 and 2 are where displacing differs (nothing to displace, the
displaced message is also the newest, an older one remains); 5 dispatches let a full queue of 2 be
taken, displaced from, refilled and displaced from again; budgets 1 and 2 make a drain end before,
at and after the last pending message. Two dispatchers suffice for the waker: one that holds it,
one that offers meanwhile. Three keys let one reconciliation retain, remove and build at once. One
dispatching thread is enough for a reading to go stale, since it races with the foreground's. Every
bound is a guard (`MaxDispatches`, `MaxInternal`, `MaxKeyed`, `MaxEffects`, `MaxBuilds`, `MaxDepth`,
`MaxSubscriptions`, `MaxPending`, `MaxInFlight`); ids and generations, `u64` in the code, do not
wrap. `program_load` runs `LoadSpec`, which explores long floods only while nothing was emitted or
started, and otherwise no more than `MaxBusyDispatches` dispatches: a flood of 8 is what it takes for two
messages per batch to pile up to three times a bound of 2. For the nested models one pending message is enough, because a turn treats each alone, and
two effects in flight let two models hold the same local key at once. Two levels show what three
would: a path that is joined, a message lifted twice. The declarations of one field are all lists of
up to three metas from eleven, so each slot is filled, filled twice, filled badly and left out, in
every order. For the telemetry two keyed starts let one replace the other or run beside it, and two
threads let one report late while the other overtakes it.

Deadlock is checked in `metrics` and `telemetry`: there a thread can always offer, even to an
unmounted program. Elsewhere the system may stop: a program whose handles are gone, a declaration
that was rejected, or dispatchers that reached their bound.

### Fairness

Weak fairness of `Wake(d)` (a thread that took the waker goes on to call it), of the receive task
and the deferred drain (GPUI's executor runs scheduled tasks), of the steps of a turn that has
begun, and of the drop of a program whose handles are gone. In `QueueTracker`, which does not see
the pending queue's other half, `WF(Drain)` stands for the program's turns; `Program` replaces it
by the fairness of its own steps. Nothing is assumed of dispatchers, effects or `Release`.

### What the four violations show

`MemoryBound` asks for less than three times the policy's bound. `README.md` of the repository says that
displaced messages are released immediately, so that bounded policies bound memory. That is so for
messages still in the inbox, and `program_load` shows that those already taken do not pile up by
themselves (`FloodsAreBounded`). With a backlog of internal messages they do: the drain spends its budget on the
backlog, and each deferred drain lets another batch in behind it.

`StrictFifo` is the sentence of `command.rs` on the order between the two origins. It is true of
the pending queue. An external message still in the inbox is overtaken by an internal one that a
completion enqueues, since completions drain at once.

`YieldsWhenExhausted` is the sentence of `config.rs` on what happens when the budget is exhausted: the
remaining messages are scheduled on the executor. They are, but the receive task does not yield.
It polls the inbox again, and if a dispatcher filled it during the drain, the task takes the
next batch and drains on in the same turn, beginning with the messages that were left for later.
A turn of the receive task is thus one drain for each time it finds the inbox filled. What does hold
is in `program_drain`: each of these drains ends at its budget. A chain of internal messages
alone does yield, since it leaves the inbox empty.

`UnmountedGone` is the adapter's promise that a program's contribution is removed when it emits
`ProgramUnmounted`. It is removed, and a dispatcher that read the depth before the queue was closed
can put it back afterwards; only a later dispatch, which is refused with depth 0, corrects it. What
does hold is checked by `metrics`: the count of subscriptions is always exact, the series are
always the sums of what was recorded, and the depth is exact for programs that no other thread
dispatches to.

## Proofs

A proof module states, for every value of the constants, what the runs check on a small instance.
Each inductive invariant was given to TLC on the run's instance before it was proved.

| Theorem | States |
|---|---|
| **`QueueTrackerProofs`** | |
| `TypeCorrect` | `Spec => []TypeOK` |
| `WindowsHold` | `Spec => []Windows` |
| `InboxSuffix` | `Spec => []InboxIsNewestSuffix` |
| `OrderKept` | `Spec => []DispatchOrder` |
| `CapacityKept` | `Spec => []CapacityRespected` |
| `WakeupKept` | `Spec => []NoLostWakeup` |
| `DepthAlwaysExact` | `Spec => []DepthIsExact` |
| `NothingEverVanishes` | `Spec => []NothingVanishes` |
| `OldestDisplaced` | `Spec => DisplacesOldest` |
| `QueueImplementsMailbox` | `Spec => ImplementsMailbox` |
| **`EffectTrackingProofs`** | |
| `EffectTypesCorrect` | `EffectSpec => []EffectTypeOK` |
| `LatestAlwaysWins` | `EffectSpec => []LatestWins` |
| `EntriesAlwaysHaveFutures` | `EffectSpec => []EntriesHaveFutures` |
| `GenerationsNeverReturn` | `EffectSpec => NoGenerationReturns` |
| **`ProgramProofs`** | |
| `ProgramImplementsQueue` | `Spec => ImplementsQueue` |
| `QueuePromisesKept` | `Spec => []` of the queue's `CapacityRespected`, `DepthIsExact`, `NothingVanishes` |
| `ProgramTypesCorrect` | `Spec => []TypeOK` |
| `LatestWinsInProgram` | `Spec => []LatestWins` |
| `TrackedInProgram` | `Spec => []TrackedWhileMounted` |
| `NothingIsStranded` | `Spec => []NothingStranded` |
| `SubscriptionsAreCurrent` | `Spec => []SubscriptionsFollowModel` |
| `InternalsDelivered` | `Spec => []InternalsAreDelivered` |
| `MemoryIsBounded` | `Spec => []FloodsAreBounded` |
| `DrainsAlwaysUseTheirBudget` | `TurnSpec => []DrainsUseTheirBudget` |
| `AnswersAlwaysWait` | `TurnSpec => []AnswersNeverOvertake` |
| `InitAlwaysComesFirst` | `TurnSpec => []InitComesFirst` |
| **`SubscriptionRegistryProofs`** | |
| `RegistryTypesCorrect` | `Spec => []TypeOK` |
| `NeverDoubleSubscribed` | `Spec => []NoDoubleSubscription` |
| `RegistryAlwaysFollows` | `Spec => []RegistryFollowsModel` |
| `RetainedAlwaysSurvive` | `Spec => RetainedSourcesSurvive` |
| **`MetricsGaugesProofs`** | |
| `GaugeTypesCorrect` | `Spec => []TypeOK` |
| `SeriesAlwaysSum` | `Spec => []SeriesIsSum` |
| `SubscriptionsAlwaysExact` | `Spec => []SubscriptionsExact` |
| `ForegroundAlwaysSettles` | `Spec => []ForegroundSettled` |
| **`TelemetryProofs`** | |
| `TelemetryTypesCorrect` | `Spec => []TypeOK` |
| `ObserversAlwaysKnow` | `Spec => []ObserversKnow` |
| `CountersAlwaysBalance` | `Spec => []CountersBalance` |
| **`CompositeProofs`** | |
| `ParserExactHolds` | `Spec => []ParserExact` |
| `CompositeTypeOK` | `Spec => []TypeOK` |
| `MessagesComeHomeHolds` | `Spec => []MessagesComeHome` |
| `KeysStayApartHolds` | `Spec => []KeysStayApart` |
| `CompositionIsTransparentHolds` | `Spec => []CompositionIsTransparent` |

### Assumptions

`ConfigAssumption` and `PolicyAssumption` say that the policies are values of the code's type,
`CommandAssumption` that commands are sequences of the four kinds of instructions, and
`MetricsAssumption` that each program has labels and that the foreground is not among the other
threads. `RegistryAssumption`, `MetricsAssumption` and `TelemetryAssumption` take keys, programs,
threads and sources to be finite, which memory guarantees, and `KeyAssumption` that the mark for an
absent key is not a key. `InputAssumption` says that a declaration has the form that `syn` gives it, with
any attributes, metas and fields, that a field's type is one of the two kinds of models, and that
the nested one implements `Model`, so its own derive succeeded; `ReplyAssumption` that models reply in
one of the eight ways the module describes. The rest (`BoundAssumption`, `EffectBoundAssumption`, `ProgramBoundAssumption`)
say that bounds are naturals. `BudgetAssumption` is the code's `NonZeroUsize`: a drain that ends on its
budget has processed a message, which `SubscriptionsAreCurrent` and `MemoryIsBounded` rest on.

### The queue

The argument is the inductive invariant `Windows`. Ids are consecutive and messages leave `active`
at its old end only, so three numbers determine the sequences: with `LastSettled = nextId -
Len(active)`, `active` is `LastSettled+1 .. nextId`, the inbox is the last `Len(inbox)` of these,
and `taken` is the interval before the inbox, preceded by `Stale` messages displaced since they
were taken, which are exactly the ids in `dropped`, in increasing order. It is needed because none
of the properties is inductive alone: that `displace_oldest` may compare the front of the inbox
with the front of `active` needs the intervals; that `begin_processing` finds its message at the
front needs that nothing is stale in front of it (lemma `ProcessedIsOldest`), and from that follow
the order of `processed`, the shrinking of `active` by one, and the refinement step `Deliver`.
`DepthIsExact` follows from `Windows` with what `Only` selects from a concatenation: nothing of the
stale part, all of the rest. `NothingVanishes` needs that what leaves `active` enters a history in
the same step. `NoLostWakeup` is inductive as it stands; `CapacityRespected` needs only the lengths.

### Effects

`LatestWins` speaks of completions only, and is not inductive. `NewestTracked` adds that the entry of
a key, while there is one, is that of the key's newest start, also when the key was canceled or
completed in between; generations are never reused, so a stale future cannot match it.
`EntriesHaveFutures` is inductive given the types: a future that ends takes no entry with it unless it
is the entry's own, since contexts with equal parts are equal (`ContextFacts`). The lemmas are
about one action each, because `Program` and `Telemetry` drive the same registries.

### The program

`ProgramImplementsQueue` is a refinement, step by step: with the external messages pending for
`taken`, the number of internal ones for `internals` and the external ones handled for `processed`,
each step of the program is one of the queue or leaves it alone. The theorems of the queue then hold
of the program's queue, through an instance of `QueueTrackerProofs` under the same mapping.

`NothingStranded` follows from `Deferred`: whatever is pending between two turns has a deferred drain
to come. `SubscriptionsFollowModel` is not inductive, since a drain that ends reconciles only
if it ran `update`; `SubscriptionTurns` adds that a drain which did not run it began with current
subscriptions, or is the one of `mount_with`, whose first pending message is internal and is never
skipped. `InternalsAreDelivered` is about the sequence of internal messages in `handled` followed by
`pending`, which a step of the drain moves across and an emission extends at its end.

`MemoryIsBounded` is the README's promise under the condition that the run `program_backlog` shows
to be needed: no internal message was ever emitted (`FloodsAreBounded`). `BatchesBounded` is why: a drain then
skips what was displaced and processes something, so it leaves fewer messages than the policy
allows, all live, and only the batch just taken comes on top.

The three theorems about `ProgramTurns` hold for chains of answers of any length, where the liveness
property needs the bound `MaxInternal`. `DrainMeasured` ties the code's counter to the history: in a
drain, `processedNow` is what was handled since it began, counting the message whose command is being
executed. `InitCovered` says that what `init` returned is what it has done so far and what is left in
`todo`, kind by kind. For `AnswersNeverOvertake`, `Placed` adds to the property that the messages of
`handled` and `pending` are those emitted and taken so far, so a message pushed to the back has a greater
number than any noted in `takenAt` (`PlacesKept`).

### Subscriptions

`RegistryInv` describes `reconcile` at work (`Working`): the handles are in two disjoint parts, those
to be removed, none of which is declared, and those of the new registry, which the builders
still to run complete to the declared keys; the sources that live are those of the two parts; and the counts in
`stats` add up at every step. What the code selects from the declaration is `Only`, so that each key is
built once follows from the lemma on distinct sequences (`OnlyEntries`).

### Gauges

`SeriesIsSum` holds because `observe` changes a program's contribution and its labels' series by
the same amount, in one critical section; two programs may share labels, so it takes the
lemmas on how a sum moves. For `SubscriptionsExact` and `ForegroundSettled` the invariant follows a
report from the step that causes it to the adapter: other threads report depths only
(`ThreadsArePlain`); a report of the foreground that changes the count comes alone, and an unmount
after the program is gone (`ReportsComeAlone`); an event of the foreground is still true when it is
applied (`EventsAreCurrent`); so a gauge is either right or about to be corrected (`GaugesFollow`).

### Telemetry

The lemmas `Tell...` say what an event means to the three readers, those on `Told` what a sequence
does: what a dispatcher has yet to report is one of nine sequences (`Reports`), and what a
reconciliation reports is built up event by event, by induction (`...InTurn`). `TelemetryInvariant` then says that both
views are the registries (`Informed`), that the counters and the depth fall short by exactly what is
under way (`Balanced`, with `Unreported` as a sum over the threads), that the registries are
finite and the next id is free (`Finitely`), and that nothing runs after the unmount (`Ended`). The last
two are needed because a view changes by one when an entry appears or goes, which is what the
registry's size does only if it is finite and the entry was not, or was, there.

### The derive

`ParserExact` relates two descriptions of a declaration, one that walks through it and one that does
not, so the proof is one induction per loop of the parser: over the metas of an attribute
(`ChildMeta`, `CompositeMeta`), over the attributes of a field and of the struct, and over the fields.
Each is for a state that the loop can be in, and says which slots are filled, with what, and that an error
was reported exactly when a meta or an attribute was wrong, or a slot filled twice. A field's
child or its errors are then what the definition says; the children are what `Only` and `FlattenSeq`
keep of the fields, in order; and the two tests for repetitions, which compare the children that
are left when the fields with errors are gone, find an error at a field exactly when it repeats
one before it.

### Nested models

`CompositeInv` says that everything queued or in flight belongs to a model of the tree: a message is
`Home(n)`, the one that `n` sends to itself, lifted by the constructors on the way up; a task has
the key `KeyOf(n)` and the effect of `n`, at most one per model, and exactly for the models in `busy`
(`TasksOf`). It is needed because none of the properties speaks of what is still queued, and
what a turn does depends on that. Three arguments carry it, with any number of children at each level:

- *Up.* `InScope` is one level. By induction on the way up from a model, a single command arrives with
  its key scoped once, with the whole path, its message lifted by every level and its label untouched
  (`Raised`); a batch arrives as the batch of what its members become. `ScopedKey` leaves a key alone
  that has a path already, so the first scope on the way up decides, and that one has the whole
  context. This is `CompositionIsTransparent`.
- *Down.* `Routed` takes one constructor off per level. If the model is `Reachable`, the first match at
  each level is the next model on the way, and the message arrives as it was sent: `MessagesComeHome`.
- *Apart.* Siblings have different, nonempty paths (`Grown`, from `ParserExact`'s lemmas), so two models have
  different contexts (`ContextsDiffer`, by induction down the tree: equal contexts have equal parents'
  contexts and equal last segments), and keys scoped with different contexts differ (`KeysDiffer`).
  Hence a cancellation removes the task of its model alone, a start replaces only it, and the
  subscriptions that a subtree declares, each under the key of a different model, are distinct:
  `Push` never refuses one, which is `~panicked`.

`InitCommand` and `Declared` are recursions over the tree, `Routed` one over the levels. That they are
functions at all is shown by `RecursionExists`, with a model's height, or the level, as the rank; what
the first two return is by `UpTheTree`: what holds of a model when it holds of its children holds
of all. The module's tree has two levels below the
root, and so have the theorems; the number of children, their names, paths and constructors, the
replies, and the messages and effects in flight are arbitrary.

### Induction

The library's induction theorems are stated for an operator, which the provers cannot instantiate.
`CollectionsProofs` does without: a nonempty set of naturals has a smallest element (`Smallest`, from
the fact that `<` is well founded), so a set with 0 and all successors is `Nat` (`AllNaturals`), and a
set of sequences closed under `Append` has them all (`AllSequences`). A property is proved by
applying these to the set of values that have it. That a recursive function exists is proved for the body
at hand, by extending it one argument at a time (`KeptExists`, `SumsExist`). Sums are by
induction on the cardinality of the domain.

A fold takes an operator too. `CollectionsProofs` declares `CONSTANT Step(_, _, _)`, proves about the fold of
`Step` in a context what one needs to know (`FoldEmpty`, `FoldAppend`, `FoldConcat`, and `FoldIs`, which says
that the community modules' `FoldLeft` is one), and `CompositeProofs` instantiates it with its own: `WalkStep`
has one case for each fold and recursion of the model, which the context names (`For("attributes",
site)`). One instance serves all of them, since every instance repeats all lemmas of the module to the
provers. A lemma of the form `...IsFold` says for each `FoldLeft` of the model that it is that fold.

### Only model-checked

- `AcceptedIsSettled` and `EveryMessageSettled`: liveness under fairness is out of the prover's reach.
- Under an endless chain of answers every external message is still handled, by `AnswersAlwaysWait` after the
  finitely many messages that were ahead of it; that its turn comes is liveness, which TLC checks for chains up
  to `MaxInternal`.
- `YieldsWhenExhausted` is false, as `program_yield` shows.
- `MemoryBound` with internal messages is false, as `program_backlog` shows; the run
  `FloodsAreBounded` and the theorem are about programs without them.

## What the nested models show

`ParserExact` compares the parser with a definition that does not walk: a declaration is good if
it has exactly these metas, and the places it reports are exactly those that are wrong, all in one
go. `MessagesComeHome` holds for models whose declarations are exclusive on the way
to them (`Reachable`): `extract` takes what `lift` builds, and no earlier sibling's `extract` does. The
instances also mount declarations that violate this, which the derive cannot see; there the first
match wins. `KeysStayApart` has no such condition, since paths are unique among siblings by the
parser and joined by the scopes. `CompositionIsTransparent` compares what is executed with what the
authors meant, leaf by leaf, with keys, messages, labels and order.

## What observers can know

`ObserversKnow` is about the completeness of the events: each change of the registries, the
subscriptions and the queue is told exactly once. It is not obvious for `RuntimeEvent`, which has
neither starts nor cancellations: an application has to take `CommandScheduled` for both. The
depth is exact but for what dispatchers have yet to report. `CountersBalance` is what a dashboard
relies on; it ends with the unmount, which drops effects and subscriptions without counting them.

## Not modelled

- Panics in application callbacks, which the documentation calls fatal; the one panic modelled is
  the `expect` of the generated `subscriptions`.
- `model.rs`, `view.rs`, `lib.rs`, the generated view helpers' bodies and the examples: traits,
  wrappers and rendering without state. A view appears only as a sender of messages.
- Builders and accessors of `observability/config.rs` and `events.rs`, `error.rs`, labels the
  application configures: values that pass through and decide nothing.
- Spans, wording, generics and token text of the derive; formatting of descriptions; the order in
  which observers are called within one event.

## Plan

Every invariant and action property of the passing runs is a theorem. What is left:

1. `ImplementsMailbox` and `ImplementsQueue` are refinements of safety; the abstract mailbox could also promise
   that what it accepts is delivered, which is liveness and would stay with TLC.
2. A tree of any depth. The lemmas on ways up and down are by induction on the level already; `SpecsOf` and
   `Models` would have to be defined for it, and TLC would need a bound on the depth.
3. Panics in callbacks, which would need what GPUI does to a task that unwinds.
