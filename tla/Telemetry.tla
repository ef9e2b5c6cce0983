------------------------------ MODULE Telemetry ------------------------------
(***************************************************************************)
(* What a program tells its observers (observability/), and what these can *)
(* know of it.  A program, reduced to what it reports on, emits events to  *)
(* an observer of RuntimeEvents and, as TelemetryEvents, to the tracing    *)
(* and to the metrics adapter.  Behind each of the three is a reader who   *)
(* has nothing but what passes through: an application that folds runtime  *)
(* events, a reader of the log, and a dashboard of counters.               *)
(*                                                                         *)
(* Effects are those of EffectTracking.  The queue is its two counts, and  *)
(* the order in which it is drained, batches and budgets are left to       *)
(* Program: a drain takes any message and may end after each.              *)
(*                                                                         *)
(* Foreground code emits within the step that changes the state.  A        *)
(* dispatcher runs on another thread and emits one by one after its offer, *)
(* when the program may have gone on: `sending`.                           *)
(*                                                                         *)
(* Both kinds of executor, Foreground and Background, are kind "Effect".   *)
(* Labels, descriptions of messages, and metadata are left out (the depth  *)
(* in the metadata belongs to MetricsGauges); a key's description tells it *)
(* from others, as describe_key of the application should.                 *)
(***************************************************************************)
EXTENDS EffectTracking, FiniteSets, SequencesExt, Sums

CONSTANTS
    Threads,   \* threads that hold a clone of the dispatcher
    Policies,  \* queue policies a program may be mounted with
    Sources,   \* keys of subscriptions
    Threshold, \* queue_warning_threshold
    MaxDepth   \* bound: messages of each origin in the queue

ASSUME TelemetryAssumption ==
    /\ IsFiniteSet(Threads) /\ IsFiniteSet(Sources)
    /\ Threshold \in Nat
    /\ MaxDepth \in Nat

VARIABLES
    policy,
    status,    \* "mounting" until subscriptions are reconciled, "mounted", "unmounted"
    turn,      \* "init", "idle", "drain", or "command" in the command of an update
    updated,   \* drain_queue's processed is not 0
    externals, \* accepted messages that are not processed
    internals, \* internal messages that are not processed
    subscribed, \* SubscriptionRegistry.active
    sending,   \* for each thread, the events it has yet to emit
    known,     \* what the application makes of the RuntimeEvents
    log,       \* what a reader makes of the tracing records
    meters     \* what a dashboard computes from the counters

programVars == <<policy, status, turn, updated, externals, internals, subscribed>>
vars == <<effectVars, programVars, sending, known, log, meters>>

depth == externals + internals

-----------------------------------------------------------------------------
(* Events (events.rs).                                                     *)

NoKey == "<none>"

ASSUME KeyAssumption == NoKey \notin Keys

Event(name) == [name |-> name, kind |-> "none", key |-> NoKey, emitted |-> FALSE, action |-> "none"]

OfKey(name, key) == [Event(name) EXCEPT !.key = key]

\* Of a command or an effect.
OfKind(name, kind, key) == [Event(name) EXCEPT !.kind = kind, !.key = key]

\* EffectCompleted and StaleKeyedCompletionIgnored, with emitted_message.
Completion(name, kind, key, emitted) == [OfKind(name, kind, key) EXCEPT !.emitted = emitted]

Overflow(action) == [Event("QueueOverflow") EXCEPT !.action = action]

\* observe_queue_depth.
Warning(queued) == IF queued > Threshold THEN <<Event("QueueWarning")>> ELSE <<>>

\* The variants that RuntimeEvent does not have.
TelemetryOnly == {"EffectStarted", "KeyedCommandCanceled"}

-----------------------------------------------------------------------------
(* The adapters (adapters.rs).                                             *)

\* observe_tracing_telemetry: the event_name of each variant.
QueueEventName ==
    [DispatchAccepted |-> "dispatch.accepted", DispatchRejected |-> "dispatch.rejected",
     QueueOverflow |-> "queue.overflow", QueueDrainStarted |-> "queue.drain.started",
     QueueWarning |-> "queue.warning", MessageProcessed |-> "message.processed"]

\* Mutant of EffectEventName: a cancellation is recorded as a replacement.
EffectEventNameTwice ==
    [CommandScheduled |-> "command.scheduled", EffectStarted |-> "effect.started",
     KeyedCommandReplaced |-> "keyed.replaced", KeyedCommandCanceled |-> "keyed.replaced",
     EffectCompleted |-> "effect.completed",
     StaleKeyedCompletionIgnored |-> "effect.stale_ignored"]

EffectEventName ==
    [CommandScheduled |-> "command.scheduled", EffectStarted |-> "effect.started",
     KeyedCommandReplaced |-> "keyed.replaced", KeyedCommandCanceled |-> "keyed.canceled",
     EffectCompleted |-> "effect.completed",
     StaleKeyedCompletionIgnored |-> "effect.stale_ignored"]

ProgramEventName ==
    [SubscriptionBuilt |-> "subscription.built",
     SubscriptionRetained |-> "subscription.retained",
     SubscriptionRemoved |-> "subscription.removed",
     SubscriptionsReconciled |-> "subscriptions.reconciled",
     QueueDrainFinished |-> "queue.drain.finished", ProgramUnmounted |-> "program.unmounted"]

EventName(name) ==
    CASE name \in DOMAIN QueueEventName -> QueueEventName[name]
      [] name \in DOMAIN EffectEventName -> EffectEventName[name]
      [] name \in DOMAIN ProgramEventName -> ProgramEventName[name]

\* A tracing record: every field of the event that is there passes.
TracingRecord(e) ==
    [event_name |-> EventName(e.name), kind |-> e.kind, key |-> e.key,
     emitted |-> e.emitted, action |-> e.action]

\* MetricsAdapter::observe: the counter of each variant that has one.
CounterName ==
    [DispatchAccepted |-> "dispatch.accepted", DispatchRejected |-> "dispatch.rejected",
     QueueOverflow |-> "queue.overflow", CommandScheduled |-> "command.scheduled",
     EffectStarted |-> "effect.started", EffectCompleted |-> "effect.completed",
     KeyedCommandReplaced |-> "keyed.replaced", KeyedCommandCanceled |-> "keyed.canceled",
     StaleKeyedCompletionIgnored |-> "keyed.stale_ignored",
     SubscriptionBuilt |-> "subscription.built", SubscriptionRemoved |-> "subscription.removed",
     QueueWarning |-> "queue.warning", ProgramUnmounted |-> "program.unmounted"]

Counted == DOMAIN CounterName

\* The counter an event increments, and its labels; counters without the label have "none".
Increment(e) ==
    [counter |-> CounterName[e.name],
     label |-> CASE e.name = "QueueOverflow" -> e.action
                 [] e.name \in {"CommandScheduled", "EffectStarted", "EffectCompleted"} -> e.kind
                 [] OTHER -> "none"]

-----------------------------------------------------------------------------
(* The readers.  What an event means to one: keys that start and end, how  *)
(* many effects without a key and how many messages there are more, and    *)
(* subscriptions that appear and go.                                       *)

Nothing == [keys |-> {}, effects |-> 0, sources |-> {}, depth |-> 0]

One(condition) == IF condition THEN 1 ELSE 0

DepthChange(accepted, displaced, processed, emitted) ==
    One(accepted) - One(displaced) - One(processed) + One(emitted)

\* RuntimeEvent has neither starts nor cancellations: CommandScheduled stands for both.
Watch(view, e) ==
    LET starts == e.name = "CommandScheduled" /\ e.kind = "Effect"
        ends == \/ e.name = "CommandScheduled" /\ e.kind = "Cancel"
                \/ e.name = "EffectCompleted" /\ e.kind = "Effect"
    IN  CASE e.name \in TelemetryOnly -> view
          [] e.name = "ProgramUnmounted" -> Nothing
          [] OTHER ->
               [keys |-> CASE starts -> view.keys \cup ({e.key} \ {NoKey})
                           [] ends -> view.keys \ {e.key}
                           [] OTHER -> view.keys,
                effects |-> view.effects + One(starts /\ e.key = NoKey) - One(ends /\ e.key = NoKey),
                sources |-> CASE e.name = "SubscriptionBuilt" -> view.sources \cup {e.key}
                              [] e.name = "SubscriptionRemoved" -> view.sources \ {e.key}
                              [] OTHER -> view.sources,
                depth |-> view.depth + DepthChange(
                  e.name = "DispatchAccepted", e.action = "DroppedOldest",
                  e.name = "MessageProcessed", e.name = "EffectCompleted" /\ e.emitted)]

Read(view, record) ==
    LET name == record.event_name
        starts == name = "effect.started"
        ends == \/ name = "keyed.canceled"
                \/ name = "effect.completed" /\ record.kind = "Effect"
    IN  IF name = "program.unmounted" THEN Nothing ELSE
          [keys |-> CASE starts -> view.keys \cup ({record.key} \ {NoKey})
                      [] ends -> view.keys \ {record.key}
                      [] OTHER -> view.keys,
           effects |-> view.effects + One(starts /\ record.key = NoKey)
                                    - One(ends /\ record.key = NoKey),
           sources |-> CASE name = "subscription.built" -> view.sources \cup {record.key}
                         [] name = "subscription.removed" -> view.sources \ {record.key}
                         [] OTHER -> view.sources,
           depth |-> view.depth + DepthChange(
             name = "dispatch.accepted", record.action = "DroppedOldest",
             name = "message.processed", name = "effect.completed" /\ record.emitted)]

\* Started less completed, replaced and canceled; built less removed.
Tally(view, increment) ==
    LET is(counter) == increment.counter = counter
    IN  [running |-> view.running + One(is("effect.started"))
           - One(is("effect.completed") /\ increment.label = "Effect")
           - One(is("keyed.replaced") \/ is("keyed.canceled")),
         subscribed |-> view.subscribed
           + One(is("subscription.built")) - One(is("subscription.removed"))]

\* observe_runtime and observe_telemetry: an event passes to all observers.
Tell(readers, e) ==
    [known |-> Watch(readers.known, e),
     log |-> Read(readers.log, TracingRecord(e)),
     meters |-> IF e.name \in Counted THEN Tally(readers.meters, Increment(e))
                ELSE readers.meters]

\* What the readers know after the first n of some events, for each n, and after all.
ToldFirst(readers, events) ==
    LET after[n \in 0..Len(events)] ==
          IF n = 0 THEN readers ELSE Tell(after[n - 1], events[n])
    IN  after

Told(readers, events) == ToldFirst(readers, events)[Len(events)]

Readers == [known |-> known, log |-> log, meters |-> meters]

Observe(events) ==
    LET told == Told(Readers, events)
    IN  known' = told.known /\ log' = told.log /\ meters' = told.meters

Silent == UNCHANGED <<known, log, meters>>

Init ==
    /\ EffectInit
    /\ policy \in Policies
    /\ status = "mounting" /\ turn = "init" /\ updated = FALSE
    /\ externals = 0 /\ internals = 0 /\ subscribed = {}
    /\ sending = [t \in Threads |-> <<>>]
    /\ known = Nothing /\ log = Nothing
    /\ meters = [running |-> 0, subscribed |-> 0]

-----------------------------------------------------------------------------
(* Dispatchers.                                                            *)

Limit == IF policy.kind = "DropOldest" /\ policy.capacity = 0 THEN 1 ELSE policy.capacity

Full == policy.kind # "Unbounded" /\ externals >= Limit

\* The offer's outcome, and what is emitted of it; the depth is that of the offer.
Offer(t) ==
    /\ sending[t] = <<>> /\ status # "mounting"
    /\ LET accepted == <<Event("DispatchAccepted")>>
       IN  \/ /\ status = "unmounted"
              /\ sending' = [sending EXCEPT ![t] = <<Event("DispatchRejected")>>]
              /\ UNCHANGED externals
           \/ /\ status = "mounted" /\ Full /\ policy.kind = "RejectNew"
              /\ sending' = [sending EXCEPT ![t] = <<Overflow("RejectedNew")>>]
              /\ UNCHANGED externals
           \/ /\ status = "mounted" /\ Full /\ policy.kind = "DropNewest"
              /\ sending' = [sending EXCEPT ![t] = <<Overflow("DroppedNewest")>>]
              /\ UNCHANGED externals
           \/ /\ status = "mounted" /\ Full /\ policy.kind = "DropOldest"
              /\ sending' = [sending EXCEPT ![t] =
                   <<Overflow("DroppedOldest")>> \o accepted \o Warning(depth)]
              /\ UNCHANGED externals
           \/ /\ status = "mounted" /\ ~Full /\ externals < MaxDepth
              /\ externals' = externals + 1
              /\ sending' = [sending EXCEPT ![t] = accepted \o Warning(depth + 1)]
    /\ Silent
    /\ UNCHANGED <<effectVars, policy, status, turn, updated, internals, subscribed>>

Send(t) ==
    /\ sending[t] # <<>>
    /\ sending' = [sending EXCEPT ![t] = Tail(@)]
    /\ Observe(<<Head(sending[t])>>)
    /\ UNCHANGED <<effectVars, programVars>>

-----------------------------------------------------------------------------
(* Commands.                                                               *)

Executing == turn \in {"init", "command"}

Scheduled(kind, key) == OfKind("CommandScheduled", kind, key)
Started(key) == OfKind("EffectStarted", "Effect", key)

\* enqueue_internal_message: the warning, with events before and after it.
EnqueueInternal(before, after) ==
    /\ internals < MaxDepth
    /\ internals' = internals + 1
    /\ Observe(before \o Warning(depth + 1) \o after)

ExecuteEmit ==
    /\ Executing
    /\ EnqueueInternal(<<Scheduled("Emit", NoKey), Completion("EffectCompleted", "Emit", NoKey, TRUE)>>, <<>>)
    /\ UNCHANGED <<effectVars, policy, status, turn, updated, externals, subscribed, sending>>

ExecuteEffect ==
    /\ Executing
    /\ StartEffect
    /\ Observe(<<Scheduled("Effect", NoKey), Started(NoKey)>>)
    /\ UNCHANGED <<programVars, sending>>

\* Mutant of ExecuteKeyed: the previous entry is looked for after the insert.
ExecuteKeyedSilently(k) ==
    /\ Executing
    /\ StartKeyed(k)
    /\ Observe(<<Scheduled("Effect", k), Started(k)>>
               \o IF tasks'[k] = tasks[k] THEN <<OfKey("KeyedCommandReplaced", k)>> ELSE <<>>)
    /\ UNCHANGED <<programVars, sending>>

ExecuteKeyed(k) ==
    /\ Executing
    /\ StartKeyed(k)
    /\ Observe(<<Scheduled("Effect", k), Started(k)>>
               \o IF tasks[k] # NoTask THEN <<OfKey("KeyedCommandReplaced", k)>> ELSE <<>>)
    /\ UNCHANGED <<programVars, sending>>

ExecuteCancel(k) ==
    /\ Executing
    /\ CancelKeyed(k)
    /\ Observe(<<Scheduled("Cancel", k)>>
               \o IF tasks[k] # NoTask THEN <<OfKey("KeyedCommandCanceled", k)>> ELSE <<>>)
    /\ UNCHANGED <<programVars, sending>>

-----------------------------------------------------------------------------
(* Drains.                                                                 *)

InTurn(name, order) == [i \in 1..Len(order) |-> OfKey(name, order[i])]

\* The events of a reconciliation to some subscriptions.
Reconciliation(wanted) ==
    LET each(name, keys) == InTurn(name, SetToSeq(keys))
    IN  each("SubscriptionRetained", subscribed \cap wanted)
          \o each("SubscriptionRemoved", subscribed \ wanted)
          \o each("SubscriptionBuilt", wanted \ subscribed)
          \o <<Event("SubscriptionsReconciled")>>

\* mount_with after init's command: it reconciles, or drains what init emitted.
FinishInit ==
    /\ turn = "init"
    /\ IF internals = 0
         THEN /\ turn' = "idle" /\ status' = "mounted"
              /\ \E wanted \in SUBSET Sources :
                   subscribed' = wanted /\ Observe(Reconciliation(wanted))
         ELSE /\ turn' = "drain"
              /\ Observe(<<Event("QueueDrainStarted")>>)
              /\ UNCHANGED <<status, subscribed>>
    /\ UNCHANGED <<effectVars, policy, updated, externals, internals, sending>>

\* The receive task or the deferred drain has something pending; displaced messages
\* are pending as well and are not counted.
BeginDrain ==
    /\ turn = "idle" /\ status = "mounted"
    /\ turn' = "drain"
    /\ Observe(<<Event("QueueDrainStarted")>>)
    /\ UNCHANGED <<effectVars, policy, status, updated, externals, internals, subscribed, sending>>

Process ==
    /\ turn = "drain"
    /\ turn' = "command" /\ updated' = TRUE
    /\ \/ externals > 0 /\ externals' = externals - 1 /\ UNCHANGED internals
       \/ internals > 0 /\ internals' = internals - 1 /\ UNCHANGED externals
    /\ Observe(<<Event("MessageProcessed")>>)
    /\ UNCHANGED <<effectVars, policy, status, subscribed, sending>>

CommandDone ==
    /\ turn = "command"
    /\ turn' = "drain"
    /\ Silent
    /\ UNCHANGED <<effectVars, policy, status, updated, externals, internals, subscribed, sending>>

\* The drain that mounting runs processes a message at least.
FinishDrain ==
    /\ turn = "drain" /\ (status = "mounting" => updated)
    /\ turn' = "idle" /\ updated' = FALSE /\ status' = "mounted"
    /\ LET finished == <<Event("QueueDrainFinished")>>
       IN  IF updated
             THEN \E wanted \in SUBSET Sources :
                    subscribed' = wanted /\ Observe(Reconciliation(wanted) \o finished)
             ELSE Observe(finished) /\ UNCHANGED subscribed
    /\ UNCHANGED <<effectVars, policy, externals, internals, sending>>

-----------------------------------------------------------------------------
(* Completions.                                                            *)

\* A completion reports, and drains the message it may carry.
Completes(key) ==
    LET completed(emitted) == <<Completion("EffectCompleted", "Effect", key, emitted)>>
    IN  \/ /\ EnqueueInternal(completed(TRUE), <<Event("QueueDrainStarted")>>)
           /\ turn' = "drain"
        \/ /\ Observe(completed(FALSE))
           /\ UNCHANGED <<turn, internals>>

\* apply_completion of a current keyed effect, or of one without a key.
Complete(r) ==
    /\ turn = "idle"
    /\ CompleteCurrent(r) \/ CompleteEffect(r)
    /\ Completes(IF r.context = "Keyed" THEN r.key ELSE NoKey)
    /\ UNCHANGED <<policy, status, updated, externals, subscribed, sending>>

\* Mutant of IgnoreStale: a stale completion counts as completed, too.
IgnoreStaleTwice(r) ==
    /\ turn = "idle"
    /\ CompleteStale(r)
    /\ \E emitted \in BOOLEAN :
         Observe(<<Completion("EffectCompleted", "Effect", r.key, FALSE),
                   Completion("StaleKeyedCompletionIgnored", "Effect", r.key, emitted)>>)
    /\ UNCHANGED <<programVars, sending>>

IgnoreStale(r) ==
    /\ turn = "idle"
    /\ CompleteStale(r)
    /\ \E emitted \in BOOLEAN :
         Observe(<<Completion("StaleKeyedCompletionIgnored", "Effect", r.key, emitted)>>)
    /\ UNCHANGED <<programVars, sending>>

ReapSilently(r) ==
    /\ turn = "idle"
    /\ Reap(r)
    /\ Silent
    /\ UNCHANGED <<programVars, sending>>

\* Runtime::drop: the queue is closed, then the unmount is reported, then the fields
\* are dropped, of which nothing is reported.
Unmount ==
    /\ turn = "idle" /\ status = "mounted"
    /\ status' = "unmounted"
    /\ externals' = 0 /\ internals' = 0 /\ subscribed' = {}
    /\ DropTasks
    /\ Observe(<<Event("ProgramUnmounted")>>)
    /\ UNCHANGED <<policy, turn, updated, sending>>

-----------------------------------------------------------------------------

Next ==
    \/ \E t \in Threads : Offer(t) \/ Send(t)
    \/ ExecuteEmit
    \/ ExecuteEffect
    \/ \E k \in Keys : ExecuteKeyed(k) \/ ExecuteCancel(k)
    \/ FinishInit \/ BeginDrain \/ Process \/ CommandDone \/ FinishDrain
    \/ \E r \in running : Complete(r) \/ IgnoreStale(r) \/ ReapSilently(r)
    \/ Unmount

Spec == Init /\ [][Next]_vars

-----------------------------------------------------------------------------
(* Properties.                                                             *)

Views == [keys : SUBSET Keys, effects : Nat, sources : SUBSET Sources, depth : Int]

\* Types; a reader never counts effects or tasks below zero.
TypeOK ==
    /\ EffectTypeOK
    /\ status \in {"mounting", "mounted", "unmounted"}
    /\ turn \in {"init", "idle", "drain", "command"}
    /\ updated \in BOOLEAN
    /\ externals \in 0..MaxDepth /\ internals \in 0..MaxDepth
    /\ subscribed \subseteq Sources
    /\ known \in Views /\ log \in Views
    /\ meters \in [running : Nat, subscribed : Nat]

\* The change of depth that dispatchers have made and not yet reported; each reports
\* one offer at a time.
Untold(events) ==
    One(\E e \in ToSet(events) : e.name = "DispatchAccepted")
      - One(\E e \in ToSet(events) : e.action = "DroppedOldest")

Unreported == Total([t \in Threads |-> Untold(sending[t])], Threads)

\* Every change of the program's bookkeeping is told, once, to both kinds of observers:
\* who folds runtime events, and who reads the log of the tracing adapter, knows which
\* keys have a task, how many other effects run, which subscriptions are active and,
\* but for dispatches that are being reported, how many messages wait, whatever
\* was replaced, canceled, ignored as stale, displaced or refused (program.rs,
\* dispatcher.rs, subscription_registry.rs, adapters.rs).
ObserversKnow ==
    \A view \in {known, log} :
        /\ view.keys = {k \in Keys : tasks[k] # NoTask}
        /\ view.effects = Cardinality(effects)
        /\ view.sources = subscribed
        /\ status # "unmounted" => view.depth + Unreported = depth

\* The counters balance as long as the program is mounted: effects started, less those
\* completed (emitted messages are completed, too, under their own label), replaced or
\* canceled, are the effects the registries track, and subscriptions built less those
\* removed are the active ones (MetricsAdapter::observe).
CountersBalance ==
    status # "unmounted" =>
        /\ meters.running = Cardinality({k \in Keys : tasks[k] # NoTask}) + Cardinality(effects)
        /\ meters.subscribed = Cardinality(subscribed)

=============================================================================
