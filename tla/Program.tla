------------------------------- MODULE Program -------------------------------
(***************************************************************************)
(* A mounted program (crates/gpui_tea/src/program.rs, runtime.rs): the     *)
(* pending queue and its drain loop, the commands that update returns, the *)
(* completions of effects, the deferred drain, mounting and unmounting.    *)
(* It composes QueueTracker, which the dispatchers share with it, and      *)
(* EffectTracking.                                                         *)
(*                                                                         *)
(* All of this code runs on GPUI's foreground thread, one turn of one task *)
(* at a time: a turn is delivering a batch, a completion, or the deferred  *)
(* drain.  Dispatchers run on any thread, also on the foreground thread    *)
(* inside update or a subscription's builder, so their offers come between *)
(* any two steps of a turn.  A step here is what the turn does up to its   *)
(* next access to the shared queue.                                        *)
(***************************************************************************)
EXTENDS EffectTracking, FiniteSets, Sequences, Subsequences

CONSTANTS
    Dispatchers,   \* threads that hold a clone of the dispatcher
    Configs,       \* queue policies a program may be mounted with
    Budgets,       \* drain budgets a program may be mounted with
    Commands,      \* commands init and update may return, batches flattened
    MaxDispatches, \* bound: calls of Dispatcher::dispatch
    MaxInternal    \* bound: internal messages enqueued

\* ProgramConfig::drain_budget replaces 0 by 1.
ASSUME BudgetAssumption == \A b \in Budgets : b \in Nat /\ b >= 1
ASSUME ProgramBoundAssumption == MaxDispatches \in Nat /\ MaxInternal \in Nat

VARIABLES
    \* shared with the dispatchers, see QueueTracker
    policy, nextId, active, inbox, dropped, internalPending, closed, waker,
    waking, receiver, program, refused, displaced, discarded,
    \* the program's own
    budget,       \* drain_budget of the configuration
    pending,      \* MessageQueue.pending
    fg,           \* where the foreground thread is: "idle" between two turns,
                  \* "mount" in the init transaction, "drain" at the head of the
                  \* drain loop, "command" in the execution of update's command
    processedNow, \* drain_queue's processed
    todo,         \* what is left of the command in execution
    continuation, \* Runtime.drain_continuation is Some
    subscribed,   \* subscriptions: "none" yet, "current", or "stale" since an update
    emittedAt,    \* history: for every internal message enqueued, nextId then
    handled       \* history: messages given to update, in order

ownVars ==
    <<budget, pending, fg, processedNow, todo, continuation, subscribed, emittedAt, handled>>
queueVars ==
    <<policy, nextId, active, inbox, dropped, internalPending, closed, waker,
      waking, receiver, program, refused, displaced, discarded>>
vars == <<queueVars, ownVars, effectVars>>

External(id) == [origin |-> "External", id |-> id]
Internal(n) == [origin |-> "Internal", id |-> n]

Elements(s) == {s[i] : i \in 1..Len(s)}

\* The ids of the messages of one origin in a queue, in order.
IdsOf(queue, origin) ==
    LET some == Only(queue, [origin : {origin}, id : Nat])
    IN  [i \in 1..Len(some) |-> some[i].id]

Queue == INSTANCE QueueTracker WITH
    taken <- IdsOf(pending, "External"),
    internals <- Len(IdsOf(pending, "Internal")),
    processed <- IdsOf(handled, "External")

ASSUME PolicyAssumption == \A p \in Configs : p \in Queue!QueuePolicies

\* CommandInner, batches flattened.
Instructions ==
    [kind : {"Emit", "Effect"}] \cup [kind : {"Keyed", "Cancel"}, key : Keys]

ASSUME CommandAssumption == \A c \in Commands : c \in Seq(Instructions)

\* The number of internal messages enqueued so far.
emitted == Len(emittedAt)

\* The number of instructions of one kind in a command.
CountOf(command, kind) == Len(Only(command, {i \in Instructions : i.kind = kind}))

\* The commands that the model's bounds leave to init and update.
AllowedCommands ==
    {c \in Commands :
        /\ emitted + CountOf(c, "Emit") <= MaxInternal
        /\ nextEffectId + CountOf(c, "Effect") <= MaxEffects
        /\ nextGeneration + CountOf(c, "Keyed") <= MaxKeyed}

Messages == [origin : {"External", "Internal"}, id : Nat]

TypeOK ==
    /\ Queue!TypeOK
    /\ EffectTypeOK
    /\ budget \in Budgets
    /\ pending \in Seq(Messages)
    /\ fg \in {"idle", "mount", "drain", "command"}
    /\ processedNow \in 0..budget
    /\ todo \in Seq(Instructions)
    /\ continuation \in BOOLEAN
    /\ subscribed \in {"none", "current", "stale"}
    /\ emittedAt \in Seq(Nat)
    /\ handled \in Seq(Messages)

\* mount_with: the runtime is built, init has returned a command and its execution
\* is about to begin with automatic drains suspended.
Init ==
    /\ pending = <<>>
    /\ handled = <<>>
    /\ Queue!Init
    /\ EffectInit
    /\ budget \in Budgets
    /\ fg = "mount"
    /\ processedNow = 0
    /\ continuation = FALSE
    /\ subscribed = "none"
    /\ emittedAt = <<>>
    /\ todo \in AllowedCommands

-----------------------------------------------------------------------------
(* Dispatchers.                                                            *)

\* The first dispatcher leaves the program with the first reconciliation, which
\* hands it to the subscriptions' builders, or with the return of mount_with.
Dispatch(d) ==
    /\ subscribed # "none"
    /\ UNCHANGED <<ownVars, effectVars>>
    /\ Queue!Offer(d)

Wake(d) ==
    /\ UNCHANGED <<ownVars, effectVars>>
    /\ Queue!Wake(d)

-----------------------------------------------------------------------------
(* Starting and ending a drain.                                            *)

\* The foreground thread can begin a turn of another task than the receive task.
Idle == fg = "idle" /\ receiver # "running" /\ program = "mounted"

\* drain_queue is entered with a pending queue that is not empty.
BeginDrain ==
    /\ fg' = "drain"
    /\ processedNow' = 0

\* Mutant of FinishDrain: what remains is left to the next message.
FinishDrainUnscheduled ==
    /\ fg = "drain"
    /\ processedNow = budget \/ pending = <<>>
    /\ fg' = "idle"
    /\ processedNow' = 0
    /\ subscribed' = IF processedNow > 0 THEN "current" ELSE subscribed
    /\ UNCHANGED <<queueVars, budget, pending, todo, continuation, emittedAt, handled,
                   effectVars>>

\* Mutant of FinishDrain: the subscriptions wait for the last of the drains.
FinishDrainUnreconciled ==
    /\ fg = "drain"
    /\ processedNow = budget \/ pending = <<>>
    /\ fg' = "idle"
    /\ processedNow' = 0
    /\ subscribed' = IF pending = <<>> THEN "current" ELSE subscribed
    /\ continuation' = (continuation \/ pending # <<>>)
    /\ UNCHANGED <<queueVars, budget, pending, todo, emittedAt, handled, effectVars>>

\* The loop of drain_queue is over, on an empty queue or an exhausted budget: the
\* subscriptions are reconciled when update ran, and a deferred drain is scheduled
\* when messages remain.
FinishDrain ==
    /\ fg = "drain"
    /\ processedNow = budget \/ pending = <<>>
    /\ fg' = "idle"
    /\ processedNow' = 0
    /\ subscribed' = IF processedNow > 0 THEN "current" ELSE subscribed
    /\ continuation' = (continuation \/ pending # <<>>)
    /\ UNCHANGED <<queueVars, budget, pending, todo, emittedAt, handled, effectVars>>

-----------------------------------------------------------------------------
(* The drain loop.                                                         *)

\* Mutant of InLoop: the loop runs once too often.
InLoopLate == fg = "drain" /\ processedNow <= budget /\ pending # <<>>

\* The condition of the loop holds: the budget is not exhausted and a message pends.
InLoop == fg = "drain" /\ processedNow < budget /\ pending # <<>>

\* update handles a message and returns a command, which is executed next.
Update(message) ==
    /\ handled' = Append(handled, message)
    /\ processedNow' = processedNow + 1
    /\ subscribed' = IF subscribed = "none" THEN "none" ELSE "stale"
    /\ fg' = "command"
    /\ todo' \in AllowedCommands

\* The loop pops an external message and begin_processing lets it through.
ProcessExternal ==
    /\ InLoop /\ Head(pending).origin = "External"
    /\ pending' = Tail(pending)
    /\ Update(Head(pending))
    /\ Queue!BeginProcessing
    /\ UNCHANGED <<budget, continuation, emittedAt, effectVars>>

\* Mutant of SkipExternal: a skipped message counts against the budget.
SkipExternalCounted ==
    /\ InLoop /\ Head(pending).origin = "External"
    /\ pending' = Tail(pending)
    /\ processedNow' = processedNow + 1
    /\ UNCHANGED <<budget, fg, todo, continuation, subscribed, emittedAt, handled,
                   effectVars>>
    /\ Queue!SkipDropped

\* Mutant of SkipExternal: the queue is not told that the message is gone.
SkipExternalSilently ==
    /\ InLoop /\ Head(pending).origin = "External" /\ Head(pending).id \in dropped
    /\ pending' = Tail(pending)
    /\ UNCHANGED <<queueVars, budget, fg, processedNow, todo, continuation, subscribed,
                   emittedAt, handled, effectVars>>

\* The loop pops an external message that was displaced meanwhile; skipping it does
\* not count against the budget.
SkipExternal ==
    /\ InLoop /\ Head(pending).origin = "External"
    /\ pending' = Tail(pending)
    /\ UNCHANGED <<budget, fg, processedNow, todo, continuation, subscribed, emittedAt,
                   handled, effectVars>>
    /\ Queue!SkipDropped

\* The loop pops an internal message.
ProcessInternal ==
    /\ InLoop /\ Head(pending).origin = "Internal"
    /\ pending' = Tail(pending)
    /\ Update(Head(pending))
    /\ Queue!InternalDequeued
    /\ UNCHANGED <<budget, continuation, emittedAt, effectVars>>

-----------------------------------------------------------------------------
(* Commands.                                                               *)

Executes(kind) ==
    /\ fg \in {"mount", "command"}
    /\ todo # <<>> /\ Head(todo).kind = kind
    /\ todo' = Tail(todo)

\* Mutant of EnqueueInternal: the message is pushed to the front.
EnqueueInternalInFront ==
    /\ emitted < MaxInternal
    /\ emittedAt' = Append(emittedAt, nextId)
    /\ pending' = <<Internal(emitted + 1)>> \o pending
    /\ UNCHANGED handled
    /\ Queue!InternalEnqueued

\* enqueue_internal_message, without the drain it may start.
EnqueueInternal ==
    /\ emitted < MaxInternal
    /\ emittedAt' = Append(emittedAt, nextId)
    /\ pending' = Append(pending, Internal(emitted + 1))
    /\ UNCHANGED handled
    /\ Queue!InternalEnqueued

\* CommandInner::Emit.  No drain starts: one is under way, or init's is suspended.
ExecuteEmit ==
    /\ Executes("Emit")
    /\ EnqueueInternal
    /\ UNCHANGED <<budget, fg, processedNow, continuation, subscribed, effectVars>>

ExecuteEffect ==
    /\ Executes("Effect")
    /\ StartEffect
    /\ UNCHANGED <<queueVars, budget, pending, fg, processedNow, continuation,
                   subscribed, emittedAt, handled>>

ExecuteKeyed ==
    /\ Executes("Keyed")
    /\ StartKeyed(Head(todo).key)
    /\ UNCHANGED <<queueVars, budget, pending, fg, processedNow, continuation,
                   subscribed, emittedAt, handled>>

ExecuteCancel ==
    /\ Executes("Cancel")
    /\ CancelKeyed(Head(todo).key)
    /\ UNCHANGED <<queueVars, budget, pending, fg, processedNow, continuation,
                   subscribed, emittedAt, handled>>

\* The command is executed and the drain loop goes on.
CommandDone ==
    /\ fg = "command" /\ todo = <<>>
    /\ fg' = "drain"
    /\ UNCHANGED <<queueVars, budget, pending, processedNow, todo, continuation,
                   subscribed, emittedAt, handled, effectVars>>

\* Mutant of FinishInit: the drain does not wait for the end of the transaction.
FinishInitEarly ==
    /\ fg = "mount"
    /\ \/ /\ pending = <<>> /\ todo = <<>>
          /\ fg' = "idle"
          /\ subscribed' = "current"
          /\ UNCHANGED processedNow
       \/ /\ pending # <<>>
          /\ BeginDrain
          /\ UNCHANGED subscribed
    /\ UNCHANGED <<queueVars, budget, pending, todo, continuation, emittedAt, handled,
                   effectVars>>

\* The init transaction is over: mount_with drains what init emitted, or reconciles
\* the subscriptions when it emitted nothing.
FinishInit ==
    /\ fg = "mount" /\ todo = <<>>
    /\ \/ /\ pending = <<>>
          /\ fg' = "idle"
          /\ subscribed' = "current"
          /\ UNCHANGED processedNow
       \/ /\ pending # <<>>
          /\ BeginDrain
          /\ UNCHANGED subscribed
    /\ UNCHANGED <<queueVars, budget, pending, todo, continuation, emittedAt, handled,
                   effectVars>>

-----------------------------------------------------------------------------
(* Turns of the foreground thread.                                         *)

\* Mutant of Receive: the batch replaces what is pending.
ReceiveReplacing ==
    /\ fg = "idle"
    /\ pending' = [i \in 1..Len(inbox) |-> External(inbox[i])]
    /\ receiver' = "running"
    /\ inbox' = <<>>
    /\ BeginDrain
    /\ receiver \in {"scheduled", "running"} /\ program = "mounted" /\ inbox # <<>>
    /\ UNCHANGED <<policy, nextId, active, dropped, internalPending, closed, waker,
                   waking, program, refused, displaced, discarded, budget, todo,
                   continuation, subscribed, emittedAt, handled, effectVars>>

\* The receive task takes the inbox, which is not empty, and receive_external drains.
Receive ==
    /\ fg = "idle"
    /\ pending' = pending \o [i \in 1..Len(inbox) |-> External(inbox[i])]
    /\ BeginDrain
    /\ UNCHANGED <<budget, todo, continuation, subscribed, emittedAt, handled, effectVars>>
    /\ Queue!PollTake

\* The receive task parks, or finds that the program is gone.
ReceiveNothing ==
    /\ fg = "idle"
    /\ UNCHANGED <<ownVars, effectVars>>
    /\ Queue!PollPending \/ Queue!PollTakeUndelivered

\* The deferred drain runs; another turn may have drained everything before.
Continue ==
    /\ Idle /\ continuation
    /\ continuation' = FALSE
    /\ IF pending # <<>> THEN BeginDrain ELSE UNCHANGED <<fg, processedNow>>
    /\ UNCHANGED <<queueVars, budget, pending, todo, subscribed, emittedAt, handled,
                   effectVars>>

\* A completion is applied: a current keyed one or one without a key may carry a
\* message, which is enqueued and drained.
Complete(r) ==
    /\ Idle
    /\ CompleteCurrent(r) \/ CompleteEffect(r)
    /\ \/ /\ EnqueueInternal
          /\ BeginDrain
       \/ UNCHANGED <<queueVars, pending, emittedAt, handled, fg, processedNow>>
    /\ UNCHANGED <<budget, todo, continuation, subscribed>>

\* A completion that is stale, or a canceled future that is dropped.
Ignore(r) ==
    /\ Idle
    /\ CompleteStale(r) \/ Reap(r)
    /\ UNCHANGED <<queueVars, ownVars>>

\* An effect ends after the last handle went away: program.update fails, and the
\* registries, which are about to be dropped, keep its entry.
Undelivered(r) ==
    /\ fg = "idle" /\ receiver # "running" /\ program = "released"
    /\ running' = running \ {r}
    /\ UNCHANGED <<queueVars, ownVars, nextGeneration, tasks, nextEffectId, effects,
                   newest, delivered>>

\* The last Entity handle goes away; an update in progress holds one.
Release ==
    /\ fg = "idle"
    /\ UNCHANGED <<ownVars, effectVars>>
    /\ Queue!Release

\* The program is dropped: Runtime::drop closes the queue, and its fields go.
Unmount ==
    /\ fg = "idle" /\ receiver # "running"
    /\ pending' = <<>>
    /\ continuation' = FALSE
    /\ UNCHANGED <<budget, fg, processedNow, todo, subscribed, emittedAt, handled>>
    /\ Queue!Close
    /\ DropTasks

-----------------------------------------------------------------------------

DrainStep ==
    \/ ProcessExternal \/ SkipExternal \/ ProcessInternal \/ FinishDrain
    \/ ExecuteEmit \/ ExecuteEffect \/ ExecuteKeyed \/ ExecuteCancel
    \/ CommandDone \/ FinishInit

Next ==
    \/ \E d \in Dispatchers : Dispatch(d) \/ Wake(d)
    \/ DrainStep
    \/ Receive
    \/ ReceiveNothing
    \/ Continue
    \/ \E r \in running : Complete(r) \/ Ignore(r) \/ Undelivered(r)
    \/ Release
    \/ Unmount

Spec == Init /\ [][Next]_vars

(* A turn that began runs to its end, a scheduled task gets its turn, and  *)
(* a thread that took the waker calls wake().  An effect need not complete *)
(* and nobody has to dispatch or to unmount, but a program whose handles   *)
(* are gone is dropped.                                                    *)
Fairness ==
    /\ WF_vars(DrainStep)
    /\ WF_vars(Receive \/ ReceiveNothing)
    /\ WF_vars(Continue)
    /\ \A d \in Dispatchers : WF_vars(Wake(d))
    /\ WF_vars(Unmount)

FairSpec == Spec /\ Fairness

-----------------------------------------------------------------------------
(* Properties.                                                             *)

Settled(id) ==
    id \in Elements(IdsOf(handled, "External")) \cup Elements(displaced) \cup discarded

\* No message is stranded: between two turns, whatever is pending has a deferred
\* drain to come, however the last drain ended (budget, displaced messages only, a
\* batch that came with another turn) and whichever turn started it (drain_queue).
NothingStranded ==
    Idle /\ pending # <<>> => continuation

\* Between two turns the subscriptions are those of the current model: every drain
\* that ran update ended in a reconciliation, also the one mounting runs (drain_queue
\* and mount_with).
SubscriptionsFollowModel ==
    fg = "idle" => subscribed = "current"

\* Guaranteed delivery for internal messages (command.rs): each one is handled once,
\* in the order of emission, and until then it is pending, whatever the policy does
\* to external messages and wherever a budget cuts a drain.
InternalsAreDelivered ==
    program # "dropped" =>
        IdsOf(handled \o pending, "Internal") = [n \in 1..emitted |-> n]

\* "Bounded policies also bound memory" (README.md): the external messages that exist,
\* displaced ones included, are at most the inbox, the batch taken last, and what is
\* left of the batch before, from which the drain took one.
MemoryBound ==
    LET existing == Len(IdsOf(pending, "External")) + Len(inbox)
    IN  policy.kind # "Unbounded" /\ existing > 0 => existing < 3 * Queue!Bound

\* Without internal messages bounded policies bound memory: however dispatchers flood
\* the program and however short its drains are, displaced messages that were already
\* taken do not pile up, because skipping them costs no budget (drain_queue).
FloodsAreBounded == emitted = 0 => MemoryBound

\* As long as the program is mounted, no entry of the registries outlives its future,
\* and every effect without a key that runs has one, in whatever order commands and
\* completions come (execute_command and the debug_assert of apply_completion).
TrackedWhileMounted == program = "mounted" => EntriesHaveFutures

\* The program uses the queue the way the queue expects to be used: it processes
\* what it took in order, and says so, exactly once.
ImplementsQueue == Queue!Spec

\* Every external message accepted is settled in the end, and every internal message
\* is handled, unless the program is dropped.
EveryMessageSettled ==
    /\ \A id \in 1..MaxDispatches : (id <= nextId) ~> Settled(id)
    /\ \A n \in 1..MaxInternal :
         (emitted >= n) ~> (program = "dropped" \/ Internal(n) \in Elements(handled))

\* "When the budget is exhausted, the runtime reconciles subscriptions, notifies the
\* view, and schedules the remaining messages on the foreground executor" (config.rs):
\* while the receive task is between two polls of one turn and the drain of that turn
\* has left messages behind, no other drain begins.
YieldsWhenExhausted ==
    [][receiver = "running" /\ fg = "idle" /\ pending # <<>> => fg' # "drain"]_vars

\* What command.rs says of messages of both origins: "Strict FIFO processing order
\* between internal and external messages is preserved".
StrictFifo ==
    \A i, j \in 1..Len(handled) :
        i < j /\ handled[i].origin = "Internal" /\ handled[j].origin = "External"
          => handled[j].id > emittedAt[handled[i].id]

=============================================================================
