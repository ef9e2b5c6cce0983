--------------------------- MODULE MetricsGauges ---------------------------
(***************************************************************************)
(* The gauges of MetricsAdapter (observability/adapters.rs) and the        *)
(* telemetry that feeds them (observability/mod.rs, dispatcher.rs,         *)
(* program.rs, runtime.rs).                                                *)
(*                                                                         *)
(* An event is built on the thread that emits it: the depth in its         *)
(* metadata is read under the queue's lock, and the adapter applies it     *)
(* later, under a lock of its own.  Emit(a) and Observe(a) are the two     *)
(* steps.  The queue is its depth, a program its turns and the number of   *)
(* its subscriptions; QueueTracker and Program have the rest.  Counters    *)
(* only grow and are left out.                                             *)
(***************************************************************************)
EXTENDS Integers, Sequences, FiniteSets, Sums

CONSTANTS
    Programs,
    Threads,          \* threads other than the foreground that hold dispatchers
    Labels,
    LabelOf,          \* the labels the adapter gives a program's series
    MaxDepth,         \* bound: messages in a queue
    MaxSubscriptions  \* bound: subscriptions of a model

ASSUME MetricsAssumption ==
    /\ IsFiniteSet(Programs) /\ Programs # {}
    /\ LabelOf \in [Programs -> Labels]
    /\ "foreground" \notin Threads
    /\ MaxDepth \in Nat
    /\ MaxSubscriptions \in Nat

VARIABLES
    status,   \* "new", "mounted" or "unmounted"
    depth,    \* QueueTracker::depth of each program
    subs,     \* the number of active subscriptions of each program
    turn,     \* what the foreground thread does, and for which program
    emitting, \* for each thread, the program and the kinds of events it has yet to emit
    flight,   \* for each thread, the event it built and the adapter has not applied
    gauges,   \* MetricsAdapter.gauges; an absent entry is NoGauges
    series,   \* the values of the two gauges under each label
    threaded  \* history: programs that another thread dispatched to

vars == <<status, depth, subs, turn, emitting, flight, gauges, series, threaded>>

Foreground == "foreground"
Actors == Threads \cup {Foreground}

Absent == -1 \* None
NoEvent == [program |-> Absent]
NoTurn == [stage |-> "idle"]
NoGauges == [queue_depth |-> 0, active_subscriptions |-> 0]

Stages == {"mount", "drain", "updated", "reconciled"}
Kinds == {"plain", "reconciled", "unmounted"}
Gauges == [queue_depth : Nat, active_subscriptions : Nat]
Events ==
    [program : Programs, queue_depth : Nat \cup {Absent},
     active_subscriptions : Nat \cup {Absent}]

TypeOK ==
    /\ status \in [Programs -> {"new", "mounted", "unmounted"}]
    /\ depth \in [Programs -> 0..MaxDepth]
    /\ subs \in [Programs -> 0..MaxSubscriptions]
    /\ turn \in {NoTurn} \cup [stage : Stages, program : Programs]
    /\ emitting \in [Actors -> [program : Programs, kinds : Seq(Kinds)]]
    /\ flight \in [Actors -> {NoEvent} \cup Events]
    /\ gauges \in [Programs -> Gauges]
    /\ series \in [Labels -> Gauges]
    /\ threaded \subseteq Programs

Init ==
    /\ status = [p \in Programs |-> "new"]
    /\ depth = [p \in Programs |-> 0]
    /\ subs = [p \in Programs |-> 0]
    /\ turn = NoTurn
    /\ emitting = [a \in Actors |-> [program |-> CHOOSE p \in Programs : TRUE, kinds |-> <<>>]]
    /\ flight = [a \in Actors |-> NoEvent]
    /\ gauges = [p \in Programs |-> NoGauges]
    /\ series = [l \in Labels |-> NoGauges]
    /\ threaded = {}

\* Emitting is synchronous: a thread goes on when the adapter has its event.
Ready(a) == emitting[a].kinds = <<>> /\ flight[a] = NoEvent

Report(a, p, kinds) ==
    emitting' = [emitting EXCEPT ![a] = [program |-> p, kinds |-> kinds]]

InStage(p, stages) == Ready(Foreground) /\ turn # NoTurn /\ turn.program = p /\ turn.stage \in stages

GoTo(p, stage) == turn' = [stage |-> stage, program |-> p]

-----------------------------------------------------------------------------
(* Telemetry.                                                              *)

\* Mutant of Emit: an unmount passes the depth like every other event.
EmitUnmarked(a) ==
    LET p == emitting[a].program
    IN  /\ emitting[a].kinds # <<>>
        /\ flight[a] = NoEvent
        /\ flight' = [flight EXCEPT ![a] =
             [program |-> p,
              queue_depth |-> depth[p],
              active_subscriptions |->
                IF Head(emitting[a].kinds) = "reconciled" THEN subs[p] ELSE Absent]]
        /\ emitting' = [emitting EXCEPT ![a].kinds = Tail(@)]
        /\ UNCHANGED <<status, depth, subs, turn, gauges, series, threaded>>

\* observe_telemetry builds the envelope with the depth of that moment; observe passes
\* it on unless the event is the unmount, and the count of a reconciliation.
Emit(a) ==
    LET p == emitting[a].program
        kind == Head(emitting[a].kinds)
    IN  /\ emitting[a].kinds # <<>>
        /\ flight[a] = NoEvent
        /\ flight' = [flight EXCEPT ![a] =
             [program |-> p,
              queue_depth |-> IF kind = "unmounted" THEN Absent ELSE depth[p],
              active_subscriptions |-> IF kind = "reconciled" THEN subs[p] ELSE Absent]]
        /\ emitting' = [emitting EXCEPT ![a].kinds = Tail(@)]
        /\ UNCHANGED <<status, depth, subs, turn, gauges, series, threaded>>

\* Mutant of Contribution: a value that is absent is not kept.
ContributionReset(previous, event) ==
    [queue_depth |-> IF event.queue_depth = Absent THEN 0 ELSE event.queue_depth,
     active_subscriptions |->
        IF event.active_subscriptions = Absent THEN 0 ELSE event.active_subscriptions]

\* What a program contributes after an event; both values absent mean the unmount.
Contribution(previous, event) ==
    IF event.queue_depth = Absent /\ event.active_subscriptions = Absent
    THEN NoGauges
    ELSE [queue_depth |->
            IF event.queue_depth = Absent THEN previous.queue_depth ELSE event.queue_depth,
          active_subscriptions |->
            IF event.active_subscriptions = Absent
            THEN previous.active_subscriptions ELSE event.active_subscriptions]

\* Mutant of Adjust: an entry that goes is not subtracted.
AdjustUnlessGone(value, previous, next) ==
    IF next = 0 THEN value ELSE value + (next - previous)

\* Mutant of Adjust: the two values are swapped.
AdjustSwapped(value, previous, next) == value + (previous - next)

\* adjust_gauge increments or decrements by the difference.
Adjust(value, previous, next) == value + (next - previous)

\* update_gauges, under the adapter's lock.
Observe(a) ==
    LET p == flight[a].program
        l == LabelOf[p]
        previous == gauges[p]
        next == Contribution(previous, flight[a])
    IN  /\ flight[a] # NoEvent
        /\ gauges' = [gauges EXCEPT ![p] = next]
        /\ series' = [series EXCEPT ![l] =
             [queue_depth |-> Adjust(@.queue_depth, previous.queue_depth, next.queue_depth),
              active_subscriptions |->
                Adjust(@.active_subscriptions, previous.active_subscriptions,
                       next.active_subscriptions)]]
        /\ flight' = [flight EXCEPT ![a] = NoEvent]
        /\ UNCHANGED <<status, depth, subs, turn, emitting, threaded>>

-----------------------------------------------------------------------------
(* Dispatching, on any thread.  The queue's lock is released before the    *)
(* events are emitted; all of them look the same to the gauges.            *)

MarkThreaded(a, p) == threaded' = threaded \cup (IF a = Foreground THEN {} ELSE {p})

\* DispatchAccepted, and QueueWarning above the threshold.
DispatchAccepted(a, p) ==
    /\ Ready(a)
    /\ status[p] = "mounted"
    /\ depth[p] < MaxDepth
    /\ depth' = [depth EXCEPT ![p] = @ + 1]
    /\ \E n \in 1..2 : Report(a, p, [i \in 1..n |-> "plain"])
    /\ MarkThreaded(a, p)
    /\ UNCHANGED <<status, subs, turn, flight, gauges, series>>

\* QueueOverflow first when a message was displaced: the depth stays.
DispatchDisplacing(a, p) ==
    /\ Ready(a)
    /\ status[p] = "mounted"
    /\ depth[p] > 0
    /\ \E n \in 2..3 : Report(a, p, [i \in 1..n |-> "plain"])
    /\ MarkThreaded(a, p)
    /\ UNCHANGED <<status, depth, subs, turn, flight, gauges, series>>

\* QueueOverflow when the policy refuses, DispatchRejected when the program is gone.
DispatchRefused(a, p) ==
    /\ Ready(a)
    /\ status[p] # "new"
    /\ Report(a, p, <<"plain">>)
    /\ MarkThreaded(a, p)
    /\ UNCHANGED <<status, depth, subs, turn, flight, gauges, series>>

-----------------------------------------------------------------------------
(* The foreground thread.                                                  *)

Mount(p) ==
    /\ Ready(Foreground)
    /\ turn = NoTurn
    /\ status[p] = "new"
    /\ status' = [status EXCEPT ![p] = "mounted"]
    /\ GoTo(p, "mount")
    /\ UNCHANGED <<depth, subs, emitting, flight, gauges, series, threaded>>

\* A batch, a completion or a continuation, or the messages of init: QueueDrainStarted.
BeginDrain(p) ==
    /\ Ready(Foreground)
    /\ status[p] = "mounted"
    /\ turn = NoTurn \/ InStage(p, {"mount"})
    /\ GoTo(p, "drain")
    /\ Report(Foreground, p, <<"plain">>)
    /\ UNCHANGED <<status, depth, subs, flight, gauges, series, threaded>>

\* A message leaves the depth, then MessageProcessed.
Process(p) ==
    /\ InStage(p, {"drain", "updated"})
    /\ depth[p] > 0
    /\ depth' = [depth EXCEPT ![p] = @ - 1]
    /\ GoTo(p, "updated")
    /\ Report(Foreground, p, <<"plain">>)
    /\ UNCHANGED <<status, subs, flight, gauges, series, threaded>>

\* An internal message: QueueWarning above the threshold, or nothing.
EnqueueInternal(p) ==
    /\ InStage(p, {"mount", "drain", "updated"})
    /\ depth[p] < MaxDepth
    /\ depth' = [depth EXCEPT ![p] = @ + 1]
    /\ \E n \in 0..1 : Report(Foreground, p, [i \in 1..n |-> "plain"])
    /\ UNCHANGED <<status, subs, turn, flight, gauges, series, threaded>>

\* The subscriptions are reconciled, then SubscriptionsReconciled; mounting ends here
\* when init left no message.
Reconcile(p) ==
    /\ InStage(p, {"mount", "updated"})
    /\ \E n \in 0..MaxSubscriptions : subs' = [subs EXCEPT ![p] = n]
    /\ IF turn.stage = "mount" THEN turn' = NoTurn ELSE GoTo(p, "reconciled")
    /\ Report(Foreground, p, <<"reconciled">>)
    /\ UNCHANGED <<status, depth, flight, gauges, series, threaded>>

\* QueueDrainFinished; a drain that ran no update does not reconcile.
FinishDrain(p) ==
    /\ InStage(p, {"drain", "reconciled"})
    /\ turn' = NoTurn
    /\ Report(Foreground, p, <<"plain">>)
    /\ UNCHANGED <<status, depth, subs, flight, gauges, series, threaded>>

\* The runtime is dropped: close() empties the queue, ProgramUnmounted follows, and
\* the subscriptions go with the fields.
Unmount(p) ==
    /\ Ready(Foreground)
    /\ turn = NoTurn
    /\ status[p] = "mounted"
    /\ status' = [status EXCEPT ![p] = "unmounted"]
    /\ depth' = [depth EXCEPT ![p] = 0]
    /\ subs' = [subs EXCEPT ![p] = 0]
    /\ Report(Foreground, p, <<"unmounted">>)
    /\ UNCHANGED <<turn, flight, gauges, series, threaded>>

Next ==
    \/ \E a \in Actors : Emit(a) \/ Observe(a)
    \/ \E a \in Actors, p \in Programs :
         DispatchAccepted(a, p) \/ DispatchDisplacing(a, p) \/ DispatchRefused(a, p)
    \/ \E p \in Programs :
         \/ Mount(p)
         \/ BeginDrain(p)
         \/ Process(p)
         \/ EnqueueInternal(p)
         \/ Reconcile(p)
         \/ FinishDrain(p)
         \/ Unmount(p)

Spec == Init /\ [][Next]_vars

-----------------------------------------------------------------------------
(* Properties.                                                             *)

\* "Each series reports the sum over the programs that share its labels"
\* (MetricsAdapter): the deltas of several programs and threads add up to what the
\* adapter has recorded of each program.
SeriesIsSum ==
    \A l \in Labels :
        LET sharing == {p \in Programs : LabelOf[p] = l}
        IN  /\ series[l].queue_depth =
                 Total([p \in Programs |-> gauges[p].queue_depth], sharing)
            /\ series[l].active_subscriptions =
                 Total([p \in Programs |-> gauges[p].active_subscriptions], sharing)

\* The events of other threads carry no count of subscriptions and must neither erase
\* the count nor bring back an old one, whenever they are applied: between two steps of
\* the foreground thread the recorded count is the real one, and zero after unmounting.
SubscriptionsExact ==
    Ready(Foreground) => \A p \in Programs : gauges[p].active_subscriptions = subs[p]

\* A program that only the foreground thread dispatches to is recorded exactly whenever
\* that thread is idle, and leaves nothing behind, whatever other programs do.
ForegroundSettled ==
    Ready(Foreground) /\ turn = NoTurn =>
        \A p \in Programs \ threaded :
            /\ gauges[p].queue_depth = depth[p]
            /\ status[p] = "unmounted" => gauges[p] = NoGauges

\* "A program's contribution is removed when it emits ProgramUnmounted"
\* (MetricsAdapter): once no event is under way, an unmounted program contributes
\* nothing.
UnmountedGone ==
    (\A a \in Actors : Ready(a)) =>
        \A p \in Programs : status[p] = "unmounted" => gauges[p] = NoGauges

=============================================================================
