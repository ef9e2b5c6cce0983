---------------------------- MODULE QueueTracker ----------------------------
(***************************************************************************)
(* The queue that stands between the dispatchers of a mounted program and  *)
(* the program itself (crates/gpui_tea/src/queue.rs), with its two users:  *)
(* the dispatch closure (dispatcher.rs), which may run on any thread, and  *)
(* the receive task (program.rs), which runs on the foreground thread.     *)
(*                                                                         *)
(* One action is one critical section of the queue's mutex.  What happens  *)
(* between two critical sections of the same caller is visible to others,  *)
(* so Waker::wake(), which is called after the lock is released, is an     *)
(* action of its own.                                                      *)
(*                                                                         *)
(* A message is its QueueEntryId.  Ids do not wrap here: u64 wraps after   *)
(* 2^64 dispatches.                                                        *)
(***************************************************************************)
EXTENDS Integers, Sequences, Subsequences

CONSTANTS
    Dispatchers,   \* threads that hold a clone of the dispatcher
    Configs,       \* queue policies a program may be mounted with
    MaxDispatches, \* bound: calls of Dispatcher::dispatch
    MaxInternal    \* bound: internal messages enqueued

\* QueuePolicy.  The capacity of "Unbounded" is not read.
QueuePolicies ==
    [kind : {"Unbounded", "RejectNew", "DropNewest", "DropOldest"}, capacity : Nat]

ASSUME ConfigAssumption == \A p \in Configs : p \in QueuePolicies
ASSUME BoundAssumption == MaxDispatches \in Nat /\ MaxInternal \in Nat

VARIABLES
    policy,          \* QueueControl.policy
    nextId,          \* QueueControl.next_id
    active,          \* QueueControl.active: ids accepted, not processed yet
    inbox,           \* QueueControl.inbox: ids the program has not taken
    dropped,         \* QueueControl.dropped: ids displaced after they were taken
    internalPending, \* QueueControl.internal_pending
    closed,          \* QueueControl.closed
    waker,           \* QueueControl.waker is Some: the receive task's waker
    waking,          \* dispatchers that took the waker and have not called wake()
    receiver,        \* the receive task: "scheduled", "running" between two polls
                     \* of one turn, "parked", or "done"
    program,         \* "mounted"; "released": no Entity is left; "dropped"
    taken,           \* external ids in MessageQueue.pending, in order
    internals,       \* internal messages in MessageQueue.pending
    refused,         \* history: number of offers not accepted
    processed,       \* history: ids begin_processing let through, in order
    displaced,       \* history: ids DropOldest displaced, in order
    discarded        \* history: ids released unprocessed with the program

control == <<policy, nextId, active, inbox, dropped, internalPending, closed, waker>>
history == <<refused, processed, displaced, discarded>>
vars == <<control, waking, receiver, program, taken, internals, history>>

Elements(s) == {s[i] : i \in 1..Len(s)}

TypeOK ==
    /\ policy \in QueuePolicies
    /\ nextId \in Nat
    /\ active \in Seq(Nat)
    /\ inbox \in Seq(Nat)
    /\ dropped \subseteq Nat
    /\ internalPending \in Nat
    /\ closed \in BOOLEAN
    /\ waker \in BOOLEAN
    /\ waking \subseteq Dispatchers
    /\ receiver \in {"scheduled", "running", "parked", "done"}
    /\ program \in {"mounted", "released", "dropped"}
    /\ taken \in Seq(Nat)
    /\ internals \in Nat
    /\ refused \in Nat
    /\ processed \in Seq(Nat)
    /\ displaced \in Seq(Nat)
    /\ discarded \subseteq Nat

\* build_runtime: the queue is new and the receive task has just been spawned.
Init ==
    /\ policy \in Configs
    /\ nextId = 0
    /\ active = <<>>
    /\ inbox = <<>>
    /\ dropped = {}
    /\ internalPending = 0
    /\ closed = FALSE
    /\ waker = FALSE
    /\ waking = {}
    /\ receiver = "scheduled"
    /\ program = "mounted"
    /\ taken = <<>>
    /\ internals = 0
    /\ refused = 0
    /\ processed = <<>>
    /\ displaced = <<>>
    /\ discarded = {}

-----------------------------------------------------------------------------
(* Dispatching.                                                            *)

\* A dispatcher is between two calls, and the bound allows another one.
MayDispatch(d) == d \notin waking /\ nextId + refused < MaxDispatches

\* Mutant of AtCapacity: the comparison is off by one.
AtCapacityLate == policy.kind # "Unbounded" /\ Len(active) > policy.capacity

\* The policy has a capacity and the queue is at it.
AtCapacity == policy.kind # "Unbounded" /\ Len(active) >= policy.capacity

\* Mutant of Refuses: with nothing to displace, DropOldest hands the message back.
RefusesWhenEmpty ==
    closed \/ (AtCapacity /\ (policy.kind \in {"RejectNew", "DropNewest"} \/ active = <<>>))

\* The message is handed back to the caller: the program is gone, or the policy
\* keeps the messages that wait.
Refuses == closed \/ (AtCapacity /\ policy.kind \in {"RejectNew", "DropNewest"})

\* displace_oldest() has something to displace.
Displaces == AtCapacity /\ policy.kind = "DropOldest" /\ active # <<>>

\* Mutant of OldestInInbox: the front of the inbox is taken for the oldest message.
OldestInInboxUnchecked == inbox # <<>>

\* Mutant of OldestInInbox: displaced messages are always left to the drain loop.
OldestInInboxNever == FALSE

\* The displaced message still waits in the inbox, so it is released at once.
OldestInInbox == inbox # <<>> /\ Head(inbox) = Head(active)

\* QueueTracker::offer of dispatcher d when the message is handed back.
OfferRefused(d) ==
    /\ MayDispatch(d)
    /\ Refuses
    /\ refused' = refused + 1
    /\ UNCHANGED <<control, waking, receiver, program, taken, internals,
                   processed, displaced, discarded>>

\* The end of an accepted offer: the new id enters what is left of active and of
\* the inbox, and the waker, if one is registered, is taken while the lock is held.
Accept(d, rest, restInbox) ==
    /\ nextId' = nextId + 1
    /\ active' = Append(rest, nextId + 1)
    /\ inbox' = Append(restInbox, nextId + 1)
    /\ waker' = FALSE
    /\ waking' = IF waker THEN waking \cup {d} ELSE waking
    /\ UNCHANGED <<policy, internalPending, closed, receiver, program, taken,
                   internals, refused, processed, discarded>>

\* An accepted offer that displaces nothing.
OfferAccepted(d) ==
    /\ MayDispatch(d)
    /\ ~Refuses /\ ~Displaces
    /\ Accept(d, active, inbox)
    /\ UNCHANGED <<dropped, displaced>>

\* An accepted offer under DropOldest on a full queue whose oldest message still
\* waits in the inbox.
OfferDisplacingWaiting(d) ==
    /\ MayDispatch(d)
    /\ ~Refuses /\ Displaces /\ OldestInInbox
    /\ Accept(d, Tail(active), Tail(inbox))
    /\ displaced' = Append(displaced, Head(active))
    /\ UNCHANGED dropped

\* Mutant of OfferDisplacingTaken: the newest message gives way.
OfferDisplacingNewest(d) ==
    /\ MayDispatch(d)
    /\ ~Refuses /\ Displaces /\ ~OldestInInbox
    /\ Accept(d, SubSeq(active, 1, Len(active) - 1), inbox)
    /\ dropped' = dropped \cup {active[Len(active)]}
    /\ displaced' = Append(displaced, active[Len(active)])

\* The same when the program already took the oldest message: the message stays in
\* the pending queue, and the drain is told to skip it.
OfferDisplacingTaken(d) ==
    /\ MayDispatch(d)
    /\ ~Refuses /\ Displaces /\ ~OldestInInbox
    /\ Accept(d, Tail(active), inbox)
    /\ dropped' = dropped \cup {Head(active)}
    /\ displaced' = Append(displaced, Head(active))

\* Mutant of Wake: the waker is dropped without a call of wake().
WakeForgotten(d) ==
    /\ d \in waking
    /\ waking' = waking \ {d}
    /\ UNCHANGED <<control, receiver, program, taken, internals, history>>

\* The dispatcher calls wake() after it released the lock.
Wake(d) ==
    /\ d \in waking
    /\ waking' = waking \ {d}
    /\ receiver' = IF receiver = "parked" THEN "scheduled" ELSE receiver
    /\ UNCHANGED <<control, program, taken, internals, history>>

-----------------------------------------------------------------------------
(* The receive task.                                                       *)

Polls == receiver \in {"scheduled", "running"}

\* Mutant of PollTake: the batch goes before what is pending.
PollTakeInFront ==
    /\ Polls /\ program = "mounted"
    /\ inbox # <<>>
    /\ taken' = inbox \o taken
    /\ inbox' = <<>>
    /\ receiver' = "running"
    /\ UNCHANGED <<policy, nextId, active, dropped, internalPending, closed, waker,
                   waking, program, internals, history>>

\* Mutant of PollTake: the batch replaces what is pending.
PollTakeReplacing ==
    /\ Polls /\ program = "mounted"
    /\ inbox # <<>>
    /\ taken' = inbox
    /\ inbox' = <<>>
    /\ receiver' = "running"
    /\ UNCHANGED <<policy, nextId, active, dropped, internalPending, closed, waker,
                   waking, program, internals, history>>

\* poll_take returns the whole inbox and receive_external appends it to the pending
\* queue; the task then polls again, in the same turn.
PollTake ==
    /\ Polls /\ program = "mounted"
    /\ inbox # <<>>
    /\ taken' = taken \o inbox
    /\ inbox' = <<>>
    /\ receiver' = "running"
    /\ UNCHANGED <<policy, nextId, active, dropped, internalPending, closed, waker,
                   waking, program, internals, history>>

\* poll_take returns the inbox, but no Entity is left: program.update fails, the
\* batch is dropped and the task ends.
PollTakeUndelivered ==
    /\ Polls /\ program = "released"
    /\ inbox # <<>>
    /\ inbox' = <<>>
    /\ receiver' = "done"
    /\ discarded' = discarded \cup Elements(inbox)
    /\ UNCHANGED <<policy, nextId, active, dropped, internalPending, closed, waker,
                   waking, program, taken, internals, refused, processed,
                   displaced>>

\* Mutant of PollPending: the inbox is looked at before the lock is taken.
PollPendingUnlocked ==
    /\ Polls
    /\ ~closed
    /\ waker' = TRUE
    /\ receiver' = "parked"
    /\ UNCHANGED <<policy, nextId, active, inbox, dropped, internalPending, closed,
                   waking, program, taken, internals, history>>

\* poll_take finds the inbox empty and registers the task's waker.
PollPending ==
    /\ Polls
    /\ inbox = <<>> /\ ~closed
    /\ waker' = TRUE
    /\ receiver' = "parked"
    /\ UNCHANGED <<policy, nextId, active, inbox, dropped, internalPending, closed,
                   waking, program, taken, internals, history>>

-----------------------------------------------------------------------------
(* The drain loop's calls.                                                 *)

\* The active entries without id: active.front() when it is id, else the entry at
\* the position where id is found, if any.  An id is in active once.
WithoutId(id) ==
    CASE active # <<>> /\ Head(active) = id -> Tail(active)
      [] id \notin Elements(active) -> active
      [] OTHER ->
           LET position == CHOOSE p \in 1..Len(active) : active[p] = id
           IN  SubSeq(active, 1, position - 1)
                 \o SubSeq(active, position + 1, Len(active))

\* Mutant of BeginProcessing: every message counts as an internal one that leaves.
BeginProcessingMiscounted ==
    /\ program = "mounted"
    /\ taken # <<>>
    /\ Head(taken) \notin dropped
    /\ taken' = Tail(taken)
    /\ active' = WithoutId(Head(taken))
    /\ processed' = Append(processed, Head(taken))
    /\ internalPending' = internalPending - 1
    /\ UNCHANGED <<policy, nextId, inbox, dropped, closed, waker, waking, receiver,
                   program, internals, refused, displaced, discarded>>

\* begin_processing(id) of the pending queue's first external message returns true.
BeginProcessing ==
    /\ program = "mounted"
    /\ taken # <<>>
    /\ Head(taken) \notin dropped
    /\ taken' = Tail(taken)
    /\ active' = WithoutId(Head(taken))
    /\ processed' = Append(processed, Head(taken))
    /\ UNCHANGED <<policy, nextId, inbox, dropped, internalPending, closed, waker,
                   waking, receiver, program, internals, refused, displaced,
                   discarded>>

\* begin_processing(id) returns false: the message was displaced after it was taken.
SkipDropped ==
    /\ program = "mounted"
    /\ taken # <<>>
    /\ Head(taken) \in dropped
    /\ taken' = Tail(taken)
    /\ dropped' = dropped \ {Head(taken)}
    /\ UNCHANGED <<policy, nextId, active, inbox, internalPending, closed, waker,
                   waking, receiver, program, internals, history>>

\* enqueue_internal_message: internal_enqueued() counts the message just pushed.
InternalEnqueued ==
    /\ program = "mounted"
    /\ internals < MaxInternal
    /\ internals' = internals + 1
    /\ internalPending' = internalPending + 1
    /\ UNCHANGED <<policy, nextId, active, inbox, dropped, closed, waker, waking,
                   receiver, program, taken, history>>

\* internal_dequeued() counts the message just popped; the subtraction saturates.
InternalDequeued ==
    /\ program = "mounted"
    /\ internals > 0
    /\ internals' = internals - 1
    /\ internalPending' = IF internalPending = 0 THEN 0 ELSE internalPending - 1
    /\ UNCHANGED <<policy, nextId, active, inbox, dropped, closed, waker, waking,
                   receiver, program, taken, history>>

-----------------------------------------------------------------------------
(* Unmounting.                                                             *)

\* The last Entity handle goes away; the program itself is dropped later, when GPUI
\* flushes its effects.
Release ==
    /\ program = "mounted"
    /\ program' = "released"
    /\ UNCHANGED <<control, waking, receiver, taken, internals, history>>

\* Runtime::drop: close() empties the control state and forgets the waker without
\* waking it; the pending queue and the receive task are dropped with the runtime.
Close ==
    /\ program = "released"
    /\ program' = "dropped"
    /\ closed' = TRUE
    /\ active' = <<>>
    /\ inbox' = <<>>
    /\ dropped' = {}
    /\ internalPending' = 0
    /\ waker' = FALSE
    /\ receiver' = "done"
    /\ taken' = <<>>
    /\ internals' = 0
    /\ discarded' = discarded \cup (Elements(taken) \ dropped) \cup Elements(inbox)
    /\ UNCHANGED <<policy, nextId, waking, refused, processed, displaced>>

-----------------------------------------------------------------------------

Offer(d) ==
    \/ OfferRefused(d)
    \/ OfferAccepted(d)
    \/ OfferDisplacingWaiting(d)
    \/ OfferDisplacingTaken(d)

Poll == PollTake \/ PollTakeUndelivered \/ PollPending

Drain == BeginProcessing \/ SkipDropped

Next ==
    \/ \E d \in Dispatchers : Offer(d) \/ Wake(d)
    \/ Poll
    \/ Drain
    \/ InternalEnqueued
    \/ InternalDequeued
    \/ Release
    \/ Close

Spec == Init /\ [][Next]_vars

(* The executor runs every task that is scheduled, a thread that took the  *)
(* waker calls wake(), and the program goes on draining what it took.      *)
(* Nobody has to dispatch, and a program may stay mounted for ever.        *)
Fairness ==
    /\ \A d \in Dispatchers : WF_vars(Wake(d))
    /\ WF_vars(Poll)
    /\ WF_vars(Drain)
    /\ WF_vars(Close)

FairSpec == Spec /\ Fairness

-----------------------------------------------------------------------------
(* Properties.                                                             *)

Unprocessed == Only(taken, Nat \ dropped) \o inbox

Increasing(s) == \A i, j \in 1..Len(s) : i < j => s[i] < s[j]

\* The number of external messages the policy lets wait.  DropOldest keeps the new
\* message even when there is nothing to displace.
Bound == IF policy.kind = "DropOldest" /\ policy.capacity = 0 THEN 1 ELSE policy.capacity

\* The inbox is the newest suffix of active, whatever was displaced or taken in
\* between: the comment of QueueControl.inbox (queue.rs) and the test by which
\* displace_oldest() decides where the displaced message is rest on it.
InboxIsNewestSuffix ==
    /\ Len(inbox) <= Len(active)
    /\ inbox = SubSeq(active, Len(active) - Len(inbox) + 1, Len(active))

\* What the policy counts is what exists: as long as the receive task lives, active
\* lists, in dispatch order, exactly the messages that the drain will not skip and
\* those still in the inbox, and the depth counts every internal message once.
\* A displacement that races with poll_take, or with begin_processing, would break it.
DepthIsExact ==
    /\ receiver # "done" => active = Unprocessed
    /\ internalPending = internals

\* The bound holds at every moment, for messages in the inbox and messages the
\* program took together, whichever dispatchers race (QueuePolicy, policy.rs).
CapacityRespected == policy.kind # "Unbounded" => Len(active) <= Bound

\* poll_take registers the waker under the lock that offer() takes it under, so a
\* message never waits in the inbox of a parked receive task that no dispatcher is
\* about to wake (QueueTracker::offer and poll_take, queue.rs).
NoLostWakeup ==
    /\ receiver = "parked" /\ inbox # <<>> => waking # {}
    /\ receiver = "parked" /\ ~closed => waker \/ waking # {}

\* Every accepted message is in one place: it waits, or the model got it, or
\* DropOldest displaced it, or it was released with the program.  No message is
\* both processed and reported as displaced or released.
NothingVanishes ==
    LET out == Elements(processed) \cup Elements(displaced) \cup discarded
        waiting == (Elements(taken) \ dropped) \cup Elements(inbox)
    IN  /\ out \cup waiting = 1..nextId
        /\ receiver # "done" => out \cap waiting = {}
        /\ Elements(processed) \cap (Elements(displaced) \cup discarded) = {}

\* External messages are processed in dispatch order and at most once, and
\* displacements also take the oldest first (drain_queue and displace_oldest).
DispatchOrder == Increasing(processed) /\ Increasing(displaced)

\* A message DropOldest gives up is older than every message that still waits and
\* newer than every message already processed: the queue never loses a newer
\* message to keep an older one (displace_oldest, queue.rs).
DisplacesOldest ==
    [][displaced' # displaced =>
         LET lost == displaced'[Len(displaced')]
         IN  /\ \A e \in Elements(active') : lost < e
             /\ \A e \in Elements(processed) : e < lost]_vars

\* Every message a dispatcher was told is accepted is processed, displaced, or
\* released with the program in the end.
AcceptedIsSettled ==
    \A id \in 1..MaxDispatches :
        (id <= nextId) ~>
            (id \in Elements(processed) \cup Elements(displaced) \cup discarded)

-----------------------------------------------------------------------------
(* The inductive invariant behind the properties.  Ids are given out in    *)
(* sequence, and a message leaves active at its old end only, so active is *)
(* an interval of ids, the inbox is its newest part, and what the program  *)
(* took is the rest of it, behind messages displaced since.                *)

\* The newest id that is no longer active, and the number of displaced messages that
\* the drain has yet to skip.
LastSettled == nextId - Len(active)
Stale == Len(taken) + Len(inbox) - Len(active)

ActiveWindow ==
    /\ Len(inbox) <= Len(active) /\ Len(active) <= nextId
    /\ \A i \in 1..Len(active) : active[i] = LastSettled + i
    /\ \A i \in 1..Len(inbox) : inbox[i] = nextId - Len(inbox) + i

TakenWindow ==
    receiver # "done" =>
      /\ Stale >= 0
      /\ \A i \in 1..Len(taken) :
           /\ i <= Stale => taken[i] \in dropped /\ taken[i] <= LastSettled
           /\ i > Stale => taken[i] = LastSettled + (i - Stale)
      /\ \A e \in dropped : \E i \in 1..Stale : taken[i] = e
      /\ \A i, j \in 1..Stale : i < j => taken[i] < taken[j]

Lifecycle ==
    /\ receiver = "done" => program # "mounted"
    /\ closed <=> program = "dropped"

SettledInOrder ==
    /\ \A e \in Elements(processed) \cup Elements(displaced) : e <= LastSettled
    /\ DispatchOrder

\* What the queue holds is fixed by three numbers, whatever dispatchers, the receive
\* task and the drain did to it: it is why begin_processing always finds its message
\* at the front of active, and displace_oldest knows where the oldest message is.
Windows == ActiveWindow /\ TakenWindow /\ Lifecycle /\ SettledInOrder

-----------------------------------------------------------------------------
(* The two-stage queue implements one bounded first-in first-out mailbox.  *)

Mailbox == INSTANCE Mailbox WITH
    queue <- active, delivered <- processed, lost <- displaced,
    accepted <- nextId, open <- ~closed

\* The inbox, the pending queue and the set of dropped ids together behave like one
\* first-in first-out mailbox with the policy's bound, which takes every message the
\* policy lets in: what offer hands back, the mailbox may hand back, and DropOldest
\* keeps the new message even when its capacity is 0 and nothing can make room (offer).
ImplementsMailbox == Mailbox!Spec

=============================================================================
