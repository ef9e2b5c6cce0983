---------------------------- MODULE ProgramProofs ----------------------------
(***************************************************************************)
(* Theorems about Program.  Every step of the program is a step of the     *)
(* queue it shares with the dispatchers, or none, so what QueueTracker     *)
(* promises holds of the queue in the program.  The drain loop, the turns  *)
(* and the history of internal messages have invariants of their own, and  *)
(* so have the observations of ProgramTurns, at the end.                   *)
(***************************************************************************)
EXTENDS ProgramTurns, EffectTrackingProofs, CollectionsProofs

QP == INSTANCE QueueTrackerProofs WITH
    taken <- IdsOf(pending, "External"),
    internals <- Len(IdsOf(pending, "Internal")),
    processed <- IdsOf(handled, "External")

-----------------------------------------------------------------------------
(* The queue.                                                              *)

\* A step that leaves the shared state and the two sequences of messages alone leaves
\* the queue alone.
LEMMA QueueUntouched ==
    ASSUME UNCHANGED <<queueVars, pending, handled>>
    PROVE  UNCHANGED Queue!vars
  BY DEF queueVars, Queue!vars, Queue!control, Queue!history

LEMMA QueueStep == [Next]_vars => [Queue!Next]_(Queue!vars)
  <1> SUFFICES ASSUME [Next]_vars PROVE [Queue!Next]_(Queue!vars)
    OBVIOUS
  <1>1. ASSUME NEW d \in Dispatchers, Dispatch(d) \/ Wake(d) PROVE Queue!Next
    BY <1>1 DEF Dispatch, Wake, Queue!Next
  <1>2. ASSUME DrainStep PROVE [Queue!Next]_(Queue!vars)
    <2>1. CASE ProcessExternal \/ SkipExternal
      BY <2>1 DEF ProcessExternal, SkipExternal, Queue!Next, Queue!Drain
    <2>2. CASE ProcessInternal
      BY <2>2 DEF ProcessInternal, Queue!Next
    <2>3. CASE ExecuteEmit
      BY <2>3 DEF ExecuteEmit, EnqueueInternal, Queue!Next
    <2>4. CASE FinishDrain \/ ExecuteEffect \/ ExecuteKeyed \/ ExecuteCancel
               \/ CommandDone \/ FinishInit
      BY <2>4, QueueUntouched
         DEF FinishDrain, ExecuteEffect, ExecuteKeyed, ExecuteCancel, CommandDone, FinishInit
    <2>5. QED
      BY <1>2, <2>1, <2>2, <2>3, <2>4 DEF DrainStep
  <1>3. ASSUME Receive PROVE Queue!Next
    BY <1>3 DEF Receive, Queue!Next, Queue!Poll
  <1>4. ASSUME ReceiveNothing PROVE Queue!Next
    BY <1>4 DEF ReceiveNothing, Queue!Next, Queue!Poll
  <1>5. ASSUME Continue PROVE UNCHANGED Queue!vars
    BY <1>5, QueueUntouched DEF Continue
  <1>6. ASSUME NEW r \in running, Complete(r) PROVE [Queue!Next]_(Queue!vars)
    <2>1. \/ Queue!InternalEnqueued
          \/ UNCHANGED <<queueVars, pending, handled>>
      BY <1>6 DEF Complete, EnqueueInternal
    <2>2. QED
      BY <2>1, QueueUntouched DEF Queue!Next
  <1>7. ASSUME NEW r \in running, Ignore(r) \/ Undelivered(r) PROVE UNCHANGED Queue!vars
    BY <1>7, QueueUntouched DEF Ignore, Undelivered, ownVars
  <1>8. ASSUME Release \/ Unmount PROVE Queue!Next
    BY <1>8 DEF Release, Unmount, Queue!Next
  <1>9. ASSUME UNCHANGED vars PROVE UNCHANGED Queue!vars
    BY <1>9, QueueUntouched DEF vars, ownVars
  <1>10. QED
    BY <1>1, <1>2, <1>3, <1>4, <1>5, <1>6, <1>7, <1>8, <1>9 DEF Next

\* The program uses the queue the way the queue expects to be used: whatever the drain
\* loop, the commands and the completions do (program.rs), the queue sees the calls of
\* one owner that takes, processes and skips messages in order.
THEOREM ProgramImplementsQueue == Spec => ImplementsQueue
  <1>1. Init => Queue!Init
    BY DEF Init
  <1>2. QED
    BY <1>1, QueueStep, PTL DEF Spec, ImplementsQueue, Queue!Spec

-----------------------------------------------------------------------------
(* What the queue inherits.                                                *)

\* The queue of the proofs is the queue of the program.
LEMMA SameQueue == Queue!Spec => QP!Spec
  <1>1. Queue!Init => QP!Init
    BY DEF Queue!Init, QP!Init
  <1>2. [Queue!Next]_(Queue!vars) => [QP!Next]_(QP!vars)
    BY DEF
       Queue!Offer, QP!Offer, Queue!OfferRefused, QP!OfferRefused,
       Queue!OfferAccepted, QP!OfferAccepted, Queue!OfferDisplacingWaiting,
       QP!OfferDisplacingWaiting, Queue!OfferDisplacingTaken,
       QP!OfferDisplacingTaken, Queue!Accept, QP!Accept, Queue!MayDispatch,
       QP!MayDispatch, Queue!Refuses, QP!Refuses, Queue!Displaces, QP!Displaces,
       Queue!AtCapacity, QP!AtCapacity, Queue!OldestInInbox, QP!OldestInInbox,
       Queue!Wake, QP!Wake, Queue!Poll, QP!Poll, Queue!PollTake, QP!PollTake,
       Queue!PollTakeUndelivered, QP!PollTakeUndelivered, Queue!PollPending,
       QP!PollPending, Queue!Polls, QP!Polls, Queue!Drain, QP!Drain,
       Queue!BeginProcessing, QP!BeginProcessing, Queue!SkipDropped, QP!SkipDropped,
       Queue!WithoutId, QP!WithoutId, Queue!Elements, QP!Elements,
       Queue!InternalEnqueued, QP!InternalEnqueued, Queue!InternalDequeued,
       QP!InternalDequeued, Queue!Release, QP!Release, Queue!Close, QP!Close,
       Queue!vars, QP!vars, Queue!control, QP!control, Queue!history, QP!history,
       Queue!Next, QP!Next
  <1>3. QED
    BY <1>1, <1>2, PTL DEF Queue!Spec, QP!Spec

\* The windows of QueueTracker hold of the program's queue.
LEMMA QueueHolds == Spec => [](QP!TypeOK /\ QP!Windows)
  <1>1. /\ \A p \in Configs : p \in QP!QueuePolicies
        /\ MaxDispatches \in Nat /\ MaxInternal \in Nat
    BY PolicyAssumption, ProgramBoundAssumption DEF Queue!QueuePolicies, QP!QueuePolicies
  <1>2. QP!Spec => []QP!TypeOK
    BY <1>1, QP!TypeCorrect
  <1>3. QP!Spec => []QP!Windows
    BY <1>1, QP!WindowsHold
  <1>4. QED
    BY <1>2, <1>3, SameQueue, ProgramImplementsQueue, PTL DEF ImplementsQueue

\* What the queue promises its users holds in the program, for every command that
\* update may return and every order of turns: the policy's bound, the exact depth,
\* and that no accepted message vanishes.
THEOREM QueuePromisesKept ==
    Spec => [](Queue!CapacityRespected /\ Queue!DepthIsExact /\ Queue!NothingVanishes)
  <1>1. /\ \A p \in Configs : p \in QP!QueuePolicies
        /\ MaxDispatches \in Nat /\ MaxInternal \in Nat
    BY PolicyAssumption, ProgramBoundAssumption DEF Queue!QueuePolicies, QP!QueuePolicies
  <1>2. QP!Spec => []QP!CapacityRespected
    BY <1>1, QP!CapacityKept
  <1>3. QP!Spec => []QP!DepthIsExact
    BY <1>1, QP!DepthAlwaysExact
  <1>4. QP!Spec => []QP!NothingVanishes
    BY <1>1, QP!NothingEverVanishes
  <1>5. QP!CapacityRespected => Queue!CapacityRespected
    BY DEF QP!CapacityRespected, Queue!CapacityRespected, QP!Bound, Queue!Bound
  <1>6. QP!DepthIsExact => Queue!DepthIsExact
    BY DEF QP!DepthIsExact, Queue!DepthIsExact, QP!Unprocessed, Queue!Unprocessed,
           QP!Only, Queue!Only, QP!OnlyOfFirst, Queue!OnlyOfFirst
  <1>7. QP!NothingVanishes => Queue!NothingVanishes
    BY DEF QP!NothingVanishes, Queue!NothingVanishes, QP!Elements, Queue!Elements
  <1>8. QED
    BY <1>2, <1>3, <1>4, <1>5, <1>6, <1>7, SameQueue, ProgramImplementsQueue, PTL
       DEF ImplementsQueue

-----------------------------------------------------------------------------
(* Types.                                                                  *)

LEMMA MessageSequences ==
    ASSUME NEW M, NEW s \in Seq(M)
    PROVE  /\ Len(s) \in Nat
           /\ \A i \in 1..Len(s) : s[i] \in M
           /\ s # <<>> => Head(s) \in M /\ Tail(s) \in Seq(M)
           /\ \A e \in M : Append(s, e) \in Seq(M)
           /\ \A t \in Seq(M) : s \o t \in Seq(M)
  OBVIOUS

LEMMA WiderSequences ==
    ASSUME NEW A, NEW B, A \subseteq B
    PROVE  Seq(A) \subseteq Seq(B)
  <1> SUFFICES ASSUME NEW s \in Seq(A) PROVE s \in Seq(B)
    OBVIOUS
  <1>1. /\ Len(s) \in Nat /\ s = [i \in 1..Len(s) |-> s[i]]
        /\ \A i \in 1..Len(s) : s[i] \in A
    OBVIOUS
  <1>2. QED
    BY <1>1

LEMMA NoMessages == \A M : <<>> \in Seq(M)
  OBVIOUS

\* What the steps of the program keep of its types besides those of the queue.
OwnTypeOK ==
    /\ EffectTypeOK
    /\ budget \in Budgets
    /\ pending \in Seq(Messages)
    /\ fg \in {"idle", "mount", "drain", "command"}
    /\ processedNow \in 0..budget
    /\ todo \in Seq(Instructions)
    /\ continuation \in BOOLEAN
    /\ subscribed \in {"none", "current", "stale"}
    /\ emittedAt \in Seq(Nat)
    /\ handled \in Seq(Messages)

\* Budgets are numbers, so what the loop has counted is one.
LEMMA BudgetTypes ==
    ASSUME OwnTypeOK
    PROVE  /\ budget \in Nat /\ budget >= 1 /\ 0 \in 0..budget
           /\ processedNow \in Nat /\ processedNow <= budget
           /\ processedNow < budget => processedNow + 1 \in 0..budget
  BY BudgetAssumption DEF OwnTypeOK

LEMMA CommandTypes ==
    /\ AllowedCommands \subseteq Seq(Instructions)
    /\ \A i \in Instructions : i.kind = "Keyed" \/ i.kind = "Cancel" => i.key \in Keys
  BY CommandAssumption DEF AllowedCommands, Instructions

\* The registries change by the calls of EffectTracking, or with the program gone.
LEMMA EffectSteps ==
    ASSUME OwnTypeOK, [Next]_vars
    PROVE  \/ UNCHANGED effectVars
           \/ (\E k \in Keys : StartKeyed(k) \/ CancelKeyed(k)) \/ StartEffect
           \/ \E r \in running :
                CompleteCurrent(r) \/ CompleteStale(r) \/ Reap(r) \/ CompleteEffect(r)
           \/ program' # "mounted" /\ (DropTasks \/ \E r \in running : Undelivered(r))
  <1>1. CASE DrainStep
    <2>1. CASE ExecuteKeyed \/ ExecuteCancel
      <3>1. todo # <<>> /\ Head(todo).kind \in {"Keyed", "Cancel"}
        BY <2>1 DEF ExecuteKeyed, ExecuteCancel, Executes
      <3>2. Head(todo).key \in Keys
        BY <3>1, MessageSequences, CommandTypes DEF OwnTypeOK
      <3>3. QED
        BY <2>1, <3>2 DEF ExecuteKeyed, ExecuteCancel
    <2>2. CASE ~(ExecuteKeyed \/ ExecuteCancel)
      BY <1>1, <2>2
         DEF DrainStep, ProcessExternal, SkipExternal, ProcessInternal, FinishDrain,
             ExecuteEmit, ExecuteEffect, CommandDone, FinishInit
    <2>3. QED
      BY <2>1, <2>2
  <1>2. CASE Unmount
    BY <1>2 DEF Unmount, Queue!Close
  <1>3. ASSUME NEW r \in running, Complete(r) \/ Ignore(r) \/ Undelivered(r)
        PROVE  \/ \E x \in running :
                    CompleteCurrent(x) \/ CompleteStale(x) \/ Reap(x) \/ CompleteEffect(x)
               \/ program' # "mounted" /\ \E x \in running : Undelivered(x)
    BY <1>3 DEF Complete, Ignore, Undelivered, queueVars
  <1>4. CASE \/ \E d \in Dispatchers : Dispatch(d) \/ Wake(d)
             \/ Receive \/ ReceiveNothing \/ Continue \/ Release
             \/ UNCHANGED vars
    BY <1>4 DEF Dispatch, Wake, Receive, ReceiveNothing, Continue, Release, vars
  <1>5. QED
    BY <1>1, <1>2, <1>3, <1>4 DEF Next

LEMMA EffectTypesStep ==
    ASSUME OwnTypeOK, [Next]_vars
    PROVE  EffectTypeOK'
  <1>1. EffectTypeOK
    BY DEF OwnTypeOK
  <1>2. CASE UNCHANGED effectVars
    BY <1>1, <1>2, EffectTypeStep
  <1>3. CASE \/ (\E k \in Keys : StartKeyed(k) \/ CancelKeyed(k)) \/ StartEffect
             \/ \E r \in running :
                  CompleteCurrent(r) \/ CompleteStale(r) \/ Reap(r) \/ CompleteEffect(r)
    BY <1>1, <1>3, EffectTypeStep DEF EffectNext
  <1>4. CASE DropTasks
    BY <1>1, <1>4 DEF DropTasks, EffectTypeOK, NoTask
  <1>5. CASE \E r \in running : Undelivered(r)
    BY <1>1, <1>5 DEF Undelivered, EffectTypeOK
  <1>6. QED
    BY <1>2, <1>3, <1>4, <1>5, EffectSteps

\* The batch that the receive task brings is a sequence of messages.
LEMMA BatchTypes ==
    ASSUME inbox \in Seq(Nat)
    PROVE  [i \in 1..Len(inbox) |-> External(inbox[i])] \in Seq([origin : {"External"}, id : Nat])
  BY DEF External

LEMMA ExternalsAreMessages ==
    Seq([origin : {"External"}, id : Nat]) \subseteq Seq(Messages)
  <1>1. [origin : {"External"}, id : Nat] \subseteq Messages
    BY DEF Messages
  <1>2. QED
    BY <1>1, WiderSequences

LEMMA EnqueueTypes ==
    ASSUME nextId \in Nat, OwnTypeOK, EnqueueInternal
    PROVE  /\ emittedAt' \in Seq(Nat) /\ pending' \in Seq(Messages)
           /\ handled' = handled
  <1>1. emitted + 1 \in Nat
    BY DEF emitted, OwnTypeOK
  <1>2. Internal(emitted + 1) \in Messages
    BY <1>1 DEF Internal, Messages
  <1>3. QED
    BY <1>2, MessageSequences DEF EnqueueInternal, OwnTypeOK

LEMMA LoopTypes ==
    ASSUME OwnTypeOK, EffectTypeOK', ProcessExternal \/ SkipExternal \/ ProcessInternal
    PROVE  OwnTypeOK'
  <1>1. /\ pending # <<>> /\ pending' = Tail(pending) /\ processedNow < budget
        /\ UNCHANGED <<budget, continuation, emittedAt>>
    BY DEF ProcessExternal, SkipExternal, ProcessInternal, InLoop
  <1>2. Tail(pending) \in Seq(Messages) /\ Append(handled, Head(pending)) \in Seq(Messages)
    BY <1>1, MessageSequences DEF OwnTypeOK
  <1>3. CASE Update(Head(pending))
    <2>1. /\ fg' = "command" /\ processedNow' = processedNow + 1
          /\ subscribed' \in {"none", "stale"}
          /\ handled' \in Seq(Messages) /\ todo' \in Seq(Instructions)
      BY <1>2, <1>3, CommandTypes DEF Update
    <2>2. processedNow' \in 0..budget
      BY <1>1, <2>1, BudgetTypes
    <2>3. QED
      BY <1>1, <1>2, <2>1, <2>2 DEF OwnTypeOK
  <1>4. CASE UNCHANGED <<fg, processedNow, todo, subscribed, handled>>
    BY <1>1, <1>2, <1>4 DEF OwnTypeOK
  <1>5. QED
    BY <1>3, <1>4 DEF ProcessExternal, SkipExternal, ProcessInternal

LEMMA CommandStepTypes ==
    ASSUME nextId \in Nat, OwnTypeOK, EffectTypeOK',
           \/ ExecuteEmit \/ ExecuteEffect \/ ExecuteKeyed \/ ExecuteCancel
           \/ CommandDone \/ FinishInit \/ FinishDrain
    PROVE  OwnTypeOK'
  <1>1. CASE ExecuteEmit
    <2>1. todo' \in Seq(Instructions)
      BY <1>1, MessageSequences DEF ExecuteEmit, Executes, OwnTypeOK
    <2>2. QED
      BY <1>1, <2>1, EnqueueTypes DEF ExecuteEmit, OwnTypeOK
  <1>2. CASE ExecuteEffect \/ ExecuteKeyed \/ ExecuteCancel
    <2>1. todo' \in Seq(Instructions)
      BY <1>2, MessageSequences
         DEF ExecuteEffect, ExecuteKeyed, ExecuteCancel, Executes, OwnTypeOK
    <2>2. QED
      BY <1>2, <2>1 DEF ExecuteEffect, ExecuteKeyed, ExecuteCancel, OwnTypeOK
  <1>3. CASE CommandDone \/ FinishInit
    BY <1>3, BudgetTypes DEF CommandDone, FinishInit, BeginDrain, OwnTypeOK
  <1>4. CASE FinishDrain
    <2>1. continuation' \in BOOLEAN
      BY <1>4, Zenon DEF FinishDrain
    <2>2. /\ fg' = "idle" /\ processedNow' = 0 /\ subscribed' \in {"current", subscribed}
          /\ UNCHANGED <<budget, pending, todo, emittedAt, handled>>
      BY <1>4 DEF FinishDrain
    <2>3. QED
      BY <2>1, <2>2, BudgetTypes DEF OwnTypeOK
  <1>5. QED
    BY <1>1, <1>2, <1>3, <1>4

LEMMA OwnTypeStep ==
    ASSUME nextId \in Nat, inbox \in Seq(Nat), OwnTypeOK, [Next]_vars
    PROVE  OwnTypeOK'
  <1>1. EffectTypeOK'
    BY EffectTypesStep
  <1>2. CASE DrainStep
    BY <1>1, <1>2, LoopTypes, CommandStepTypes DEF DrainStep
  <1>3. CASE Receive
    <2>1. pending' \in Seq(Messages)
      BY <1>3, BatchTypes, ExternalsAreMessages, MessageSequences DEF Receive, OwnTypeOK
    <2>2. QED
      BY <1>1, <1>3, <2>1, BudgetTypes DEF Receive, BeginDrain, OwnTypeOK
  <1>4. ASSUME NEW r \in running, Complete(r) PROVE OwnTypeOK'
    <2>1. CASE EnqueueInternal /\ BeginDrain
      BY <1>1, <1>4, <2>1, EnqueueTypes, BudgetTypes DEF Complete, BeginDrain, OwnTypeOK
    <2>2. CASE UNCHANGED <<pending, emittedAt, handled, fg, processedNow>>
      BY <1>1, <1>4, <2>2 DEF Complete, OwnTypeOK
    <2>3. QED
      BY <1>4, <2>1, <2>2 DEF Complete
  <1>5. CASE Unmount
    BY <1>1, <1>5, NoMessages DEF Unmount, OwnTypeOK
  <1>6. CASE Continue
    <2>1. CASE BeginDrain
      BY <1>1, <1>6, <2>1, BudgetTypes DEF Continue, BeginDrain, OwnTypeOK
    <2>2. CASE UNCHANGED <<fg, processedNow>>
      BY <1>1, <1>6, <2>2 DEF Continue, OwnTypeOK
    <2>3. QED
      BY <1>6, <2>1, <2>2 DEF Continue
  <1>7. CASE UNCHANGED ownVars
    BY <1>1, <1>7 DEF ownVars, OwnTypeOK
  <1>8. QED
    BY <1>2, <1>3, <1>4, <1>5, <1>6, <1>7
       DEF Next, Dispatch, Wake, ReceiveNothing, Ignore, Undelivered, Release, vars

LEMMA OwnTypeInit == Init => OwnTypeOK
  <1> SUFFICES ASSUME Init PROVE OwnTypeOK
    OBVIOUS
  <1>1. EffectTypeOK /\ todo \in Seq(Instructions)
    BY EffectTypeInit, CommandTypes DEF Init
  <1>2. /\ budget \in Budgets /\ fg = "mount" /\ processedNow = 0
        /\ continuation = FALSE /\ subscribed = "none"
        /\ pending = <<>> /\ handled = <<>> /\ emittedAt = <<>>
    BY DEF Init
  <1>3. processedNow \in 0..budget
    BY <1>2, BudgetAssumption
  <1>4. QED
    BY <1>1, <1>2, <1>3, NoMessages DEF OwnTypeOK

\* The types of the program and of its queue.
LEMMA OwnTypesHold == Spec => []OwnTypeOK
  <1>1. QP!TypeOK => nextId \in Nat /\ inbox \in Seq(Nat)
    BY DEF QP!TypeOK
  <1>2. QP!TypeOK /\ OwnTypeOK /\ [Next]_vars => OwnTypeOK'
    BY <1>1, OwnTypeStep
  <1>3. QED
    BY <1>2, OwnTypeInit, QueueHolds, PTL DEF Spec

\* Every variable of the program, its queue's and its registries' keeps its type, for
\* all commands, policies, budgets and keys.
THEOREM ProgramTypesCorrect == Spec => []TypeOK
  <1>1. QP!TypeOK /\ OwnTypeOK => TypeOK
    BY DEF QP!TypeOK, Queue!TypeOK, QP!QueuePolicies, Queue!QueuePolicies, OwnTypeOK, TypeOK
  <1>2. QED
    BY <1>1, QueueHolds, OwnTypesHold, PTL

-----------------------------------------------------------------------------
(* Effects.                                                                *)

LEMMA NewestStep ==
    ASSUME OwnTypeOK, NewestTracked, [Next]_vars
    PROVE  NewestTracked'
  <1>1. EffectTypeOK
    BY DEF OwnTypeOK
  <1>2. CASE UNCHANGED effectVars
    BY <1>2 DEF effectVars, NewestTracked, LatestWins
  <1>3. CASE (\E k \in Keys : StartKeyed(k) \/ CancelKeyed(k)) \/ StartEffect
    BY <1>1, <1>3, CommandNewest
  <1>4. CASE \E r \in running :
               CompleteCurrent(r) \/ CompleteStale(r) \/ Reap(r) \/ CompleteEffect(r)
    BY <1>1, <1>4, CompletionNewest
  <1>5. CASE DropTasks
    BY <1>5 DEF DropTasks, NewestTracked, LatestWins
  <1>6. CASE \E r \in running : Undelivered(r)
    BY <1>6 DEF Undelivered, NewestTracked, LatestWins
  <1>7. QED
    BY <1>2, <1>3, <1>4, <1>5, <1>6, EffectSteps

\* The newest keyed command wins also when commands come from update, in batches, and
\* completions between turns, and after the last handle of the program went away.
THEOREM LatestWinsInProgram == Spec => []LatestWins
  <1>1. Init => NewestTracked
    BY NewestTrackedInit DEF Init
  <1>2. OwnTypeOK /\ NewestTracked /\ [Next]_vars => NewestTracked'
    BY NewestStep
  <1>3. NewestTracked => LatestWins
    BY DEF NewestTracked
  <1>4. QED
    BY <1>1, <1>2, <1>3, OwnTypesHold, PTL DEF Spec

\* A program that is mounted was never anything else, and one that is dropped stays so;
\* the policy is that of the configuration.
LEMMA LifecycleStep ==
    [Next]_vars => /\ program' = "mounted" => program = "mounted"
                   /\ program = "dropped" => program' = "dropped"
                   /\ policy' = policy
  <1> SUFFICES ASSUME [Queue!Next]_(Queue!vars)
               PROVE  /\ program' = "mounted" => program = "mounted"
                      /\ program = "dropped" => program' = "dropped"
                      /\ policy' = policy
    BY QueueStep
  <1>1. CASE UNCHANGED Queue!vars
    BY <1>1 DEF Queue!vars, Queue!control
  <1>2. ASSUME NEW d \in Dispatchers, Queue!Offer(d) \/ Queue!Wake(d)
        PROVE  UNCHANGED <<program, policy>>
    BY <1>2 DEF Queue!Offer, Queue!OfferRefused, Queue!control, Queue!OfferAccepted,
                Queue!OfferDisplacingWaiting, Queue!OfferDisplacingTaken, Queue!Accept,
                Queue!Wake
  <1>3. CASE Queue!Poll \/ Queue!Drain
    BY <1>3 DEF Queue!Poll, Queue!PollTake, Queue!PollTakeUndelivered, Queue!PollPending,
                Queue!Drain, Queue!BeginProcessing, Queue!SkipDropped
  <1>4. CASE Queue!InternalEnqueued \/ Queue!InternalDequeued
    BY <1>4 DEF Queue!InternalEnqueued, Queue!InternalDequeued
  <1>5. CASE Queue!Release \/ Queue!Close
    BY <1>5 DEF Queue!Release, Queue!Close, Queue!control
  <1>6. QED
    BY <1>1, <1>2, <1>3, <1>4, <1>5 DEF Queue!Next

\* While the program is mounted no entry outlives its future, and every effect that
\* runs has one, in whatever order commands and completions come.
THEOREM TrackedInProgram == Spec => []TrackedWhileMounted
  <1>1. Init => TrackedWhileMounted
    BY EntriesInit DEF Init, TrackedWhileMounted
  <1>2. OwnTypeOK /\ TrackedWhileMounted /\ [Next]_vars => TrackedWhileMounted'
    <2> SUFFICES ASSUME OwnTypeOK, TrackedWhileMounted, [Next]_vars, program' = "mounted"
                 PROVE  EntriesHaveFutures'
      BY DEF TrackedWhileMounted
    <2>1. EntriesHaveFutures /\ EffectTypeOK
      BY LifecycleStep DEF TrackedWhileMounted, OwnTypeOK
    <2>2. CASE UNCHANGED effectVars
      BY <2>1, <2>2 DEF effectVars, EntriesHaveFutures
    <2>3. CASE (\E k \in Keys : StartKeyed(k) \/ CancelKeyed(k)) \/ StartEffect
      BY <2>1, <2>3, CommandEntries
    <2>4. CASE \E r \in running :
                 CompleteCurrent(r) \/ CompleteStale(r) \/ Reap(r) \/ CompleteEffect(r)
      BY <2>1, <2>4, CompletionEntries
    <2>5. QED
      BY <2>2, <2>3, <2>4, EffectSteps
  <1>3. QED
    BY <1>1, <1>2, OwnTypesHold, PTL DEF Spec

-----------------------------------------------------------------------------
(* The drain loop.                                                         *)

\* NothingStranded with the receive task in the middle of its turn, or the program
\* released: what is pending between two turns has a deferred drain to come.
Deferred == fg = "idle" => pending = <<>> \/ continuation

LEMMA DeferredStep == Deferred /\ [Next]_vars => Deferred'
  <1> SUFFICES ASSUME Deferred, [Next]_vars PROVE Deferred'
    OBVIOUS
  <1>1. CASE DrainStep
    <2>1. CASE ProcessExternal \/ ProcessInternal
      BY <2>1 DEF ProcessExternal, ProcessInternal, Update, Deferred
    <2>2. CASE SkipExternal
      BY <2>2 DEF SkipExternal, InLoop, Deferred
    <2>3. CASE FinishDrain
      BY <2>3, Zenon DEF FinishDrain, Deferred
    <2>4. CASE ExecuteEmit \/ ExecuteEffect \/ ExecuteKeyed \/ ExecuteCancel
      BY <2>4 DEF ExecuteEmit, ExecuteEffect, ExecuteKeyed, ExecuteCancel, Executes, Deferred
    <2>5. CASE CommandDone \/ FinishInit
      BY <2>5 DEF CommandDone, FinishInit, BeginDrain, Deferred
    <2>6. QED
      BY <1>1, <2>1, <2>2, <2>3, <2>4, <2>5 DEF DrainStep
  <1>2. CASE Receive
    BY <1>2 DEF Receive, BeginDrain, Deferred
  <1>3. CASE Continue
    BY <1>3 DEF Continue, BeginDrain, Deferred
  <1>4. ASSUME NEW r \in running, Complete(r) PROVE Deferred'
    BY <1>4 DEF Complete, BeginDrain, Deferred
  <1>5. CASE Unmount
    BY <1>5 DEF Unmount, Deferred
  <1>6. CASE UNCHANGED ownVars
    BY <1>6 DEF ownVars, Deferred
  <1>7. QED
    BY <1>1, <1>2, <1>3, <1>4, <1>5, <1>6
       DEF Next, Dispatch, Wake, ReceiveNothing, Ignore, Undelivered, Release, vars

\* However a drain ended, and whichever turn started it, what is left pending has a
\* deferred drain to come.
THEOREM NothingIsStranded == Spec => []NothingStranded
  <1>1. Init => Deferred
    BY DEF Init, Deferred
  <1>2. Deferred => NothingStranded
    BY DEF Deferred, NothingStranded, Idle
  <1>3. QED
    BY <1>1, <1>2, DeferredStep, PTL DEF Spec

\* SubscriptionsFollowModel is not inductive: a drain that ends reconciles only when it
\* ran update, so a drain that did not must have begun with current subscriptions, or
\* be the one of mount_with, where the first message pending is internal, and is never
\* skipped.
SubscriptionTurns ==
    /\ SubscriptionsFollowModel
    /\ fg = "mount" => subscribed = "none"
    /\ fg = "command" => processedNow > 0
    /\ fg = "drain" /\ subscribed # "current" =>
         processedNow > 0 \/ (subscribed = "none" /\ pending # <<>>)
    /\ subscribed = "none" => \A i \in 1..Len(pending) : pending[i].origin = "Internal"

LEMMA SubscriptionLoopStep ==
    ASSUME OwnTypeOK, SubscriptionTurns,
           ProcessExternal \/ SkipExternal \/ ProcessInternal
    PROVE  SubscriptionTurns'
  <1>1. fg = "drain" /\ pending # <<>> /\ pending' = Tail(pending)
    BY DEF ProcessExternal, SkipExternal, ProcessInternal, InLoop
  <1>2. /\ Head(pending) = pending[1] /\ 1 \in 1..Len(pending)
        /\ \A i \in 1..Len(Tail(pending)) :
             i + 1 \in 1..Len(pending) /\ Tail(pending)[i] = pending[i + 1]
    BY <1>1 DEF OwnTypeOK
  <1>3. (\A i \in 1..Len(pending) : pending[i].origin = "Internal")
          => \A i \in 1..Len(pending') : pending'[i].origin = "Internal"
    BY <1>1, <1>2
  <1>4. CASE Update(Head(pending))
    <2>1. /\ fg' = "command" /\ processedNow' = processedNow + 1
          /\ subscribed' = "none" <=> subscribed = "none"
      BY <1>4 DEF Update
    <2>2. processedNow' > 0
      BY <2>1 DEF OwnTypeOK
    <2>3. QED
      BY <1>3, <2>1, <2>2 DEF SubscriptionTurns, SubscriptionsFollowModel
  <1>5. CASE SkipExternal
    <2>1. /\ Head(pending).origin = "External"
          /\ UNCHANGED <<fg, processedNow, subscribed>>
      BY <1>5 DEF SkipExternal
    <2>2. subscribed # "none"
      BY <1>2, <2>1 DEF SubscriptionTurns
    <2>3. QED
      BY <1>1, <2>1, <2>2 DEF SubscriptionTurns, SubscriptionsFollowModel
  <1>6. QED
    BY <1>4, <1>5 DEF ProcessExternal, ProcessInternal

LEMMA SubscriptionStep ==
    OwnTypeOK /\ SubscriptionTurns /\ [Next]_vars => SubscriptionTurns'
  <1> SUFFICES ASSUME OwnTypeOK, SubscriptionTurns, [Next]_vars PROVE SubscriptionTurns'
    OBVIOUS
  <1>1. CASE DrainStep
    <2>1. CASE FinishDrain
      <3>1. processedNow > 0 \/ (processedNow = 0 /\ pending = <<>>)
        BY <2>1, BudgetAssumption DEF FinishDrain, OwnTypeOK
      <3>2. subscribed' = "current" /\ fg' = "idle"
        BY <2>1, <3>1 DEF FinishDrain, SubscriptionTurns
      <3>3. QED
        BY <3>2 DEF SubscriptionTurns, SubscriptionsFollowModel
    <2>2. CASE ExecuteEmit
      <3>1. /\ pending' = Append(pending, Internal(emitted + 1))
            /\ UNCHANGED <<fg, processedNow, subscribed>> /\ fg \in {"mount", "command"}
        BY <2>2 DEF ExecuteEmit, Executes, EnqueueInternal
      <3>2. (\A i \in 1..Len(pending) : pending[i].origin = "Internal")
              => \A i \in 1..Len(pending') : pending'[i].origin = "Internal"
        <4> DEFINE m == Internal(emitted + 1)
        <4>1. m.origin = "Internal"
          BY DEF Internal
        <4> HIDE DEF m
        <4>2. /\ Len(pending') = Len(pending) + 1 /\ pending'[Len(pending) + 1] = m
              /\ \A i \in 1..Len(pending) : pending'[i] = pending[i]
              /\ \A i \in 1..(Len(pending) + 1) : i # Len(pending) + 1 => i \in 1..Len(pending)
          BY <3>1 DEF OwnTypeOK, m
        <4>3. QED
          BY <4>1, <4>2
      <3>3. QED
        BY <3>1, <3>2 DEF SubscriptionTurns, SubscriptionsFollowModel
    <2>3. CASE ExecuteEffect \/ ExecuteKeyed \/ ExecuteCancel
      BY <2>3 DEF ExecuteEffect, ExecuteKeyed, ExecuteCancel, SubscriptionTurns,
                  SubscriptionsFollowModel
    <2>4. CASE CommandDone
      BY <2>4 DEF CommandDone, SubscriptionTurns, SubscriptionsFollowModel
    <2>5. CASE FinishInit
      BY <2>5 DEF FinishInit, BeginDrain, SubscriptionTurns, SubscriptionsFollowModel
    <2>6. QED
      BY <1>1, <2>1, <2>2, <2>3, <2>4, <2>5, SubscriptionLoopStep DEF DrainStep
  <1>2. CASE fg = "idle" /\ UNCHANGED subscribed /\ fg' \in {"idle", "drain"}
    BY <1>2 DEF SubscriptionTurns, SubscriptionsFollowModel
  <1>3. CASE UNCHANGED ownVars
    BY <1>3 DEF ownVars, SubscriptionTurns, SubscriptionsFollowModel
  <1>4. ASSUME NEW r \in running, Complete(r)
        PROVE  fg = "idle" /\ UNCHANGED subscribed /\ fg' \in {"idle", "drain"}
    BY <1>4 DEF Complete, Idle, BeginDrain
  <1>5. ASSUME Receive \/ Continue \/ Unmount
        PROVE  fg = "idle" /\ UNCHANGED subscribed /\ fg' \in {"idle", "drain"}
    BY <1>5 DEF Receive, Continue, Idle, BeginDrain, Unmount
  <1>6. QED
    BY <1>1, <1>2, <1>3, <1>4, <1>5
       DEF Next, Dispatch, Wake, ReceiveNothing, Ignore, Undelivered, Release, vars

\* Between two turns the subscriptions are those of the current model, whichever turns
\* ran update and wherever a budget cut them.
THEOREM SubscriptionsAreCurrent == Spec => []SubscriptionsFollowModel
  <1>1. Init => SubscriptionTurns
    BY DEF Init, SubscriptionTurns, SubscriptionsFollowModel
  <1>2. SubscriptionTurns => SubscriptionsFollowModel
    BY DEF SubscriptionTurns
  <1>3. QED
    BY <1>1, <1>2, SubscriptionStep, OwnTypesHold, PTL DEF Spec

-----------------------------------------------------------------------------
(* Internal messages.                                                      *)

Internals == [origin : {"Internal"}, id : Nat]

\* The internal messages handled or pending, in order.
Accountable == Only(handled \o pending, Internals)

LEMMA MovedAcross ==
    ASSUME NEW M, NEW s \in Seq(M), NEW t \in Seq(M), t # <<>>
    PROVE  Append(s, Head(t)) \o Tail(t) = s \o t
  OBVIOUS

LEMMA AppendedToConcat ==
    ASSUME NEW M, NEW s \in Seq(M), NEW t \in Seq(M), NEW e \in M
    PROVE  s \o Append(t, e) = Append(s \o t, e)
  OBVIOUS

LEMMA EmptyConcat == ASSUME NEW M, NEW s \in Seq(M) PROVE s \o <<>> = s
  OBVIOUS

\* Processing moves a message from pending to handled; skipping takes an external one.
LEMMA LoopAccountable ==
    ASSUME OwnTypeOK, ProcessExternal \/ SkipExternal \/ ProcessInternal
    PROVE  Accountable' = Accountable
  <1>1. /\ pending # <<>> /\ pending' = Tail(pending)
        /\ pending \in Seq(Messages) /\ handled \in Seq(Messages)
        /\ Tail(pending) \in Seq(Messages)
    BY MessageSequences
       DEF ProcessExternal, SkipExternal, ProcessInternal, InLoop, OwnTypeOK
  <1>2. CASE Update(Head(pending))
    <2>1. handled' \o pending' = handled \o pending
      BY <1>1, <1>2, MovedAcross DEF Update
    <2>2. QED
      BY <2>1 DEF Accountable
  <1>3. CASE SkipExternal
    <2>1. handled' = handled /\ Head(pending) \notin Internals
      BY <1>3 DEF SkipExternal, Internals
    <2>2. Only(Tail(pending), Internals) = Only(pending, Internals)
      BY <1>1, <2>1, OnlyTail
    <2>3. \A t \in Seq(Messages) :
            Only(handled \o t, Internals) = Only(handled, Internals) \o Only(t, Internals)
      BY <1>1, OnlyConcat
    <2>4. /\ Only(handled \o pending, Internals)
               = Only(handled, Internals) \o Only(pending, Internals)
          /\ Only(handled \o Tail(pending), Internals)
               = Only(handled, Internals) \o Only(Tail(pending), Internals)
      BY <1>1, <2>3, Zenon
    <2>5. QED
      BY <1>1, <2>1, <2>2, <2>4 DEF Accountable
  <1>4. QED
    BY <1>2, <1>3 DEF ProcessExternal, ProcessInternal

LEMMA ReceiveAccountable ==
    ASSUME OwnTypeOK, inbox \in Seq(Nat), Receive
    PROVE  Accountable' = Accountable
  <1> DEFINE batch == [i \in 1..Len(inbox) |-> External(inbox[i])]
             Externals == [origin : {"External"}, id : Nat]
  <1>1. batch \in Seq(Externals) /\ batch \in Seq(Messages)
    BY BatchTypes, ExternalsAreMessages
  <1>2. handled' = handled /\ pending' = pending \o batch
    BY DEF Receive
  <1>3. Externals \cap Internals = {}
    BY DEF Internals
  <1> HIDE DEF batch, Externals
  <1>4. handled \in Seq(Messages) /\ pending \in Seq(Messages)
    BY DEF OwnTypeOK
  <1>5. Only(batch, Internals) = <<>>
    BY <1>1, <1>3, OnlyNone
  <1>6. \A s, t \in Seq(Messages) : Only(s \o t, Internals) = Only(s, Internals) \o Only(t, Internals)
    BY OnlyConcat
  <1>7. pending \o batch \in Seq(Messages) /\ Only(pending, Internals) \in Seq(Messages)
    BY <1>1, <1>4, OnlyType, MessageSequences
  <1>8. Only(pending \o batch, Internals) = Only(pending, Internals) \o <<>>
    BY <1>1, <1>4, <1>5, <1>6, Zenon
  <1>9. Only(pending \o batch, Internals) = Only(pending, Internals)
    BY <1>7, <1>8, EmptyConcat
  <1>10. Only(handled \o pending, Internals)
          = Only(handled, Internals) \o Only(pending, Internals)
    BY <1>4, <1>6, Zenon
  <1>11. Only(handled \o (pending \o batch), Internals)
           = Only(handled, Internals) \o Only(pending \o batch, Internals)
    BY <1>4, <1>6, <1>7, Zenon
  <1>12. QED
    BY <1>2, <1>9, <1>10, <1>11 DEF Accountable

LEMMA EnqueueAccountable ==
    ASSUME OwnTypeOK, EnqueueInternal
    PROVE  /\ Accountable' = Append(Accountable, Internal(emitted + 1))
           /\ emitted' = emitted + 1 /\ emitted \in Nat
  <1> DEFINE m == Internal(emitted + 1)
  <1>1. emitted \in Nat /\ emitted' = emitted + 1
    BY DEF emitted, OwnTypeOK, EnqueueInternal
  <1>2. m \in Internals /\ m \in Messages
    BY <1>1 DEF Internal, Internals, Messages
  <1>3. /\ handled' = handled /\ pending' = Append(pending, m)
        /\ handled \in Seq(Messages) /\ pending \in Seq(Messages)
    BY DEF EnqueueInternal, OwnTypeOK
  <1> HIDE DEF m
  <1>4. handled' \o pending' = Append(handled \o pending, m)
    BY <1>2, <1>3, AppendedToConcat
  <1>5. handled \o pending \in Seq(Messages)
    BY <1>3, MessageSequences
  <1>6. Only(Append(handled \o pending, m), Internals)
          = Append(Only(handled \o pending, Internals), m)
    BY <1>2, <1>5, OnlyAppend
  <1>7. QED
    BY <1>1, <1>4, <1>6 DEF Accountable, m

\* InternalsAreDelivered, message by message.
Delivered ==
    program # "dropped" =>
      /\ Len(Accountable) = emitted
      /\ \A n \in 1..emitted : Accountable[n].id = n

LEMMA AccountableStep ==
    ASSUME inbox \in Seq(Nat), OwnTypeOK, [Next]_vars, program' # "dropped"
    PROVE  \/ Accountable' = Accountable /\ emitted' = emitted
           \/ EnqueueInternal
  <1>1. CASE ProcessExternal \/ SkipExternal \/ ProcessInternal
    BY <1>1, LoopAccountable
       DEF ProcessExternal, SkipExternal, ProcessInternal, emitted
  <1>2. CASE Receive
    BY <1>2, ReceiveAccountable DEF Receive, emitted
  <1>3. CASE ExecuteEmit \/ \E r \in running : Complete(r)
    BY <1>3 DEF ExecuteEmit, Complete, Accountable, emitted
  <1>4. CASE UNCHANGED <<pending, handled, emittedAt>>
    BY <1>4 DEF Accountable, emitted
  <1>5. ~Unmount
    BY DEF Unmount, Queue!Close
  <1>6. ASSUME FinishDrain \/ ExecuteEffect \/ ExecuteKeyed \/ ExecuteCancel
               \/ CommandDone \/ FinishInit
        PROVE  UNCHANGED <<pending, handled, emittedAt>>
    BY <1>6 DEF FinishDrain, ExecuteEffect, ExecuteKeyed, ExecuteCancel, CommandDone, FinishInit
  <1>7. ASSUME \/ \E d \in Dispatchers : Dispatch(d) \/ Wake(d)
               \/ ReceiveNothing \/ Continue \/ Release
               \/ \E r \in running : Ignore(r) \/ Undelivered(r)
               \/ UNCHANGED vars
        PROVE  UNCHANGED <<pending, handled, emittedAt>>
    BY <1>7 DEF Dispatch, Wake, ReceiveNothing, Continue, Release, Ignore, Undelivered,
                ownVars, vars
  <1>8. QED
    BY <1>1, <1>2, <1>3, <1>4, <1>5, <1>6, <1>7 DEF Next, DrainStep

\* Guaranteed delivery of internal messages: each one is handled once, in the order of
\* emission, and is pending until then, whatever the policy displaces around it and
\* wherever a budget cuts a drain.
THEOREM InternalsDelivered == Spec => []InternalsAreDelivered
  <1>1. Init => Delivered
    <2> SUFFICES ASSUME Init PROVE Delivered
      OBVIOUS
    <2>1. handled \o pending = <<>> /\ emitted = 0
      BY DEF Init, emitted
    <2>2. Accountable = <<>>
      BY <2>1, OnlyEmpty DEF Accountable
    <2>3. QED
      BY <2>1, <2>2 DEF Delivered
  <1>2. OwnTypeOK => Accountable \in Seq(Messages)
    <2> SUFFICES ASSUME OwnTypeOK PROVE Accountable \in Seq(Messages)
      OBVIOUS
    <2>1. handled \o pending \in Seq(Messages)
      BY MessageSequences DEF OwnTypeOK
    <2>2. QED
      BY <2>1, OnlyType DEF Accountable
  <1>3. QP!TypeOK /\ OwnTypeOK /\ Delivered /\ [Next]_vars => Delivered'
    <2> SUFFICES ASSUME QP!TypeOK, OwnTypeOK, Delivered, [Next]_vars, program' # "dropped"
                 PROVE  /\ Len(Accountable') = emitted'
                        /\ \A n \in 1..emitted' : Accountable'[n].id = n
      BY DEF Delivered
    <2>1. /\ Len(Accountable) = emitted
          /\ \A n \in 1..emitted : Accountable[n].id = n
          /\ inbox \in Seq(Nat) /\ Accountable \in Seq(Messages)
      BY <1>2, LifecycleStep DEF Delivered, QP!TypeOK
    <2>2. CASE Accountable' = Accountable /\ emitted' = emitted
      BY <2>1, <2>2
    <2>3. CASE EnqueueInternal
      <3> DEFINE m == Internal(emitted + 1)
      <3>1. /\ Accountable' = Append(Accountable, m)
            /\ emitted' = emitted + 1 /\ emitted \in Nat
        BY <2>3, EnqueueAccountable
      <3>2. m.id = emitted + 1
        BY DEF Internal
      <3> HIDE DEF m
      <3>3. /\ Len(Accountable') = Len(Accountable) + 1
            /\ Accountable'[Len(Accountable) + 1] = m
            /\ \A n \in 1..Len(Accountable) : Accountable'[n] = Accountable[n]
        BY <2>1, <3>1
      <3>4. \A n \in 1..(emitted + 1) : n # emitted + 1 => n \in 1..emitted
        BY <3>1
      <3>5. QED
        BY <2>1, <3>1, <3>2, <3>3, <3>4
    <2>4. QED
      BY <2>1, <2>2, <2>3, AccountableStep
  <1>4. OwnTypeOK /\ Delivered => InternalsAreDelivered
    <2> SUFFICES ASSUME OwnTypeOK, Delivered, program # "dropped"
                 PROVE  IdsOf(handled \o pending, "Internal") = [n \in 1..emitted |-> n]
      BY DEF InternalsAreDelivered
    <2>1. IdsOf(handled \o pending, "Internal")
            = [i \in 1..Len(Accountable) |-> Accountable[i].id]
      BY DEF IdsOf, Accountable, Internals
    <2>2. QED
      BY <2>1 DEF Delivered
  <1>5. QED
    BY <1>1, <1>3, <1>4, OwnTypesHold, QueueHolds, PTL DEF Spec

-----------------------------------------------------------------------------
(* Memory.                                                                 *)

\* The external messages pending, displaced ones included.
Waits == Len(IdsOf(pending, "External"))

Few(n) == Waits = 0 \/ Waits < n

\* Before any internal message: a drain skips what was displaced and processes a
\* message, so what it leaves are messages that wait for the model and fewer than the
\* policy allows; only the batch just taken comes on top.
BatchesBounded ==
    policy.kind # "Unbounded" /\ emitted = 0 =>
      /\ \A i \in 1..Len(pending) : pending[i].origin = "External"
      /\ Few(2 * Queue!Bound)
      /\ fg # "drain" \/ processedNow > 0 => Few(Queue!Bound)

\* The queue's part: its bound, and what its steps do to the pending messages.
LEMMA QueueNumbers ==
    ASSUME QP!TypeOK, QP!Windows, Queue!CapacityRespected, policy.kind # "Unbounded"
    PROVE  /\ Queue!Bound \in Nat /\ Len(inbox) \in Nat /\ Len(active) \in Nat
           /\ Waits \in Nat /\ IdsOf(pending, "External") \in Seq(Nat)
           /\ Len(inbox) <= Queue!Bound /\ Len(active) <= Queue!Bound
           /\ inbox \in Seq(Nat) /\ (inbox # <<>> => Queue!Bound >= 1)
  <1>1. policy.capacity \in Nat
    BY DEF QP!TypeOK, QP!QueuePolicies
  <1>2. Queue!Bound \in Nat
    BY <1>1 DEF Queue!Bound
  <1>3. Len(inbox) <= Len(active) /\ Len(active) <= Queue!Bound
    BY DEF QP!Windows, QP!ActiveWindow, Queue!CapacityRespected
  <1>4. /\ Len(inbox) \in Nat /\ Len(active) \in Nat /\ inbox \in Seq(Nat)
        /\ IdsOf(pending, "External") \in Seq(Nat)
    BY MessageSequences DEF QP!TypeOK
  <1>5. Waits \in Nat
    BY <1>4, MessageSequences DEF Waits
  <1>6. inbox # <<>> => Len(inbox) >= 1
    BY <1>4
  <1>7. QED
    BY <1>2, <1>3, <1>4, <1>5, <1>6

LEMMA ProcessWaits ==
    ASSUME QP!TypeOK, QP!Windows, Queue!CapacityRespected, policy.kind # "Unbounded",
           Queue!BeginProcessing
    PROVE  Waits' < Queue!Bound
  <1>1. QP!BeginProcessing
    BY DEF QP!BeginProcessing, Queue!BeginProcessing, QP!WithoutId, Queue!WithoutId,
           QP!Elements, Queue!Elements
  <1>2. /\ \A p \in Configs : p \in QP!QueuePolicies
        /\ MaxDispatches \in Nat /\ MaxInternal \in Nat
    BY PolicyAssumption, ProgramBoundAssumption DEF Queue!QueuePolicies, QP!QueuePolicies
  <1>3. QP!Stale = 0
    BY <1>1, <1>2, QP!ProcessedIsOldest
  <1>4. Waits + Len(inbox) - Len(active) = 0
    BY <1>3 DEF QP!Stale, Waits
  <1>5. /\ IdsOf(pending, "External") # <<>>
        /\ IdsOf(pending', "External") = Tail(IdsOf(pending, "External"))
    BY DEF Queue!BeginProcessing
  <1>6. Waits' = Waits - 1
    <2> DEFINE ids == IdsOf(pending, "External")
    <2>1. ids \in Seq(Nat) /\ ids # <<>>
      BY <1>5, QueueNumbers
    <2>2. Waits' = Len(Tail(ids)) /\ Waits = Len(ids)
      BY <1>5 DEF Waits
    <2> HIDE DEF ids
    <2>3. QED
      BY <2>1, <2>2
  <1>7. QED
    BY <1>4, <1>6, QueueNumbers

LEMMA SkipWaits ==
    ASSUME QP!TypeOK, Queue!SkipDropped
    PROVE  Waits \in Nat /\ Waits' \in Nat /\ Waits' < Waits
  <1> DEFINE ids == IdsOf(pending, "External")
  <1>1. ids \in Seq(Nat) /\ ids # <<>> /\ Waits' = Len(Tail(ids)) /\ Waits = Len(ids)
    BY DEF QP!TypeOK, Queue!SkipDropped, Waits
  <1> HIDE DEF ids
  <1>2. QED
    BY <1>1

LEMMA TakeWaits ==
    ASSUME QP!TypeOK, Queue!PollTake
    PROVE  Waits' = Waits + Len(inbox)
  <1> DEFINE ids == IdsOf(pending, "External")
  <1>1. /\ ids \in Seq(Nat) /\ inbox \in Seq(Nat)
        /\ Waits' = Len(ids \o inbox) /\ Waits = Len(ids)
    BY DEF QP!TypeOK, Queue!PollTake, Waits
  <1> HIDE DEF ids
  <1>2. QED
    BY <1>1

LEMMA EmptyWaits == pending = <<>> => Waits = 0
  <1>1. IdsOf(<<>>, "External") = [i \in 1..0 |-> Only(<<>>, {})[i].id]
    BY OnlyEmpty DEF IdsOf
  <1>2. Len(IdsOf(<<>>, "External")) = 0
    BY <1>1
  <1>3. QED
    BY <1>2 DEF Waits

LEMMA PendingTail ==
    ASSUME OwnTypeOK, pending # <<>>,
           \A i \in 1..Len(pending) : pending[i].origin = "External"
    PROVE  \A i \in 1..Len(Tail(pending)) : Tail(pending)[i].origin = "External"
  <1>1. \A i \in 1..Len(Tail(pending)) :
          i + 1 \in 1..Len(pending) /\ Tail(pending)[i] = pending[i + 1]
    BY DEF OwnTypeOK
  <1>2. QED
    BY <1>1

LEMMA BatchesStep ==
    ASSUME QP!TypeOK, QP!Windows, Queue!CapacityRespected, OwnTypeOK, BatchesBounded,
           [Next]_vars
    PROVE  BatchesBounded'
  <1> SUFFICES ASSUME policy'.kind # "Unbounded", emitted' = 0
               PROVE  /\ \A i \in 1..Len(pending') : pending'[i].origin = "External"
                      /\ Waits' = 0 \/ Waits' < 2 * Queue!Bound
                      /\ fg' # "drain" \/ processedNow' > 0 =>
                           Waits' = 0 \/ Waits' < Queue!Bound
    <2>1. policy' = policy
      BY LifecycleStep
    <2>2. Queue!Bound' = Queue!Bound
      BY <2>1 DEF Queue!Bound
    <2>3. QED
      BY <2>2 DEF BatchesBounded, Few
  <1>1. emitted = 0 \/ EnqueueInternal
    BY DEF Next, DrainStep, Dispatch, Wake, ProcessExternal, SkipExternal, ProcessInternal,
           FinishDrain, ExecuteEmit, ExecuteEffect, ExecuteKeyed, ExecuteCancel,
           CommandDone, FinishInit, Receive, ReceiveNothing, Continue, Complete, Ignore,
           Undelivered, Release, Unmount, vars, ownVars, emitted
  <1>2. ~EnqueueInternal
    BY EnqueueAccountable
  <1>3. /\ \A i \in 1..Len(pending) : pending[i].origin = "External"
        /\ Few(2 * Queue!Bound)
        /\ fg # "drain" \/ processedNow > 0 => Few(Queue!Bound)
        /\ policy.kind # "Unbounded"
    BY <1>1, <1>2, LifecycleStep DEF BatchesBounded
  <1>4. /\ Queue!Bound \in Nat /\ Len(inbox) \in Nat /\ Waits \in Nat
        /\ Len(inbox) <= Queue!Bound
        /\ inbox \in Seq(Nat) /\ (inbox # <<>> => Queue!Bound >= 1)
    BY <1>3, QueueNumbers
  <1>5. CASE UNCHANGED <<pending, fg>> /\ processedNow' = processedNow
    BY <1>3, <1>5 DEF Waits, Few
  <1>6. CASE ProcessExternal
    <2>1. pending # <<>> /\ pending' = Tail(pending) /\ Queue!BeginProcessing
      BY <1>6 DEF ProcessExternal, InLoop
    <2>2. Waits' < Queue!Bound
      BY <1>3, <2>1, ProcessWaits
    <2>3. Waits' \in Nat
      <3>1. IdsOf(pending', "External") \in Seq(Nat)
        BY <1>3, <2>1, QueueNumbers, MessageSequences DEF Queue!BeginProcessing
      <3>2. QED
        BY <3>1, MessageSequences DEF Waits
    <2>4. Waits' < 2 * Queue!Bound
      BY <1>4, <2>2, <2>3
    <2>5. QED
      BY <1>3, <2>1, <2>2, <2>4, PendingTail
  <1>7. CASE SkipExternal
    <2>1. /\ pending # <<>> /\ pending' = Tail(pending) /\ Queue!SkipDropped
          /\ UNCHANGED <<fg, processedNow>>
      BY <1>7 DEF SkipExternal, InLoop
    <2>2. Waits' \in Nat /\ Waits' < Waits
      BY <2>1, SkipWaits
    <2>3. QED
      BY <1>3, <1>4, <2>1, <2>2, PendingTail DEF Few
  <1>8. ~ProcessInternal
    <2>1. pending # <<>> => 1 \in 1..Len(pending) /\ Head(pending) = pending[1]
      BY DEF OwnTypeOK
    <2>2. QED
      BY <1>3, <2>1 DEF ProcessInternal, InLoop
  <1>9. CASE FinishDrain
    <2>1. UNCHANGED pending /\ (processedNow > 0 \/ pending = <<>>)
      BY <1>9, BudgetAssumption DEF FinishDrain, OwnTypeOK
    <2>2. Waits' = Waits
      BY <2>1 DEF Waits
    <2>3. Waits = 0 \/ Waits < Queue!Bound
      BY <1>3, <2>1, EmptyWaits DEF Few
    <2>4. QED
      BY <1>3, <2>1, <2>2, <2>3 DEF Few
  <1>10. CASE CommandDone \/ FinishInit \/ Continue
    <2>1. UNCHANGED pending /\ fg # "drain"
      BY <1>10 DEF CommandDone, FinishInit, Continue, Idle
    <2>2. Waits' = Waits
      BY <2>1 DEF Waits
    <2>3. QED
      BY <1>3, <2>1, <2>2 DEF Few
  <1>11. CASE Receive
    <2> DEFINE batch == [i \in 1..Len(inbox) |-> External(inbox[i])]
    <2>1. /\ fg = "idle" /\ fg' = "drain" /\ processedNow' = 0 /\ Queue!PollTake
          /\ pending' = pending \o batch /\ inbox # <<>>
      BY <1>11 DEF Receive, BeginDrain, Queue!PollTake
    <2>2. Waits' = Waits + Len(inbox)
      BY <2>1, TakeWaits
    <2>3. Waits' < 2 * Queue!Bound
      BY <1>3, <1>4, <2>1, <2>2 DEF Few
    <2>4. Len(batch) = Len(inbox) /\ \A i \in 1..Len(batch) : batch[i].origin = "External"
      BY <1>4 DEF External
    <2>5. batch \in Seq(Messages) /\ pending \in Seq(Messages)
      BY <1>4, BatchTypes, ExternalsAreMessages DEF OwnTypeOK
    <2> HIDE DEF batch
    <2>6. \A i \in 1..Len(pending') : pending'[i].origin = "External"
      <3> SUFFICES ASSUME NEW i \in 1..Len(pending') PROVE pending'[i].origin = "External"
        OBVIOUS
      <3>1. CASE i \in 1..Len(pending)
        BY <1>3, <2>1, <2>5, <3>1
      <3>2. CASE i \notin 1..Len(pending)
        <4>1. i - Len(pending) \in 1..Len(batch) /\ pending'[i] = batch[i - Len(pending)]
          BY <2>1, <2>5, <3>2
        <4>2. QED
          BY <2>4, <4>1
      <3>3. QED
        BY <3>1, <3>2
    <2>7. QED
      BY <2>1, <2>3, <2>6
  <1>12. CASE Unmount
    <2>1. pending' = <<>>
      BY <1>12 DEF Unmount
    <2>2. Waits' = 0
      BY <1>12 DEF Unmount, Queue!Close, Waits
    <2>3. QED
      BY <2>1, <2>2
  <1>13. ASSUME \/ ExecuteEmit \/ ExecuteEffect \/ ExecuteKeyed \/ ExecuteCancel
                \/ \E d \in Dispatchers : Dispatch(d) \/ Wake(d)
                \/ ReceiveNothing \/ Release
                \/ \E r \in running : Complete(r) \/ Ignore(r) \/ Undelivered(r)
                \/ UNCHANGED vars
         PROVE  UNCHANGED <<pending, fg>> /\ processedNow' = processedNow
    BY <1>2, <1>13
       DEF ExecuteEmit, ExecuteEffect, ExecuteKeyed, ExecuteCancel, Dispatch, Wake,
           ReceiveNothing, Release, Complete, Ignore, Undelivered, vars, ownVars
  <1>14. QED
    BY <1>5, <1>6, <1>7, <1>8, <1>9, <1>10, <1>11, <1>12, <1>13 DEF Next, DrainStep

\* "Bounded policies also bound memory", as long as no internal message is emitted: the
\* external messages that exist, displaced ones included, stay below three times the
\* policy's bound, for every policy, budget and order of turns.
THEOREM MemoryIsBounded == Spec => []FloodsAreBounded
  <1>1. Init => BatchesBounded
    <2> SUFFICES ASSUME Init PROVE BatchesBounded
      OBVIOUS
    <2>1. pending = <<>> /\ Waits = 0
      BY EmptyWaits DEF Init
    <2>2. QED
      BY <2>1 DEF BatchesBounded, Few
  <1>2. /\ QP!TypeOK /\ QP!Windows /\ Queue!CapacityRespected /\ OwnTypeOK
        /\ BatchesBounded /\ [Next]_vars
        => BatchesBounded'
    BY BatchesStep
  <1>3. /\ QP!TypeOK /\ QP!Windows /\ Queue!CapacityRespected /\ BatchesBounded
        => FloodsAreBounded
    <2> SUFFICES ASSUME QP!TypeOK, QP!Windows, Queue!CapacityRespected, BatchesBounded,
                        emitted = 0, policy.kind # "Unbounded", Waits + Len(inbox) > 0
                 PROVE  Waits + Len(inbox) < 3 * Queue!Bound
      BY DEF FloodsAreBounded, MemoryBound, Waits
    <2>1. /\ Queue!Bound \in Nat /\ Len(inbox) \in Nat /\ Waits \in Nat
          /\ Len(inbox) <= Queue!Bound
      BY QueueNumbers
    <2>2. Waits = 0 \/ Waits < 2 * Queue!Bound
      BY DEF BatchesBounded, Few
    <2>3. QED
      BY <2>1, <2>2
  <1>4. Spec => []Queue!CapacityRespected
    BY QueuePromisesKept, PTL
  <1>5. QED
    BY <1>1, <1>2, <1>3, <1>4, OwnTypesHold, QueueHolds, PTL DEF Spec

-----------------------------------------------------------------------------
(* What drains do, measured by the observations of ProgramTurns.           *)

LEMMA TurnsAreSteps == TurnSpec => Spec
  <1>1. TurnInit => Init
    BY DEF TurnInit
  <1>2. [TurnNext]_turnVars => [Next]_vars
    BY DEF TurnNext, turnVars
  <1>3. QED
    BY <1>1, <1>2, PTL DEF TurnSpec, Spec

\* DrainsUseTheirBudget is not inductive: within a drain, what processed counts are the
\* updates since the drain began.
DrainMeasured ==
    /\ drainedFrom \in Nat
    /\ Ran \in 0..budget
    /\ fg \in {"drain", "command"} => processedNow = Ran
    /\ fg = "idle" /\ pending # <<>> => Ran = budget

LEMMA HandledLength ==
    ASSUME OwnTypeOK, NEW m \in Messages
    PROVE  Len(handled) \in Nat /\ Len(Append(handled, m)) = Len(handled) + 1
  BY DEF OwnTypeOK

\* A step that begins a drain starts to measure it.
LEMMA BeginMeasured ==
    ASSUME OwnTypeOK, DrainMeasured, Observe, fg \in {"idle", "mount"}, BeginDrain,
           UNCHANGED <<budget, handled>>
    PROVE  DrainMeasured'
  <1>1. /\ drainedFrom' = Len(handled) /\ fg' = "drain" /\ processedNow' = 0
        /\ handled' = handled /\ budget' = budget
    BY DEF Observe, DrainBegins, BeginDrain
  <1>2. Len(handled) \in Nat /\ budget \in Nat
    BY BudgetTypes, MessageSequences DEF OwnTypeOK
  <1>3. Ran' = 0 /\ 0 \in 0..budget /\ drainedFrom' \in Nat
    BY <1>1, <1>2 DEF Ran
  <1>4. QED
    BY <1>1, <1>3 DEF DrainMeasured

LEMMA LoopMeasured ==
    ASSUME OwnTypeOK, DrainMeasured, Observe,
           ProcessExternal \/ SkipExternal \/ ProcessInternal
    PROVE  DrainMeasured'
  <1>1. /\ fg = "drain" /\ processedNow < budget /\ pending # <<>> /\ budget' = budget
        /\ drainedFrom' = drainedFrom
    BY DEF ProcessExternal, SkipExternal, ProcessInternal, InLoop, Observe, DrainBegins
  <1>2. Head(pending) \in Messages
    BY <1>1, MessageSequences DEF OwnTypeOK
  <1>3. CASE Update(Head(pending))
    <2>1. /\ fg' = "command" /\ processedNow' = processedNow + 1
          /\ handled' = Append(handled, Head(pending))
      BY <1>3 DEF Update
    <2>2. /\ Len(handled') = Len(handled) + 1 /\ Len(handled) \in Nat
          /\ drainedFrom \in Nat /\ processedNow = Len(handled) - drainedFrom
      BY <1>1, <1>2, <2>1, HandledLength DEF DrainMeasured, Ran
    <2>3. Ran' = processedNow + 1
      BY <1>1, <2>2 DEF Ran
    <2>4. Ran' \in 0..budget'
      BY <1>1, <2>3, BudgetTypes
    <2>5. QED
      BY <1>1, <2>1, <2>3, <2>4 DEF DrainMeasured
  <1>4. CASE UNCHANGED <<fg, processedNow, handled>>
    BY <1>1, <1>4 DEF DrainMeasured, Ran
  <1>5. QED
    BY <1>3, <1>4 DEF ProcessExternal, SkipExternal, ProcessInternal

LEMMA MeasuredStep ==
    OwnTypeOK /\ DrainMeasured /\ [TurnNext]_turnVars => DrainMeasured'
  <1> SUFFICES ASSUME OwnTypeOK, DrainMeasured, [TurnNext]_turnVars PROVE DrainMeasured'
    OBVIOUS
  <1>1. CASE UNCHANGED turnVars
    BY <1>1 DEF turnVars, vars, ownVars, DrainMeasured, Ran
  <1> SUFFICES ASSUME Next, Observe PROVE DrainMeasured'
    BY <1>1 DEF TurnNext
  <1>2. CASE UNCHANGED <<budget, pending, fg, processedNow, handled>>
    <2>1. drainedFrom' = drainedFrom
      BY <1>2 DEF Observe, DrainBegins
    <2>2. QED
      BY <1>2, <2>1 DEF DrainMeasured, Ran
  <1>3. CASE ExecuteEmit
    <2>1. /\ UNCHANGED <<budget, fg, processedNow, handled>> /\ fg \in {"mount", "command"}
      BY <1>3 DEF ExecuteEmit, Executes, EnqueueInternal
    <2>2. drainedFrom' = drainedFrom
      BY <2>1 DEF Observe, DrainBegins
    <2>3. QED
      BY <2>1, <2>2 DEF DrainMeasured, Ran
  <1>4. CASE CommandDone
    <2>1. /\ UNCHANGED <<budget, processedNow, handled>> /\ fg = "command" /\ fg' = "drain"
      BY <1>4 DEF CommandDone
    <2>2. drainedFrom' = drainedFrom
      BY <2>1 DEF Observe, DrainBegins
    <2>3. QED
      BY <2>1, <2>2 DEF DrainMeasured, Ran
  <1>5. CASE FinishDrain
    <2>1. /\ UNCHANGED <<budget, pending, handled>> /\ fg = "drain" /\ fg' = "idle"
          /\ processedNow = budget \/ pending = <<>>
      BY <1>5 DEF FinishDrain
    <2>2. drainedFrom' = drainedFrom
      BY <2>1 DEF Observe, DrainBegins
    <2>3. QED
      BY <2>1, <2>2 DEF DrainMeasured, Ran
  <1>6. CASE FinishInit
    <2>1. CASE pending = <<>> /\ fg' = "idle"
      <3>1. UNCHANGED <<budget, pending, handled>> /\ fg = "mount"
        BY <1>6 DEF FinishInit
      <3>2. drainedFrom' = drainedFrom
        BY <2>1 DEF Observe, DrainBegins
      <3>3. QED
        BY <2>1, <3>1, <3>2 DEF DrainMeasured, Ran
    <2>2. CASE BeginDrain
      BY <1>6, <2>2, BeginMeasured DEF FinishInit
    <2>3. QED
      BY <1>6, <2>1, <2>2 DEF FinishInit
  <1>7. CASE Receive
    BY <1>7, BeginMeasured DEF Receive
  <1>8. CASE Continue
    <2>1. CASE BeginDrain
      BY <1>8, <2>1, BeginMeasured DEF Continue, Idle
    <2>2. CASE UNCHANGED <<fg, processedNow>>
      BY <1>2, <1>8, <2>2 DEF Continue
    <2>3. QED
      BY <1>8, <2>1, <2>2 DEF Continue
  <1>9. ASSUME NEW r \in running, Complete(r) PROVE DrainMeasured'
    <2>1. CASE EnqueueInternal /\ BeginDrain
      BY <1>9, <2>1, BeginMeasured DEF Complete, Idle, EnqueueInternal
    <2>2. CASE UNCHANGED <<pending, handled, fg, processedNow>>
      BY <1>2, <1>9, <2>2 DEF Complete
    <2>3. QED
      BY <1>9, <2>1, <2>2 DEF Complete
  <1>10. CASE Unmount
    <2>1. /\ UNCHANGED <<budget, fg, handled>> /\ fg = "idle" /\ pending' = <<>>
      BY <1>10 DEF Unmount
    <2>2. drainedFrom' = drainedFrom
      BY <2>1 DEF Observe, DrainBegins
    <2>3. QED
      BY <2>1, <2>2 DEF DrainMeasured, Ran
  <1>11. ASSUME ExecuteEffect \/ ExecuteKeyed \/ ExecuteCancel
         PROVE  UNCHANGED <<budget, pending, fg, processedNow, handled>>
    BY <1>11 DEF ExecuteEffect, ExecuteKeyed, ExecuteCancel
  <1>12. ASSUME \/ \E d \in Dispatchers : Dispatch(d) \/ Wake(d)
                \/ ReceiveNothing \/ Release
                \/ \E r \in running : Ignore(r) \/ Undelivered(r)
         PROVE  UNCHANGED <<budget, pending, fg, processedNow, handled>>
    BY <1>12 DEF Dispatch, Wake, ReceiveNothing, Release, Ignore, Undelivered, ownVars
  <1>13. QED
    BY <1>2, <1>3, <1>4, <1>5, <1>6, <1>7, <1>8, <1>9, <1>10, <1>11, <1>12, LoopMeasured
       DEF Next, DrainStep

\* For every policy, budget and command, and however many messages are displaced under
\* it: a drain runs update at most budget times, and leaves messages behind only when
\* it ran it that often.
THEOREM DrainsAlwaysUseTheirBudget == TurnSpec => []DrainsUseTheirBudget
  <1>1. TurnInit => DrainMeasured
    <2> SUFFICES ASSUME TurnInit PROVE DrainMeasured
      OBVIOUS
    <2>1. /\ handled = <<>> /\ pending = <<>> /\ fg = "mount" /\ drainedFrom = 0
          /\ budget \in Nat
      BY BudgetAssumption DEF TurnInit, Init
    <2>2. Ran = 0 /\ 0 \in 0..budget
      BY <2>1 DEF Ran
    <2>3. QED
      BY <2>1, <2>2 DEF DrainMeasured
  <1>2. OwnTypeOK /\ DrainMeasured => DrainsUseTheirBudget
    BY BudgetTypes DEF DrainMeasured, DrainsUseTheirBudget
  <1>3. QED
    BY <1>1, <1>2, MeasuredStep, OwnTypesHold, TurnsAreSteps, PTL DEF TurnSpec

-----------------------------------------------------------------------------
(* The init transaction.                                                   *)

OfKind(kind) == {i \in Instructions : i.kind = kind}

\* Executing an instruction takes it off what is left to execute, and off that only.
LEMMA CountOfTail ==
    ASSUME NEW c \in Seq(Instructions), c # <<>>, NEW kind
    PROVE  /\ CountOf(c, kind) \in Nat /\ CountOf(Tail(c), kind) \in Nat
           /\ Head(c).kind = kind => CountOf(c, kind) = CountOf(Tail(c), kind) + 1
           /\ Head(c).kind # kind => CountOf(c, kind) = CountOf(Tail(c), kind)
  <1> DEFINE S == OfKind(kind)
  <1>1. /\ Head(c) \in Instructions /\ Tail(c) \in Seq(Instructions)
        /\ Head(c).kind = kind => Head(c) \in S
        /\ Head(c).kind # kind => Head(c) \notin S
    BY MessageSequences DEF OfKind
  <1>2. CountOf(c, kind) = Len(Only(c, S)) /\ CountOf(Tail(c), kind) = Len(Only(Tail(c), S))
    BY DEF CountOf, OfKind
  <1> HIDE DEF S
  <1>3. Only(c, S) \in Seq(Instructions) /\ Only(Tail(c), S) \in Seq(Instructions)
    BY <1>1, OnlyType
  <1>4. /\ Head(c) \in S => Only(c, S) # <<>> /\ Only(Tail(c), S) = Tail(Only(c, S))
        /\ Head(c) \notin S => Only(Tail(c), S) = Only(c, S)
    BY OnlyTail
  <1>5. /\ Len(Only(c, S)) \in Nat /\ Len(Only(Tail(c), S)) \in Nat
        /\ Head(c) \in S => Len(Only(c, S)) = Len(Only(Tail(c), S)) + 1
        /\ Head(c) \notin S => Len(Only(c, S)) = Len(Only(Tail(c), S))
    BY <1>3, <1>4
  <1>6. QED
    BY <1>1, <1>2, <1>5

LEMMA CountOfNone == \A kind : CountOf(<<>>, kind) = 0
  <1> SUFFICES ASSUME NEW kind PROVE CountOf(<<>>, kind) = 0
    OBVIOUS
  <1>1. CountOf(<<>>, kind) = Len(<<>>)
    BY OnlyEmpty DEF CountOf
  <1>2. QED
    BY <1>1

LEMMA CountOfType ==
    ASSUME NEW c \in Seq(Instructions), NEW kind PROVE CountOf(c, kind) \in Nat
  BY CountOfTail, CountOfNone

\* What init returned and is not executed.
Left(kind) == IF fg = "mount" THEN CountOf(todo, kind) ELSE 0

\* InitComesFirst is not inductive: while mounting, what is left of the command of init
\* makes up what is missing.
InitCovered ==
    /\ initCommand \in Seq(Instructions)
    /\ fg = "mount" => handled = <<>> /\ subscribed = "none"
    /\ emitted + Left("Emit") >= CountOf(initCommand, "Emit")
    /\ nextEffectId + Left("Effect") >= CountOf(initCommand, "Effect")
    /\ nextGeneration + Left("Keyed") >= CountOf(initCommand, "Keyed")

LEMMA InitNumbers ==
    ASSUME OwnTypeOK, InitCovered
    PROVE  /\ emitted \in Nat /\ nextEffectId \in Nat /\ nextGeneration \in Nat
           /\ \A kind : Left(kind) \in Nat /\ CountOf(initCommand, kind) \in Nat
  BY CountOfType DEF OwnTypeOK, EffectTypeOK, InitCovered, Left, emitted

\* Nothing that was started or emitted is taken back.
LEMMA CountersGrow ==
    ASSUME OwnTypeOK, [Next]_vars
    PROVE  /\ emitted' >= emitted /\ nextEffectId' >= nextEffectId
           /\ nextGeneration' >= nextGeneration
           /\ emitted' \in Nat /\ nextEffectId' \in Nat /\ nextGeneration' \in Nat
  <1>1. emitted \in Nat /\ nextEffectId \in Nat /\ nextGeneration \in Nat
    BY DEF OwnTypeOK, EffectTypeOK, emitted
  <1>2. emitted' = emitted \/ emitted' = emitted + 1
    <2>1. emittedAt' = emittedAt \/ EnqueueInternal
      BY DEF Next, DrainStep, Dispatch, Wake, ProcessExternal, SkipExternal, ProcessInternal,
             FinishDrain, ExecuteEmit, ExecuteEffect, ExecuteKeyed, ExecuteCancel,
             CommandDone, FinishInit, Receive, ReceiveNothing, Continue, Complete, Ignore,
             Undelivered, Release, Unmount, vars, ownVars
    <2>2. QED
      BY <2>1, EnqueueAccountable DEF emitted
  <1>3. nextEffectId' \in {nextEffectId, nextEffectId + 1}
    BY EffectSteps
       DEF effectVars, StartKeyed, CancelKeyed, StartEffect, CompleteCurrent, CompleteStale,
           Reap, CompleteEffect, DropTasks, Undelivered
  <1>4. nextGeneration' \in {nextGeneration, nextGeneration + 1}
    BY EffectSteps
       DEF effectVars, StartKeyed, CancelKeyed, StartEffect, CompleteCurrent, CompleteStale,
           Reap, CompleteEffect, DropTasks, Undelivered
  <1>5. QED
    BY <1>1, <1>2, <1>3, <1>4

\* Every other step than those of the init transaction.
LEMMA MountSteps ==
    [Next]_vars =>
       \/ fg # "mount" /\ fg' # "mount"
       \/ UNCHANGED <<fg, todo, handled, subscribed>>
       \/ fg = "mount" /\ (ExecuteEmit \/ ExecuteEffect \/ ExecuteKeyed \/ ExecuteCancel
                            \/ FinishInit)
  <1> SUFFICES ASSUME [Next]_vars, fg = "mount" \/ fg' = "mount"
               PROVE  \/ UNCHANGED <<fg, todo, handled, subscribed>>
                      \/ fg = "mount" /\ (ExecuteEmit \/ ExecuteEffect \/ ExecuteKeyed
                                           \/ ExecuteCancel \/ FinishInit)
    OBVIOUS
  <1>1. CASE DrainStep
    BY <1>1 DEF DrainStep, ProcessExternal, SkipExternal, ProcessInternal, InLoop, Update,
                FinishDrain, ExecuteEmit, ExecuteEffect, ExecuteKeyed, ExecuteCancel,
                Executes, CommandDone, FinishInit, BeginDrain
  <1>2. CASE Receive \/ Continue \/ Unmount \/ \E r \in running : Complete(r)
    BY <1>2 DEF Receive, Continue, Idle, Unmount, Complete, BeginDrain
  <1>3. CASE UNCHANGED ownVars
    BY <1>3 DEF ownVars
  <1>4. QED
    BY <1>1, <1>2, <1>3
       DEF Next, Dispatch, Wake, ReceiveNothing, Ignore, Undelivered, Release, vars

\* As long as no count of what is done and what is left gets smaller, init is covered.
LEMMA StillCovered ==
    ASSUME InitCovered, OwnTypeOK, UNCHANGED initCommand,
           fg' = "mount" => handled' = <<>> /\ subscribed' = "none",
           NEW e \in Int, NEW f \in Int, NEW g \in Int,
           e >= emitted + Left("Emit"), f >= nextEffectId + Left("Effect"),
           g >= nextGeneration + Left("Keyed"),
           emitted' + Left("Emit")' = e, nextEffectId' + Left("Effect")' = f,
           nextGeneration' + Left("Keyed")' = g
    PROVE  InitCovered'
  <1>1. \A kind : CountOf(initCommand, kind)' = CountOf(initCommand, kind)
    BY DEF CountOf, Only, OnlyOfFirst
  <1>2. /\ CountOf(initCommand, "Emit") \in Nat /\ CountOf(initCommand, "Effect") \in Nat
        /\ CountOf(initCommand, "Keyed") \in Nat
        /\ emitted + Left("Emit") \in Nat /\ nextEffectId + Left("Effect") \in Nat
        /\ nextGeneration + Left("Keyed") \in Nat
    BY InitNumbers
  <1>3. e >= CountOf(initCommand, "Emit")
    BY <1>2 DEF InitCovered
  <1>4. f >= CountOf(initCommand, "Effect")
    BY <1>2 DEF InitCovered
  <1>5. g >= CountOf(initCommand, "Keyed")
    BY <1>2 DEF InitCovered
  <1>6. QED
    BY <1>1, <1>3, <1>4, <1>5 DEF InitCovered

\* One instruction of init's command is executed.
LEMMA ExecuteCovered ==
    ASSUME OwnTypeOK, InitCovered, fg = "mount", UNCHANGED initCommand,
           ExecuteEmit \/ ExecuteEffect \/ ExecuteKeyed \/ ExecuteCancel
    PROVE  InitCovered'
  <1>1. /\ todo # <<>> /\ todo' = Tail(todo) /\ fg' = "mount"
        /\ UNCHANGED <<handled, subscribed>>
    BY DEF ExecuteEmit, ExecuteEffect, ExecuteKeyed, ExecuteCancel, Executes, EnqueueInternal
  <1>2. \A kind : /\ Left(kind) \in Nat /\ Left(kind)' \in Nat
                  /\ Head(todo).kind = kind => Left(kind) = Left(kind)' + 1
                  /\ Head(todo).kind # kind => Left(kind) = Left(kind)'
    BY <1>1, CountOfTail DEF OwnTypeOK, Left
  <1> DEFINE emits == emitted + Left("Emit")
             plain == nextEffectId + Left("Effect")
             keyed == nextGeneration + Left("Keyed")
  <1>3. \/ /\ Head(todo).kind = "Emit" /\ emitted' = emitted + 1
           /\ UNCHANGED <<nextEffectId, nextGeneration>>
        \/ /\ Head(todo).kind = "Effect" /\ nextEffectId' = nextEffectId + 1
           /\ UNCHANGED <<emitted, nextGeneration>>
        \/ /\ Head(todo).kind = "Keyed" /\ nextGeneration' = nextGeneration + 1
           /\ UNCHANGED <<emitted, nextEffectId>>
        \/ /\ Head(todo).kind = "Cancel"
           /\ UNCHANGED <<emitted, nextEffectId, nextGeneration>>
    <2>1. CASE ExecuteEmit
      BY <2>1, EnqueueAccountable DEF ExecuteEmit, Executes, effectVars
    <2>2. CASE ExecuteEffect
      BY <2>2 DEF ExecuteEffect, Executes, StartEffect, emitted
    <2>3. CASE ExecuteKeyed
      BY <2>3 DEF ExecuteKeyed, Executes, StartKeyed, emitted
    <2>4. CASE ExecuteCancel
      BY <2>4 DEF ExecuteCancel, Executes, CancelKeyed, emitted
    <2>5. QED
      BY <2>1, <2>2, <2>3, <2>4
  <1>4. emitted \in Nat /\ nextEffectId \in Nat /\ nextGeneration \in Nat
    BY InitNumbers
  <1>5. emitted' + Left("Emit")' = emits /\ emits \in Int
    BY <1>2, <1>3, <1>4
  <1>6. nextEffectId' + Left("Effect")' = plain /\ plain \in Int
    BY <1>2, <1>3, <1>4
  <1>7. nextGeneration' + Left("Keyed")' = keyed /\ keyed \in Int
    BY <1>2, <1>3, <1>4
  <1>8. handled' = <<>> /\ subscribed' = "none"
    BY <1>1 DEF InitCovered
  <1>9. emits >= emits /\ plain >= plain /\ keyed >= keyed
    BY <1>5, <1>6, <1>7
  <1> HIDE DEF emits, plain, keyed
  <1>10. QED
    BY <1>5, <1>6, <1>7, <1>8, <1>9, StillCovered DEF emits, plain, keyed

LEMMA CoveredStep ==
    OwnTypeOK /\ InitCovered /\ [TurnNext]_turnVars => InitCovered'
  <1> SUFFICES ASSUME OwnTypeOK, InitCovered, [TurnNext]_turnVars PROVE InitCovered'
    OBVIOUS
  <1>1. [Next]_vars /\ UNCHANGED initCommand
    BY DEF TurnNext, Observe, turnVars
  <1>2. ASSUME \A kind : Left(kind)' = Left(kind),
               fg' = "mount" => handled' = <<>> /\ subscribed' = "none"
        PROVE  InitCovered'
    <2>1. /\ emitted \in Nat /\ nextEffectId \in Nat /\ nextGeneration \in Nat
          /\ Left("Emit") \in Nat /\ Left("Effect") \in Nat /\ Left("Keyed") \in Nat
      BY InitNumbers
    <2>2. /\ emitted' \in Nat /\ nextEffectId' \in Nat /\ nextGeneration' \in Nat
      BY <1>1, CountersGrow
    <2>3. /\ Left("Emit")' = Left("Emit") /\ Left("Effect")' = Left("Effect")
          /\ Left("Keyed")' = Left("Keyed")
      BY <1>2
    <2>4. /\ emitted' + Left("Emit")' \in Int /\ nextEffectId' + Left("Effect")' \in Int
          /\ nextGeneration' + Left("Keyed")' \in Int
      BY <2>1, <2>2, <2>3
    <2>5. emitted' + Left("Emit")' >= emitted + Left("Emit")
      BY <1>1, <2>1, <2>2, <2>3, CountersGrow
    <2>6. nextEffectId' + Left("Effect")' >= nextEffectId + Left("Effect")
      BY <1>1, <2>1, <2>2, <2>3, CountersGrow
    <2>7. nextGeneration' + Left("Keyed")' >= nextGeneration + Left("Keyed")
      BY <1>1, <2>1, <2>2, <2>3, CountersGrow
    <2>8. QED
      BY <1>1, <1>2, <2>4, <2>5, <2>6, <2>7, StillCovered
  <1>3. CASE fg # "mount" /\ fg' # "mount"
    BY <1>2, <1>3 DEF Left
  <1>4. CASE UNCHANGED <<fg, todo, handled, subscribed>>
    BY <1>2, <1>4 DEF Left, InitCovered
  <1>5. CASE fg = "mount" /\ FinishInit
    <2>1. todo = <<>> /\ fg' # "mount"
      BY <1>5 DEF FinishInit, BeginDrain
    <2>2. \A kind : Left(kind)' = Left(kind)
      BY <1>5, <2>1, CountOfNone DEF Left
    <2>3. QED
      BY <1>2, <2>1, <2>2
  <1>6. QED
    BY <1>1, <1>3, <1>4, <1>5, MountSteps, ExecuteCovered

\* Whatever command init returns: all of it is executed before the first message is
\* handled and before anyone is subscribed.
THEOREM InitAlwaysComesFirst == TurnSpec => []InitComesFirst
  <1>1. TurnInit => InitCovered
    <2> SUFFICES ASSUME TurnInit PROVE InitCovered
      OBVIOUS
    <2>1. /\ fg = "mount" /\ handled = <<>> /\ subscribed = "none" /\ emitted = 0
          /\ nextEffectId = 0 /\ nextGeneration = 0 /\ initCommand = todo
          /\ todo \in Seq(Instructions)
      BY CommandTypes DEF TurnInit, Init, EffectInit, emitted
    <2>2. \A kind : Left(kind) = CountOf(initCommand, kind) /\ Left(kind) \in Nat
      BY <2>1, CountOfType DEF Left
    <2>3. QED
      BY <2>1, <2>2 DEF InitCovered
  <1>2. OwnTypeOK /\ InitCovered => InitComesFirst
    <2> SUFFICES ASSUME OwnTypeOK, InitCovered, handled # <<>> \/ subscribed # "none"
                 PROVE  /\ emitted >= CountOf(initCommand, "Emit")
                        /\ nextEffectId >= CountOf(initCommand, "Effect")
                        /\ nextGeneration >= CountOf(initCommand, "Keyed")
      BY DEF InitComesFirst
    <2>1. \A kind : Left(kind) = 0
      BY DEF InitCovered, Left
    <2>2. QED
      BY <2>1, InitNumbers DEF InitCovered
  <1>3. QED
    BY <1>1, <1>2, CoveredStep, OwnTypesHold, TurnsAreSteps, PTL DEF TurnSpec

-----------------------------------------------------------------------------
(* The places in the pending queue.                                        *)

\* AnswersNeverOvertake of any queue: taken knows each external message in it, n each
\* internal one.
Placed(queue, taken, n) ==
    /\ \A i \in 1..Len(queue) :
         /\ queue[i].origin = "External" => queue[i].id \in DOMAIN taken
         /\ queue[i].origin = "Internal" => queue[i].id <= n
    /\ \A i, j \in 1..Len(queue) :
         i < j /\ queue[i].origin = "Internal" /\ queue[j].origin = "External"
           => queue[i].id <= taken[queue[j].id]

PlacesKept == Placed(handled \o pending, takenAt, emitted)

\* An observation of the inbox only ever moves a bound up to the newest internal message.
LEMMA PlacedObserved ==
    ASSUME NEW queue \in Seq(Messages), NEW taken, NEW n, NEW S, Placed(queue, taken, n)
    PROVE  Placed(queue, [id \in DOMAIN taken \cup S |-> IF id \in S THEN n ELSE taken[id]], n)
  <1> DEFINE later == [id \in DOMAIN taken \cup S |-> IF id \in S THEN n ELSE taken[id]]
  <1>1. /\ DOMAIN later = DOMAIN taken \cup S
        /\ \A id \in DOMAIN taken : later[id] = n \/ later[id] = taken[id]
    OBVIOUS
  <1> HIDE DEF later
  <1>2. QED
    BY <1>1 DEF Placed, later

\* An internal message goes behind all others.
LEMMA PlacedAppend ==
    ASSUME NEW queue \in Seq(Messages), NEW taken, NEW n \in Nat, NEW m \in Messages,
           m.origin = "Internal", m.id = n + 1, Placed(queue, taken, n)
    PROVE  Placed(Append(queue, m), taken, n + 1)
  <1> DEFINE longer == Append(queue, m)
  <1>1. /\ Len(queue) \in Nat /\ Len(longer) = Len(queue) + 1 /\ longer[Len(queue) + 1] = m
        /\ \A i \in 1..Len(queue) : longer[i] = queue[i] /\ queue[i] \in Messages
    OBVIOUS
  <1> HIDE DEF longer
  <1>2. ASSUME NEW i \in 1..Len(longer), i # Len(queue) + 1
        PROVE  i \in 1..Len(queue) /\ longer[i] = queue[i]
    BY <1>1, <1>2
  <1>3. ASSUME NEW i \in 1..Len(longer)
        PROVE  /\ longer[i].origin = "External" => longer[i].id \in DOMAIN taken
               /\ longer[i].origin = "Internal" => longer[i].id <= n + 1
    <2>1. CASE i = Len(queue) + 1
      BY <1>1, <2>1
    <2>2. CASE i # Len(queue) + 1
      <3>1. i \in 1..Len(queue) /\ longer[i] = queue[i] /\ queue[i] \in Messages
        BY <1>1, <1>2, <2>2
      <3>2. queue[i].id \in Nat
        BY <3>1 DEF Messages
      <3>3. QED
        BY <3>1, <3>2 DEF Placed
    <2>3. QED
      BY <2>1, <2>2
  <1>4. ASSUME NEW i \in 1..Len(longer), NEW j \in 1..Len(longer), i < j,
               longer[i].origin = "Internal", longer[j].origin = "External"
        PROVE  longer[i].id <= taken[longer[j].id]
    <2>1. j # Len(queue) + 1
      BY <1>1, <1>4
    <2>2. i # Len(queue) + 1
      BY <1>1, <1>4
    <2>3. QED
      BY <1>2, <1>4, <2>1, <2>2 DEF Placed
  <1>5. QED
    BY <1>3, <1>4 DEF Placed, longer

\* A batch goes behind all others, and every internal message there is comes before it.
LEMMA PlacedConcat ==
    ASSUME NEW queue \in Seq(Messages), NEW batch \in Seq(Messages), NEW taken, NEW n,
           \A i \in 1..Len(batch) : /\ batch[i].origin = "External"
                                    /\ batch[i].id \in DOMAIN taken
                                    /\ taken[batch[i].id] = n,
           Placed(queue, taken, n)
    PROVE  Placed(queue \o batch, taken, n)
  <1> DEFINE longer == queue \o batch
  <1>1. /\ Len(queue) \in Nat /\ Len(batch) \in Nat /\ Len(longer) = Len(queue) + Len(batch)
        /\ \A i \in 1..Len(queue) : longer[i] = queue[i]
        /\ \A i \in 1..Len(longer) : i \notin 1..Len(queue) =>
             /\ i - Len(queue) \in 1..Len(batch)
             /\ longer[i] = batch[i - Len(queue)]
    OBVIOUS
  <1> HIDE DEF longer
  <1>2. ASSUME NEW i \in 1..Len(longer)
        PROVE  \/ i \in 1..Len(queue) /\ longer[i] = queue[i]
               \/ /\ i \notin 1..Len(queue) /\ longer[i].origin = "External"
                  /\ longer[i].id \in DOMAIN taken /\ taken[longer[i].id] = n
    BY <1>1
  <1>3. ASSUME NEW i \in 1..Len(longer)
        PROVE  /\ longer[i].origin = "External" => longer[i].id \in DOMAIN taken
               /\ longer[i].origin = "Internal" => longer[i].id <= n
    <2>1. CASE i \in 1..Len(queue) /\ longer[i] = queue[i]
      BY <2>1 DEF Placed
    <2>2. CASE longer[i].origin = "External" /\ longer[i].id \in DOMAIN taken
      <3>1. longer[i].origin # "Internal"
        BY <2>2
      <3>2. QED
        BY <2>2, <3>1
    <2>3. QED
      BY <1>2, <2>1, <2>2
  <1>4. ASSUME NEW i \in 1..Len(longer), NEW j \in 1..Len(longer), i < j,
               longer[i].origin = "Internal", longer[j].origin = "External"
        PROVE  longer[i].id <= taken[longer[j].id]
    <2>1. "Internal" # "External"
      OBVIOUS
    <2>2. i \in 1..Len(queue) /\ longer[i] = queue[i]
      BY <1>2, <1>4, <2>1
    <2>3. longer[i].id <= n
      BY <1>3, <1>4
    <2>4. CASE j \in 1..Len(queue) /\ longer[j] = queue[j]
      BY <1>4, <2>2, <2>4 DEF Placed
    <2>5. CASE taken[longer[j].id] = n
      BY <2>3, <2>5
    <2>6. QED
      BY <1>2, <2>4, <2>5
  <1>5. QED
    BY <1>3, <1>4 DEF Placed, longer

\* A message that is skipped leaves the others in their places.
LEMMA PlacedWithout ==
    ASSUME NEW s \in Seq(Messages), NEW t \in Seq(Messages), t # <<>>, NEW taken, NEW n,
           Placed(s \o t, taken, n)
    PROVE  Placed(s \o Tail(t), taken, n)
  <1> DEFINE before == s \o t
             after == s \o Tail(t)
             from == [i \in 1..Len(after) |-> IF i <= Len(s) THEN i ELSE i + 1]
  <1>1. /\ Len(s) \in Nat /\ Len(t) \in Nat /\ Tail(t) \in Seq(Messages)
        /\ Len(before) = Len(s) + Len(t) /\ Len(Tail(t)) = Len(t) - 1
        /\ Len(after) = Len(s) + Len(Tail(t))
    OBVIOUS
  <1>2. \A i \in 1..Len(after) : from[i] \in 1..Len(before) /\ after[i] = before[from[i]]
    OBVIOUS
  <1>3. \A i, j \in 1..Len(after) : i < j => from[i] < from[j]
    BY <1>1
  <1> HIDE DEF before, after, from
  <1>4. Placed(before, taken, n)
    BY DEF before
  <1>5. ASSUME NEW i \in 1..Len(after)
        PROVE  /\ after[i].origin = "External" => after[i].id \in DOMAIN taken
               /\ after[i].origin = "Internal" => after[i].id <= n
    BY <1>2, <1>4, <1>5 DEF Placed
  <1>6. ASSUME NEW i \in 1..Len(after), NEW j \in 1..Len(after), i < j,
               after[i].origin = "Internal", after[j].origin = "External"
        PROVE  after[i].id <= taken[after[j].id]
    <2>1. from[i] \in 1..Len(before) /\ from[j] \in 1..Len(before) /\ from[i] < from[j]
      BY <1>2, <1>3, <1>6
    <2>2. after[i] = before[from[i]] /\ after[j] = before[from[j]]
      BY <1>2
    <2>3. QED
      BY <1>4, <1>6, <2>1, <2>2 DEF Placed
  <1>7. Placed(after, taken, n)
    BY <1>5, <1>6 DEF Placed
  <1>8. QED
    BY <1>7 DEF after

\* What update has handled is a part of the queue.
LEMMA PlacedHandled ==
    ASSUME NEW s \in Seq(Messages), NEW t \in Seq(Messages), NEW taken, NEW n,
           Placed(s \o t, taken, n)
    PROVE  Placed(s \o <<>>, taken, n)
  <1> DEFINE both == s \o t
  <1>1. s \o <<>> = s
    BY EmptyConcat
  <1>2. \A i \in 1..Len(s) : i \in 1..Len(both) /\ both[i] = s[i]
    OBVIOUS
  <1> HIDE DEF both
  <1>3. Placed(both, taken, n)
    BY DEF both
  <1>4. Placed(s, taken, n)
    BY <1>2, <1>3 DEF Placed
  <1>5. QED
    BY <1>1, <1>4

LEMMA PlacesStep ==
    QP!TypeOK /\ OwnTypeOK /\ PlacesKept /\ [TurnNext]_turnVars => PlacesKept'
  <1> SUFFICES ASSUME QP!TypeOK, OwnTypeOK, PlacesKept, [TurnNext]_turnVars
               PROVE  PlacesKept'
    OBVIOUS
  <1>1. CASE UNCHANGED turnVars
    BY <1>1 DEF turnVars, vars, ownVars, PlacesKept, emitted, Placed
  <1> SUFFICES ASSUME Next, Observe PROVE PlacesKept'
    BY <1>1 DEF TurnNext
  <1> DEFINE queue == handled \o pending
             batch == [i \in 1..Len(inbox) |-> External(inbox[i])]
  <1>2. /\ handled \in Seq(Messages) /\ pending \in Seq(Messages) /\ queue \in Seq(Messages)
        /\ inbox \in Seq(Nat) /\ emitted \in Nat
    BY MessageSequences DEF OwnTypeOK, QP!TypeOK, emitted
  <1>3. Placed(queue, takenAt', emitted)
    BY <1>2, PlacedObserved DEF Observe, PlacesKept
  <1>4. CASE UNCHANGED <<pending, handled, emittedAt>>
    BY <1>3, <1>4 DEF PlacesKept, emitted
  <1>5. CASE EnqueueInternal
    <2> DEFINE m == Internal(emitted + 1)
    <2>1. /\ handled' = handled /\ pending' = Append(pending, m) /\ emitted' = emitted + 1
      BY <1>5, EnqueueAccountable DEF EnqueueInternal
    <2>2. m \in Messages /\ m.origin = "Internal" /\ m.id = emitted + 1
      BY <1>2 DEF Internal, Messages
    <2> HIDE DEF m
    <2>3. handled' \o pending' = Append(queue, m)
      BY <1>2, <2>1, <2>2, AppendedToConcat
    <2>4. Placed(Append(queue, m), takenAt', emitted + 1)
      BY <1>2, <1>3, <2>2, PlacedAppend
    <2>5. QED
      BY <2>1, <2>3, <2>4 DEF PlacesKept
  <1>6. CASE ProcessExternal \/ ProcessInternal
    <2>1. /\ pending # <<>> /\ pending' = Tail(pending) /\ emitted' = emitted
          /\ handled' = Append(handled, Head(pending))
      BY <1>6 DEF ProcessExternal, ProcessInternal, InLoop, Update, emitted
    <2>2. handled' \o pending' = queue
      BY <1>2, <2>1, MovedAcross
    <2>3. QED
      BY <1>3, <2>1, <2>2 DEF PlacesKept
  <1>7. CASE SkipExternal
    <2>1. /\ pending # <<>> /\ pending' = Tail(pending) /\ emitted' = emitted
          /\ handled' = handled
      BY <1>7 DEF SkipExternal, InLoop, emitted
    <2>2. QED
      BY <1>2, <1>3, <2>1, PlacedWithout DEF PlacesKept
  <1>8. CASE Receive
    <2>1. /\ handled' = handled /\ pending' = pending \o batch /\ emitted' = emitted
          /\ InboxTaken
      BY <1>8 DEF Receive, Queue!PollTake, InboxTaken, emitted
    <2>2. takenAt' = [id \in DOMAIN takenAt \cup Elements(inbox) |->
                        IF id \in Elements(inbox) THEN emitted ELSE takenAt[id]]
      BY <2>1 DEF Observe
    <2>3. \A i \in 1..Len(batch) :
            batch[i].origin = "External" /\ batch[i].id \in Elements(inbox)
      BY <1>2 DEF External, Elements
    <2>4. batch \in Seq(Messages)
      BY <1>2, BatchTypes, ExternalsAreMessages
    <2> HIDE DEF batch
    <2>5. \A id \in Elements(inbox) : id \in DOMAIN takenAt' /\ takenAt'[id] = emitted
      BY <2>2
    <2>6. \A i \in 1..Len(batch) : /\ batch[i].origin = "External"
                                   /\ batch[i].id \in DOMAIN takenAt'
                                   /\ takenAt'[batch[i].id] = emitted
      BY <2>3, <2>5
    <2>7. Placed(queue \o batch, takenAt', emitted)
      BY <1>2, <1>3, <2>4, <2>6, PlacedConcat
    <2>8. handled' \o pending' = queue \o batch
      BY <1>2, <2>1, <2>4
    <2>9. QED
      BY <2>1, <2>7, <2>8 DEF PlacesKept
  <1>9. CASE Unmount
    <2>1. pending' = <<>> /\ handled' = handled /\ emitted' = emitted
      BY <1>9 DEF Unmount, emitted
    <2>2. QED
      BY <1>2, <1>3, <2>1, PlacedHandled DEF PlacesKept
  <1>10. ASSUME \/ FinishDrain \/ ExecuteEffect \/ ExecuteKeyed \/ ExecuteCancel
                \/ CommandDone \/ FinishInit
         PROVE  UNCHANGED <<pending, handled, emittedAt>>
    BY <1>10 DEF FinishDrain, ExecuteEffect, ExecuteKeyed, ExecuteCancel, CommandDone,
                 FinishInit
  <1>11. ASSUME \/ \E d \in Dispatchers : Dispatch(d) \/ Wake(d)
                \/ ReceiveNothing \/ Continue \/ Release
                \/ \E r \in running : Ignore(r) \/ Undelivered(r)
         PROVE  UNCHANGED <<pending, handled, emittedAt>>
    BY <1>11 DEF Dispatch, Wake, ReceiveNothing, Continue, Release, Ignore, Undelivered,
                 ownVars
  <1>12. ASSUME ExecuteEmit \/ \E r \in running : Complete(r)
         PROVE  EnqueueInternal \/ UNCHANGED <<pending, handled, emittedAt>>
    BY <1>12 DEF ExecuteEmit, Complete
  <1>13. QED
    BY <1>4, <1>5, <1>6, <1>7, <1>8, <1>9, <1>10, <1>11, <1>12 DEF Next, DrainStep

\* An external message waits for what was ahead of it when it was taken, and for nothing
\* emitted since, for every length of the chain of answers, every budget and policy, and
\* whatever is displaced between them.
THEOREM AnswersAlwaysWait == TurnSpec => []AnswersNeverOvertake
  <1>1. TurnInit => PlacesKept
    <2> SUFFICES ASSUME TurnInit PROVE PlacesKept
      OBVIOUS
    <2>1. Len(handled \o pending) = 0
      BY DEF TurnInit, Init
    <2>2. QED
      BY <2>1 DEF PlacesKept, Placed
  <1>2. PlacesKept => AnswersNeverOvertake
    BY DEF PlacesKept, Placed, AnswersNeverOvertake
  <1>3. QED
    BY <1>1, <1>2, PlacesStep, QueueHolds, OwnTypesHold, TurnsAreSteps, PTL DEF TurnSpec

=============================================================================
