--------------------------- MODULE TelemetryProofs ---------------------------
(***************************************************************************)
(* Proofs about Telemetry, for every set of keys, any finite sets of       *)
(* threads and of subscriptions and any number of effects and messages:    *)
(* what each event means to the readers, what a sequence of events means,  *)
(* and that every step of the program tells its readers what it did.       *)
(***************************************************************************)
EXTENDS Telemetry, EffectTrackingProofs, CollectionsProofs

-----------------------------------------------------------------------------
(* What an event means.                                                    *)

\* What an event is called in the log and among the counters.
LEMMA QueueNames ==
    /\ EventName("DispatchAccepted") = "dispatch.accepted"
    /\ EventName("DispatchRejected") = "dispatch.rejected"
    /\ EventName("QueueOverflow") = "queue.overflow"
    /\ EventName("QueueDrainStarted") = "queue.drain.started"
    /\ EventName("QueueWarning") = "queue.warning"
    /\ EventName("MessageProcessed") = "message.processed"
    /\ CounterName["DispatchAccepted"] = "dispatch.accepted"
    /\ CounterName["DispatchRejected"] = "dispatch.rejected"
    /\ CounterName["QueueOverflow"] = "queue.overflow"
    /\ CounterName["QueueWarning"] = "queue.warning"
  BY DEF EventName, QueueEventName, EffectEventName, ProgramEventName, CounterName

LEMMA EffectNames ==
    /\ EventName("CommandScheduled") = "command.scheduled"
    /\ EventName("EffectStarted") = "effect.started"
    /\ EventName("KeyedCommandReplaced") = "keyed.replaced"
    /\ EventName("KeyedCommandCanceled") = "keyed.canceled"
    /\ EventName("EffectCompleted") = "effect.completed"
    /\ EventName("StaleKeyedCompletionIgnored") = "effect.stale_ignored"
    /\ CounterName["CommandScheduled"] = "command.scheduled"
    /\ CounterName["EffectStarted"] = "effect.started"
    /\ CounterName["KeyedCommandReplaced"] = "keyed.replaced"
    /\ CounterName["KeyedCommandCanceled"] = "keyed.canceled"
    /\ CounterName["EffectCompleted"] = "effect.completed"
    /\ CounterName["StaleKeyedCompletionIgnored"] = "keyed.stale_ignored"
    /\ {"EffectStarted", "KeyedCommandReplaced", "KeyedCommandCanceled", "EffectCompleted"}
         \subseteq Counted
  BY DEF EventName, QueueEventName, EffectEventName, ProgramEventName, CounterName, Counted

LEMMA ProgramNames ==
    /\ EventName("SubscriptionBuilt") = "subscription.built"
    /\ EventName("SubscriptionRetained") = "subscription.retained"
    /\ EventName("SubscriptionRemoved") = "subscription.removed"
    /\ EventName("SubscriptionsReconciled") = "subscriptions.reconciled"
    /\ EventName("QueueDrainFinished") = "queue.drain.finished"
    /\ EventName("ProgramUnmounted") = "program.unmounted"
    /\ CounterName["SubscriptionBuilt"] = "subscription.built"
    /\ CounterName["SubscriptionRemoved"] = "subscription.removed"
    /\ CounterName["ProgramUnmounted"] = "program.unmounted"
    /\ {"SubscriptionBuilt", "SubscriptionRemoved"} \subseteq Counted
  BY DEF EventName, QueueEventName, EffectEventName, ProgramEventName, CounterName, Counted

\* The fields of the events that are emitted.
LEMMA EventFields ==
    /\ \A name : LET e == Event(name)
                 IN  e.name = name /\ e.emitted \in BOOLEAN /\ e.action = "none"
    /\ \A name, key :
         LET e == OfKey(name, key)
         IN  e.name = name /\ e.key = key /\ e.emitted \in BOOLEAN /\ e.action = "none"
    /\ \A name, kind, key :
         LET e == OfKind(name, kind, key)
         IN  /\ e.name = name /\ e.kind = kind /\ e.key = key
             /\ e.emitted \in BOOLEAN /\ e.action = "none"
    /\ \A name, kind, key, emitted :
         LET e == Completion(name, kind, key, emitted)
         IN  /\ e.name = name /\ e.kind = kind /\ e.key = key
             /\ e.emitted = emitted /\ e.action = "none"
    /\ \A action : LET e == Overflow(action)
                   IN  e.name = "QueueOverflow" /\ e.action = action /\ e.emitted \in BOOLEAN
  BY DEF Event, OfKey, OfKind, Completion, Overflow

\* A view of n effects without a key, d messages, and the keys and subscriptions given.
Sees(view, keys, n, sources, d) ==
    /\ view.keys = keys /\ view.effects = n
    /\ view.sources = sources /\ view.depth = d

\* The two who know the same, and the one who counts u effects and b subscriptions.
Knows(readers, keys, n, sources, d, u, b) ==
    /\ Sees(readers.known, keys, n, sources, d)
    /\ Sees(readers.log, keys, n, sources, d)
    /\ readers.meters.running = u
    /\ readers.meters.subscribed = b

\* A dispatch is accepted, an older message displaced for it, or it is refused.
LEMMA TellAccepted ==
    ASSUME NEW K, NEW n \in Int, NEW s, NEW d \in Int, NEW u \in Int, NEW b \in Int,
           NEW r, Knows(r, K, n, s, d, u, b),
           NEW e, e.emitted \in BOOLEAN, e.name = "DispatchAccepted", e.action = "none"
    PROVE  Knows(Tell(r, e), K, n, s, d + 1, u, b)
  BY QueueNames
     DEF Knows, Sees, Tell, Watch, Read, TracingRecord, Tally, Increment, TelemetryOnly,
         DepthChange, One

LEMMA TellDisplaced ==
    ASSUME NEW K, NEW n \in Int, NEW s, NEW d \in Int, NEW u \in Int, NEW b \in Int,
           NEW r, Knows(r, K, n, s, d, u, b),
           NEW e, e.emitted \in BOOLEAN, e.name = "QueueOverflow",
           e.action = "DroppedOldest"
    PROVE  Knows(Tell(r, e), K, n, s, d - 1, u, b)
  BY QueueNames
     DEF Knows, Sees, Tell, Watch, Read, TracingRecord, Tally, Increment, TelemetryOnly,
         DepthChange, One

LEMMA TellRefused ==
    ASSUME NEW K, NEW n \in Int, NEW s, NEW d \in Int, NEW u \in Int, NEW b \in Int,
           NEW r, Knows(r, K, n, s, d, u, b),
           NEW e, e.emitted \in BOOLEAN, e.name = "QueueOverflow",
           e.action # "DroppedOldest"
    PROVE  Knows(Tell(r, e), K, n, s, d, u, b)
  BY QueueNames
     DEF Knows, Sees, Tell, Watch, Read, TracingRecord, Tally, Increment, TelemetryOnly,
         DepthChange, One

\* A message is processed.
LEMMA TellProcessed ==
    ASSUME NEW K, NEW n \in Int, NEW s, NEW d \in Int, NEW u \in Int, NEW b \in Int,
           NEW r, Knows(r, K, n, s, d, u, b),
           NEW e, e.emitted \in BOOLEAN, e.name = "MessageProcessed", e.action = "none"
    PROVE  Knows(Tell(r, e), K, n, s, d - 1, u, b)
  BY QueueNames
     DEF Knows, Sees, Tell, Watch, Read, TracingRecord, Tally, Increment, TelemetryOnly,
         DepthChange, One, Counted, CounterName

\* Events that say nothing of what the readers keep.
Unheeded ==
    {"DispatchRejected", "QueueDrainStarted", "QueueWarning", "QueueDrainFinished",
     "SubscriptionRetained", "SubscriptionsReconciled", "StaleKeyedCompletionIgnored"}

LEMMA TellUnheeded ==
    ASSUME NEW K, NEW n \in Int, NEW s, NEW d \in Int, NEW u \in Int, NEW b \in Int,
           NEW r, Knows(r, K, n, s, d, u, b),
           NEW e, e.emitted \in BOOLEAN, e.name \in Unheeded, e.action = "none"
    PROVE  Knows(Tell(r, e), K, n, s, d, u, b)
  BY QueueNames, EffectNames, ProgramNames
     DEF Knows, Sees, Tell, Watch, Read, TracingRecord, Tally, Increment, TelemetryOnly,
         DepthChange, One, Unheeded,
         Counted, CounterName

\* A message is emitted: of the two events the second counts.
LEMMA TellEmitting ==
    ASSUME NEW K, NEW n \in Int, NEW s, NEW d \in Int, NEW u \in Int, NEW b \in Int,
           NEW r, Knows(r, K, n, s, d, u, b),
           NEW e, e.emitted \in BOOLEAN, e.name = "CommandScheduled", e.kind = "Emit",
           e.action = "none"
    PROVE  Knows(Tell(r, e), K, n, s, d, u, b)
  BY EffectNames
     DEF Knows, Sees, Tell, Watch, Read, TracingRecord, Tally, Increment, TelemetryOnly,
         DepthChange, One

LEMMA TellEmitted ==
    ASSUME NEW K, NEW n \in Int, NEW s, NEW d \in Int, NEW u \in Int, NEW b \in Int,
           NEW r, Knows(r, K, n, s, d, u, b),
           NEW e, e.emitted \in BOOLEAN, e.name = "EffectCompleted", e.kind = "Emit",
           e.action = "none"
    PROVE  Knows(Tell(r, e), K, n, s, d + One(e.emitted), u, b)
  BY EffectNames
     DEF Knows, Sees, Tell, Watch, Read, TracingRecord, Tally, Increment, TelemetryOnly,
         DepthChange, One

\* An effect completes, or its task is replaced.
LEMMA TellCompleted ==
    ASSUME NEW K, NEW n \in Int, NEW s, NEW d \in Int, NEW u \in Int, NEW b \in Int,
           NEW r, Knows(r, K, n, s, d, u, b),
           NEW e, e.emitted \in BOOLEAN, e.name = "EffectCompleted", e.kind = "Effect",
           e.action = "none"
    PROVE  Knows(Tell(r, e), K \ {e.key}, n - One(e.key = NoKey), s,
                 d + One(e.emitted), u - 1, b)
  BY EffectNames
     DEF Knows, Sees, Tell, Watch, Read, TracingRecord, Tally, Increment, TelemetryOnly,
         DepthChange, One

LEMMA TellReplaced ==
    ASSUME NEW K, NEW n \in Int, NEW s, NEW d \in Int, NEW u \in Int, NEW b \in Int,
           NEW r, Knows(r, K, n, s, d, u, b),
           NEW e, e.emitted \in BOOLEAN, e.name = "KeyedCommandReplaced", e.action = "none"
    PROVE  Knows(Tell(r, e), K, n, s, d, u - 1, b)
  BY EffectNames
     DEF Knows, Sees, Tell, Watch, Read, TracingRecord, Tally, Increment, TelemetryOnly,
         DepthChange, One

\* A key without a task is canceled.
LEMMA TellNoCancel ==
    ASSUME NEW K, NEW n \in Int, NEW s, NEW d \in Int, NEW u \in Int, NEW b \in Int,
           NEW r, Knows(r, K, n, s, d, u, b),
           NEW e, e.emitted \in BOOLEAN, e.name = "CommandScheduled", e.kind = "Cancel",
           e.action = "none", e.key # NoKey, e.key \notin K
    PROVE  Knows(Tell(r, e), K, n, s, d, u, b)
  <1>1. Knows(Tell(r, e), K \ {e.key}, n, s, d, u, b)
    BY EffectNames
       DEF Knows, Sees, Tell, Watch, Read, TracingRecord, Tally, Increment, TelemetryOnly,
           DepthChange, One
  <1>2. K \ {e.key} = K
    OBVIOUS
  <1>3. QED
    BY <1>1, <1>2

\* A subscription is built or removed.
LEMMA TellBuilt ==
    ASSUME NEW K, NEW n \in Int, NEW s, NEW d \in Int, NEW u \in Int, NEW b \in Int,
           NEW r, Knows(r, K, n, s, d, u, b),
           NEW e, e.emitted \in BOOLEAN, e.name = "SubscriptionBuilt", e.action = "none"
    PROVE  Knows(Tell(r, e), K, n, s \cup {e.key}, d, u, b + 1)
  BY ProgramNames
     DEF Knows, Sees, Tell, Watch, Read, TracingRecord, Tally, Increment, TelemetryOnly,
         DepthChange, One

LEMMA TellRemoved ==
    ASSUME NEW K, NEW n \in Int, NEW s, NEW d \in Int, NEW u \in Int, NEW b \in Int,
           NEW r, Knows(r, K, n, s, d, u, b),
           NEW e, e.emitted \in BOOLEAN, e.name = "SubscriptionRemoved", e.action = "none"
    PROVE  Knows(Tell(r, e), K, n, s \ {e.key}, d, u, b - 1)
  BY ProgramNames
     DEF Knows, Sees, Tell, Watch, Read, TracingRecord, Tally, Increment, TelemetryOnly,
         DepthChange, One

\* The program is unmounted: the counters remain.
LEMMA TellUnmounted ==
    ASSUME NEW K, NEW n \in Int, NEW s, NEW d \in Int, NEW u \in Int, NEW b \in Int,
           NEW r, Knows(r, K, n, s, d, u, b),
           NEW e, e.emitted \in BOOLEAN, e.name = "ProgramUnmounted", e.action = "none"
    PROVE  Knows(Tell(r, e), {}, 0, {}, 0, u, b)
  BY ProgramNames
     DEF Knows, Sees, Tell, Watch, Read, TracingRecord, Tally, Increment, TelemetryOnly,
         DepthChange, One, Nothing

\* A start is known by CommandScheduled to one and by EffectStarted to the other, and
\* so is the cancellation of a task.
LEMMA TellOfStart ==
    ASSUME NEW K, NEW n \in Int, NEW s, NEW d \in Int, NEW u \in Int, NEW b \in Int,
           NEW r, Knows(r, K, n, s, d, u, b), NEW key
    PROVE  Knows(Tell(Tell(r, Scheduled("Effect", key)), Started(key)),
                 K \cup ({key} \ {NoKey}), n + One(key = NoKey), s, d, u + 1, b)
  <1> DEFINE e == Scheduled("Effect", key)
             f == Started(key)
             q == Tell(r, e)
  <1>1. /\ e.name = "CommandScheduled" /\ e.kind = "Effect" /\ e.key = key
        /\ e.emitted \in BOOLEAN /\ e.action = "none"
    BY EventFields DEF Scheduled
  <1>2. f.name = "EffectStarted" /\ f.key = key /\ f.emitted \in BOOLEAN /\ f.action = "none"
    BY EventFields DEF Started
  <1> HIDE DEF e, f
  <1>3. /\ Sees(q.known, K \cup ({key} \ {NoKey}), n + One(key = NoKey), s, d)
        /\ Sees(q.log, K, n, s, d) /\ q.meters.running = u /\ q.meters.subscribed = b
    BY <1>1, EffectNames
       DEF Knows, Sees, Tell, Watch, Read, TracingRecord, Tally, Increment, TelemetryOnly,
           DepthChange, One
  <1> HIDE DEF q
  <1>4. Knows(Tell(q, f), K \cup ({key} \ {NoKey}), n + One(key = NoKey), s, d, u + 1, b)
    BY <1>2, <1>3, EffectNames
       DEF Knows, Sees, Tell, Watch, Read, TracingRecord, Tally, Increment, TelemetryOnly,
           DepthChange, One
  <1>5. QED
    BY <1>4 DEF e, f, q

LEMMA TellOfCancel ==
    ASSUME NEW K, NEW n \in Int, NEW s, NEW d \in Int, NEW u \in Int, NEW b \in Int,
           NEW r, Knows(r, K, n, s, d, u, b), NEW key, key # NoKey
    PROVE  Knows(Tell(Tell(r, Scheduled("Cancel", key)), OfKey("KeyedCommandCanceled", key)),
                 K \ {key}, n, s, d, u - 1, b)
  <1> DEFINE e == Scheduled("Cancel", key)
             f == OfKey("KeyedCommandCanceled", key)
             q == Tell(r, e)
  <1>1. /\ e.name = "CommandScheduled" /\ e.kind = "Cancel" /\ e.key = key
        /\ e.emitted \in BOOLEAN /\ e.action = "none"
    BY EventFields DEF Scheduled
  <1>2. f.name = "KeyedCommandCanceled" /\ f.key = key /\ f.emitted \in BOOLEAN /\ f.action = "none"
    BY EventFields
  <1> HIDE DEF e, f
  <1>3. /\ Sees(q.known, K \ {key}, n, s, d)
        /\ Sees(q.log, K, n, s, d) /\ q.meters.running = u /\ q.meters.subscribed = b
    BY <1>1, EffectNames
       DEF Knows, Sees, Tell, Watch, Read, TracingRecord, Tally, Increment, TelemetryOnly,
           DepthChange, One
  <1> HIDE DEF q
  <1>4. Knows(Tell(q, f), K \ {key}, n, s, d, u - 1, b)
    BY <1>2, <1>3, EffectNames
       DEF Knows, Sees, Tell, Watch, Read, TracingRecord, Tally, Increment, TelemetryOnly,
           DepthChange, One
  <1>5. QED
    BY <1>4 DEF e, f, q

-----------------------------------------------------------------------------
(* What a sequence of events means.                                        *)

\* One step of the recursion of ToldFirst.
Telling(r, s, after, n) == IF n = 0 THEN r ELSE Tell(after[n - 1], s[n])

LEMMA TellingExists ==
    ASSUME NEW r, NEW s
    PROVE  \A m \in Nat : \E f : f = [n \in 0..m |-> Telling(r, s, f, n)]
  <1> DEFINE T == {m \in Nat : \E f : f = [n \in 0..m |-> Telling(r, s, f, n)]}
  <1>1. 0 \in T
    <2> DEFINE f == [n \in 0..0 |-> r]
    <2>1. f = [n \in 0..0 |-> Telling(r, s, f, n)]
      BY DEF Telling
    <2>2. QED
      BY <2>1
  <1>2. ASSUME NEW m \in T PROVE m + 1 \in T
    <2>1. PICK f : f = [n \in 0..m |-> Telling(r, s, f, n)]
      OBVIOUS
    <2> DEFINE g == [n \in 0..(m + 1) |-> IF n = m + 1 THEN Telling(r, s, f, n) ELSE f[n]]
    <2>2. ASSUME NEW n \in 0..(m + 1) PROVE g[n] = Telling(r, s, g, n)
      <3>1. CASE n = m + 1
        BY <3>1 DEF Telling
      <3>2. CASE n # m + 1
        <4>1. n \in 0..m
          BY <3>2
        <4>2. g[n] = f[n] /\ f[n] = Telling(r, s, f, n)
          BY <3>2, <4>1, <2>1
        <4>3. n # 0 => n - 1 \in 0..m /\ n - 1 # m + 1 /\ g[n - 1] = f[n - 1]
          BY <4>1
        <4>4. QED
          BY <4>2, <4>3 DEF Telling
      <3>3. QED
        BY <3>1, <3>2
    <2>3. g = [n \in 0..(m + 1) |-> Telling(r, s, g, n)]
      BY <2>2
    <2> HIDE DEF g
    <2>4. \E h : h = [n \in 0..(m + 1) |-> Telling(r, s, h, n)]
      BY <2>3
    <2>5. QED
      BY <2>4
  <1>3. T = Nat
    <2>1. T \in SUBSET Nat
      OBVIOUS
    <2> HIDE DEF T
    <2>2. QED
      BY <2>1, <1>1, <1>2, AllNaturals
  <1>4. QED
    BY <1>3

\* The equations by which ToldFirst is defined.
LEMMA ToldUnfolds ==
    ASSUME NEW M, NEW s \in Seq(M), NEW r
    PROVE  /\ ToldFirst(r, s)[0] = r
           /\ \A n \in 0..(Len(s) - 1) :
                ToldFirst(r, s)[n + 1] = Tell(ToldFirst(r, s)[n], s[n + 1])
  <1> DEFINE F == CHOOSE f : f = [n \in 0..Len(s) |-> Telling(r, s, f, n)]
  <1>1. ToldFirst(r, s) = F
    BY DEF ToldFirst, Telling
  <1>2. Len(s) \in Nat
    OBVIOUS
  <1>3. F = [n \in 0..Len(s) |-> Telling(r, s, F, n)]
    BY <1>2, TellingExists
  <1> HIDE DEF F
  <1>4. F[0] = r
    BY <1>2, <1>3 DEF Telling
  <1>5. ASSUME NEW n \in 0..(Len(s) - 1) PROVE F[n + 1] = Tell(F[n], s[n + 1])
    <2>1. n + 1 \in 0..Len(s) /\ n + 1 # 0 /\ n + 1 - 1 = n
      BY <1>2
    <2>2. F[n + 1] = Telling(r, s, F, n + 1)
      BY <2>1, <1>3
    <2>3. QED
      BY <2>1, <2>2 DEF Telling
  <1>6. QED
    BY <1>1, <1>4, <1>5

LEMMA ToldNothing == ASSUME NEW r PROVE Told(r, <<>>) = r
  <1>1. <<>> \in Seq({}) /\ Len(<<>>) = 0
    OBVIOUS
  <1>2. QED
    BY <1>1, ToldUnfolds DEF Told

\* What the first events tell depends on those only.
LEMMA ToldByPrefix ==
    ASSUME NEW M, NEW s \in Seq(M), NEW e \in M, NEW r
    PROVE  \A n \in 0..Len(s) : ToldFirst(r, Append(s, e))[n] = ToldFirst(r, s)[n]
  <1> DEFINE t == Append(s, e)
             T == {n \in Nat : n \in 0..Len(s) => ToldFirst(r, t)[n] = ToldFirst(r, s)[n]}
  <1>1. t \in Seq(M) /\ Len(t) = Len(s) + 1 /\ \A n \in 1..Len(s) : t[n] = s[n]
    OBVIOUS
  <1> HIDE DEF t
  <1>2. Len(s) \in Nat
    OBVIOUS
  <1>3. 0 \in T
    BY <1>1, ToldUnfolds
  <1>4. ASSUME NEW n \in T PROVE n + 1 \in T
    <2> SUFFICES ASSUME n + 1 \in 0..Len(s)
                 PROVE  ToldFirst(r, t)[n + 1] = ToldFirst(r, s)[n + 1]
      OBVIOUS
    <2>1. n \in 0..(Len(s) - 1) /\ n \in 0..(Len(t) - 1) /\ n \in 0..Len(s)
      BY <1>1, <1>2
    <2>2. t[n + 1] = s[n + 1] /\ ToldFirst(r, t)[n] = ToldFirst(r, s)[n]
      BY <1>1, <1>2, <2>1
    <2>3. QED
      BY <1>1, <2>1, <2>2, ToldUnfolds
  <1>5. T = Nat
    <2>1. T \in SUBSET Nat
      OBVIOUS
    <2> HIDE DEF T
    <2>2. QED
      BY <2>1, <1>3, <1>4, AllNaturals
  <1>6. QED
    BY <1>2, <1>5 DEF t

LEMMA ToldAppend ==
    ASSUME NEW M, NEW s \in Seq(M), NEW e \in M, NEW r
    PROVE  Told(r, Append(s, e)) = Tell(Told(r, s), e)
  <1> DEFINE t == Append(s, e)
             l == Len(s)
  <1>1. t \in Seq(M) /\ Len(t) = l + 1 /\ t[l + 1] = e /\ l \in Nat
    OBVIOUS
  <1>2. l \in 0..(Len(t) - 1) /\ l \in 0..Len(s)
    BY <1>1
  <1>3. ToldFirst(r, t)[l] = ToldFirst(r, s)[l]
    BY <1>2, ToldByPrefix
  <1>4. Told(r, s) = ToldFirst(r, s)[l]
    BY DEF Told
  <1> HIDE DEF t, l
  <1>5. ToldFirst(r, t)[l + 1] = Tell(ToldFirst(r, t)[l], t[l + 1])
    BY <1>1, <1>2, ToldUnfolds
  <1>6. Told(r, t) = ToldFirst(r, t)[l + 1]
    BY <1>1 DEF Told
  <1>7. Told(r, t) = Tell(Told(r, s), e)
    BY <1>1, <1>3, <1>4, <1>5, <1>6
  <1>8. QED
    BY <1>7 DEF t

\* Events one after the other, and one event.
LEMMA ToldConcat ==
    ASSUME NEW M, NEW s \in Seq(M), NEW r
    PROVE  \A t \in Seq(M) : Told(r, s \o t) = Told(Told(r, s), t)
  <1> DEFINE T == {t \in Seq(M) : Told(r, s \o t) = Told(Told(r, s), t)}
  <1>1. <<>> \in T
    <2>1. s \o <<>> = s /\ <<>> \in Seq(M)
      OBVIOUS
    <2>2. QED
      BY <2>1, ToldNothing
  <1>2. ASSUME NEW t \in Seq(M), NEW e \in M, t \in T PROVE Append(t, e) \in T
    <2>1. s \o Append(t, e) = Append(s \o t, e) /\ s \o t \in Seq(M)
      OBVIOUS
    <2>2. Told(r, Append(s \o t, e)) = Tell(Told(r, s \o t), e)
      BY <2>1, ToldAppend
    <2>3. Told(Told(r, s), Append(t, e)) = Tell(Told(Told(r, s), t), e)
      BY ToldAppend
    <2>4. Told(r, s \o t) = Told(Told(r, s), t)
      BY <1>2
    <2>5. Append(t, e) \in Seq(M)
      OBVIOUS
    <2>6. QED
      BY <2>1, <2>2, <2>3, <2>4, <2>5
  <1> HIDE DEF T
  <1>3. Seq(M) \subseteq T
    BY <1>1, <1>2, AllSequences
  <1>4. QED
    BY <1>3 DEF T

LEMMA ToldOne ==
    ASSUME NEW r, NEW e
    PROVE  Told(r, <<e>>) = Tell(r, e)
  <1>1. <<>> \in Seq({e}) /\ e \in {e} /\ <<e>> = Append(<<>>, e)
    OBVIOUS
  <1>2. Told(r, Append(<<>>, e)) = Tell(Told(r, <<>>), e)
    BY <1>1, ToldAppend
  <1>3. QED
    BY <1>1, <1>2, ToldNothing

LEMMA ToldTwo ==
    ASSUME NEW r, NEW e, NEW f
    PROVE  Told(r, <<e, f>>) = Tell(Tell(r, e), f)
  <1>1. <<e>> \in Seq({e, f}) /\ f \in {e, f} /\ <<e, f>> = Append(<<e>>, f)
    OBVIOUS
  <1>2. Told(r, Append(<<e>>, f)) = Tell(Told(r, <<e>>), f)
    BY <1>1, ToldAppend
  <1>3. QED
    BY <1>1, <1>2, ToldOne

-----------------------------------------------------------------------------
(* Reconciliations.                                                        *)

\* SetToSeq orders a finite set.
LEMMA Ordered ==
    ASSUME NEW S, IsFiniteSet(S)
    PROVE  /\ SetToSeq(S) \in Seq(S)
           /\ Entries(SetToSeq(S)) = S
           /\ Distinct(SetToSeq(S))
  <1> DEFINE c == Cardinality(S)
             o == SetToSeq(S)
  <1>1. c \in Nat /\ ExistsBijection(1..c, S)
    BY FS_CardinalityType
  <1>2. \E f \in [1..c -> S] : IsInjective(f)
    BY <1>1 DEF ExistsBijection, Bijection, Injection, IsInjective
  <1>3. o \in [1..c -> S] /\ IsInjective(o)
    BY <1>2 DEF SetToSeq
  <1> HIDE DEF o
  <1>4. o \in Seq(S) /\ Len(o) = c
    BY <1>1, <1>3
  <1>5. Distinct(o)
    BY <1>3, <1>4 DEF Distinct, IsInjective
  <1>6. o \in Injection(1..c, S)
    BY <1>3 DEF Injection, IsInjective
  <1>7. Cardinality(1..c) = c /\ IsFiniteSet(1..c)
    BY <1>1, FS_Interval
  <1>8. o \in Surjection(1..c, S)
    BY <1>6, <1>7, FS_Injection
  <1>9. Entries(o) = S
    BY <1>3, <1>4, <1>8 DEF Entries, Surjection
  <1>10. QED
    BY <1>4, <1>5, <1>9 DEF o

\* Events of one kind about the elements of a sequence.
LEMMA InTurnGrows ==
    ASSUME NEW M, NEW name, NEW s \in Seq(M), NEW x \in M
    PROVE  /\ InTurn(name, <<>>) = <<>>
           /\ InTurn(name, Append(s, x)) = Append(InTurn(name, s), OfKey(name, x))
  <1> DEFINE t == Append(s, x)
             a == InTurn(name, t)
             b == Append(InTurn(name, s), OfKey(name, x))
  <1>1. /\ Len(s) \in Nat /\ Len(t) = Len(s) + 1 /\ t[Len(s) + 1] = x
        /\ \A i \in 1..Len(s) : t[i] = s[i]
    OBVIOUS
  <1> HIDE DEF t
  <1> DEFINE N == {OfKey(name, y) : y \in M}
  <1>2. InTurn(name, s) \in Seq(N) /\ Len(InTurn(name, s)) = Len(s) /\ OfKey(name, x) \in N
    BY <1>1 DEF InTurn
  <1>3. a \in Seq(N) /\ Len(a) = Len(s) + 1
    BY <1>1 DEF InTurn, t
  <1>4. QED
    BY <1>1, <1>2, <1>3 DEF InTurn

LEMMA ToldInTurn ==
    ASSUME NEW M, NEW name, NEW s \in Seq(M), NEW x \in M, NEW r
    PROVE  /\ Told(r, InTurn(name, <<>>)) = r
           /\ Told(r, InTurn(name, Append(s, x)))
                = Tell(Told(r, InTurn(name, s)), OfKey(name, x))
  <1> DEFINE N == {OfKey(name, y) : y \in M}
             o == InTurn(name, s)
  <1>1. o \in Seq(N) /\ OfKey(name, x) \in N
    BY DEF InTurn
  <1> HIDE DEF o, N
  <1>2. Told(r, Append(o, OfKey(name, x))) = Tell(Told(r, o), OfKey(name, x))
    BY <1>1, ToldAppend
  <1>3. QED
    BY <1>2, InTurnGrows, ToldNothing DEF o

LEMMA RetainedInTurn ==
    ASSUME NEW K, NEW n \in Int, NEW s, NEW d \in Int, NEW u \in Int, NEW b \in Int,
           NEW r, Knows(r, K, n, s, d, u, b), NEW M
    PROVE  \A o \in Seq(M) : Knows(Told(r, InTurn("SubscriptionRetained", o)), K, n, s, d, u, b)
  <1> DEFINE after(o) == Told(r, InTurn("SubscriptionRetained", o))
             T == {o \in Seq(M) : Knows(after(o), K, n, s, d, u, b)}
  <1>1. <<>> \in T
    <2>1. <<>> \in Seq(M)
      OBVIOUS
    <2>2. Told(r, InTurn("SubscriptionRetained", <<>>)) = r
      BY InTurnGrows, ToldNothing DEF InTurn
    <2>3. QED
      BY <2>1, <2>2
  <1>2. ASSUME NEW o \in Seq(M), NEW x \in M, o \in T PROVE Append(o, x) \in T
    <2> DEFINE e == OfKey("SubscriptionRetained", x)
    <2>1. e.name \in Unheeded /\ e.emitted \in BOOLEAN /\ e.action = "none"
      BY EventFields DEF Unheeded
    <2>2. after(Append(o, x)) = Tell(after(o), e)
      BY ToldInTurn
    <2>3. Knows(after(o), K, n, s, d, u, b)
      BY <1>2
    <2>4. Knows(Tell(after(o), e), K, n, s, d, u, b)
      <3> DEFINE q == after(o)
      <3>1. Knows(q, K, n, s, d, u, b)
        BY <2>3
      <3> HIDE DEF q, e
      <3>2. Knows(Tell(q, e), K, n, s, d, u, b)
        BY <2>1, <3>1, TellUnheeded
      <3>3. QED
        BY <3>2 DEF q
    <2>5. Append(o, x) \in Seq(M)
      OBVIOUS
    <2>6. QED
      BY <2>2, <2>4, <2>5
  <1> HIDE DEF T
  <1>3. Seq(M) \subseteq T
    BY <1>1, <1>2, AllSequences
  <1>4. QED
    BY <1>3 DEF T

LEMMA RemovedInTurn ==
    ASSUME NEW K, NEW n \in Int, NEW s, IsFiniteSet(s), NEW d \in Int, NEW u \in Int,
           NEW r, Knows(r, K, n, s, d, u, Cardinality(s))
    PROVE  \A o \in Seq(s) : Distinct(o) =>
             Knows(Told(r, InTurn("SubscriptionRemoved", o)),
                   K, n, s \ Entries(o), d, u, Cardinality(s \ Entries(o)))
  <1> DEFINE after(o) == Told(r, InTurn("SubscriptionRemoved", o))
             rest(o) == s \ Entries(o)
             T == {o \in Seq(s) : Distinct(o) =>
                     Knows(after(o), K, n, rest(o), d, u, Cardinality(rest(o)))}
  <1>1. <<>> \in T
    <2>1. <<>> \in Seq(s) /\ Entries(<<>>) = {} /\ s \ {} = s
      BY DEF Entries
    <2>2. Told(r, InTurn("SubscriptionRemoved", <<>>)) = r
      BY InTurnGrows, ToldNothing DEF InTurn
    <2>3. QED
      BY <2>1, <2>2
  <1>2. ASSUME NEW o \in Seq(s), NEW x \in s, o \in T PROVE Append(o, x) \in T
    <2> DEFINE e == OfKey("SubscriptionRemoved", x)
               t == Append(o, x)
    <2>1. e.name = "SubscriptionRemoved" /\ e.key = x /\ e.emitted \in BOOLEAN /\ e.action = "none"
      BY EventFields
    <2>2. after(t) = Tell(after(o), e)
      BY ToldInTurn
    <2>3. /\ Entries(t) = Entries(o) \cup {x}
          /\ Distinct(t) => Distinct(o) /\ x \notin Entries(o)
      BY AppendEntries
    <2>4. t \in Seq(s)
      OBVIOUS
    <2> HIDE DEF t, e
    <2>5. ASSUME Distinct(t)
          PROVE  Knows(after(t), K, n, rest(t), d, u, Cardinality(rest(t)))
      <3> DEFINE q == after(o)
                 p == rest(o)
                 c == Cardinality(p)
      <3>1. Knows(q, K, n, p, d, u, c)
        BY <1>2, <2>3, <2>5
      <3>2. rest(t) = p \ {x} /\ x \in p
        BY <2>3, <2>5
      <3>3. IsFiniteSet(p)
        BY FS_Subset
      <3> HIDE DEF p
      <3>4. c \in Int /\ Cardinality(p \ {x}) = c - 1
        BY <3>2, <3>3, FS_RemoveElement, FS_CardinalityType
      <3> HIDE DEF q, c, after
      <3>5. Knows(Tell(q, e), K, n, p \ {x}, d, u, c - 1)
        BY <2>1, <3>1, <3>4, TellRemoved
      <3>6. Knows(after(t), K, n, p \ {x}, d, u, Cardinality(p \ {x}))
        BY <2>2, <3>4, <3>5 DEF q
      <3>7. QED
        BY <3>2, <3>6
    <2>6. QED
      BY <2>4, <2>5 DEF t
  <1> HIDE DEF T
  <1>3. Seq(s) \subseteq T
    BY <1>1, <1>2, AllSequences
  <1>4. QED
    BY <1>3 DEF T

LEMMA BuiltInTurn ==
    ASSUME NEW K, NEW n \in Int, NEW s, IsFiniteSet(s), NEW d \in Int, NEW u \in Int,
           NEW r, Knows(r, K, n, s, d, u, Cardinality(s)),
           NEW M, M \cap s = {}, IsFiniteSet(M)
    PROVE  \A o \in Seq(M) : Distinct(o) =>
             Knows(Told(r, InTurn("SubscriptionBuilt", o)),
                   K, n, s \cup Entries(o), d, u, Cardinality(s \cup Entries(o)))
  <1> DEFINE after(o) == Told(r, InTurn("SubscriptionBuilt", o))
             all(o) == s \cup Entries(o)
             T == {o \in Seq(M) : Distinct(o) =>
                     Knows(after(o), K, n, all(o), d, u, Cardinality(all(o)))}
  <1>1. <<>> \in T
    <2>1. <<>> \in Seq(M) /\ Entries(<<>>) = {} /\ s \cup {} = s
      BY DEF Entries
    <2>2. Told(r, InTurn("SubscriptionBuilt", <<>>)) = r
      BY InTurnGrows, ToldNothing DEF InTurn
    <2>3. QED
      BY <2>1, <2>2
  <1>2. ASSUME NEW o \in Seq(M), NEW x \in M, o \in T PROVE Append(o, x) \in T
    <2> DEFINE e == OfKey("SubscriptionBuilt", x)
               t == Append(o, x)
    <2>1. e.name = "SubscriptionBuilt" /\ e.key = x /\ e.emitted \in BOOLEAN /\ e.action = "none"
      BY EventFields
    <2>2. after(t) = Tell(after(o), e)
      BY ToldInTurn
    <2>3. /\ Entries(t) = Entries(o) \cup {x}
          /\ Distinct(t) => Distinct(o) /\ x \notin Entries(o)
      BY AppendEntries
    <2>4. t \in Seq(M) /\ Entries(o) \in SUBSET M
      BY DEF Entries
    <2> HIDE DEF t, e
    <2>5. ASSUME Distinct(t)
          PROVE  Knows(after(t), K, n, all(t), d, u, Cardinality(all(t)))
      <3> DEFINE q == after(o)
                 p == all(o)
                 c == Cardinality(p)
      <3>1. Knows(q, K, n, p, d, u, c)
        BY <1>2, <2>3, <2>5
      <3>2. all(t) = p \cup {x} /\ x \notin p
        BY <2>3, <2>5
      <3>3. IsFiniteSet(p)
        <4>1. IsFiniteSet(Entries(o))
          BY <2>4, FS_Subset
        <4>2. QED
          BY <4>1, FS_Union
      <3> HIDE DEF p
      <3>4. c \in Int /\ Cardinality(p \cup {x}) = c + 1
        <4>1. c \in Int
          BY <3>3, FS_CardinalityType
        <4>2. Cardinality(p \cup {x}) = c + 1
          BY <3>2, <3>3, FS_AddElement
        <4>3. QED
          BY <4>1, <4>2
      <3> HIDE DEF q, c, after
      <3>5. Knows(Tell(q, e), K, n, p \cup {x}, d, u, c + 1)
        BY <2>1, <3>1, <3>4, TellBuilt
      <3>6. Knows(after(t), K, n, p \cup {x}, d, u, Cardinality(p \cup {x}))
        BY <2>2, <3>4, <3>5 DEF q
      <3>7. QED
        BY <3>2, <3>6
    <2>6. QED
      BY <2>4, <2>5 DEF t
  <1> HIDE DEF T
  <1>3. Seq(M) \subseteq T
    BY <1>1, <1>2, AllSequences
  <1>4. QED
    BY <1>3 DEF T

\* What a reconciliation tells: the subscriptions that are wanted are the active ones.
AboutSubscriptions == {"SubscriptionRetained", "SubscriptionRemoved", "SubscriptionBuilt"}
Closing == {"SubscriptionsReconciled", "QueueDrainFinished"}
Announcements ==
    {OfKey(name, x) : name \in AboutSubscriptions, x \in Sources}
      \cup {Event(name) : name \in Closing}

LEMMA AnnouncedInTurn ==
    ASSUME NEW name \in AboutSubscriptions, NEW S \in SUBSET Sources, NEW o \in Seq(S)
    PROVE  InTurn(name, o) \in Seq(Announcements)
  <1>1. \A i \in 1..Len(o) : OfKey(name, o[i]) \in Announcements
    <2>1. \A i \in 1..Len(o) : o[i] \in Sources
      OBVIOUS
    <2>2. QED
      BY <2>1 DEF Announcements
  <1>2. InTurn(name, o) \in [1..Len(o) -> Announcements]
    BY <1>1 DEF InTurn
  <1>3. Len(o) \in Nat
    OBVIOUS
  <1>4. QED
    BY <1>2, <1>3, SeqDef

LEMMA ToldReconciliation ==
    ASSUME NEW K, NEW n \in Int, NEW d \in Int, NEW u \in Int,
           subscribed \subseteq Sources, NEW wanted \in SUBSET Sources,
           NEW r, Knows(r, K, n, subscribed, d, u, Cardinality(subscribed))
    PROVE  /\ Knows(Told(r, Reconciliation(wanted)), K, n, wanted, d, u, Cardinality(wanted))
           /\ Reconciliation(wanted) \in Seq(Announcements)
  <1> DEFINE stays == subscribed \cap wanted
             goes == subscribed \ wanted
             comes == wanted \ subscribed
             a == InTurn("SubscriptionRetained", SetToSeq(stays))
             b == InTurn("SubscriptionRemoved", SetToSeq(goes))
             c == InTurn("SubscriptionBuilt", SetToSeq(comes))
             e == Event("SubscriptionsReconciled")
             end == <<e>>
  <1>1. /\ stays \in SUBSET Sources /\ goes \in SUBSET Sources /\ comes \in SUBSET Sources
        /\ IsFiniteSet(stays) /\ IsFiniteSet(goes) /\ IsFiniteSet(comes)
        /\ IsFiniteSet(subscribed)
    BY TelemetryAssumption, FS_Subset
  <1>2. /\ SetToSeq(stays) \in Seq(stays) /\ SetToSeq(goes) \in Seq(goes)
        /\ SetToSeq(comes) \in Seq(comes)
        /\ Entries(SetToSeq(goes)) = goes /\ Entries(SetToSeq(comes)) = comes
        /\ Distinct(SetToSeq(goes)) /\ Distinct(SetToSeq(comes))
    BY <1>1, Ordered
  <1>3. /\ a \in Seq(Announcements) /\ b \in Seq(Announcements) /\ c \in Seq(Announcements)
        /\ end \in Seq(Announcements)
    <2>0. AboutSubscriptions
            = {"SubscriptionRetained", "SubscriptionRemoved", "SubscriptionBuilt"}
      BY DEF AboutSubscriptions
    <2>1. a \in Seq(Announcements)
      <3> HIDE DEF stays
      <3>1. QED
        BY <1>1, <1>2, <2>0, AnnouncedInTurn
    <2>2. b \in Seq(Announcements)
      <3> HIDE DEF goes
      <3>1. QED
        BY <1>1, <1>2, <2>0, AnnouncedInTurn
    <2>3. c \in Seq(Announcements)
      <3> HIDE DEF comes
      <3>1. QED
        BY <1>1, <1>2, <2>0, AnnouncedInTurn
    <2>4. e \in Announcements
      BY DEF Announcements, Closing
    <2> HIDE DEF a, b, c, e
    <2>5. QED
      BY <2>1, <2>2, <2>3, <2>4
  <1>4. Knows(Told(r, a), K, n, subscribed, d, u, Cardinality(subscribed))
    <2> HIDE DEF stays
    <2>1. Cardinality(subscribed) \in Int
      BY <1>1, FS_CardinalityType
    <2>2. QED
      BY <1>2, <2>1, RetainedInTurn
  <1>5. Knows(Told(Told(r, a), b), K, n, stays, d, u, Cardinality(stays))
    <2>1. SetToSeq(goes) \in Seq(subscribed)
      <3>1. goes \subseteq subscribed
        OBVIOUS
      <3> HIDE DEF goes
      <3>2. QED
        BY <1>2, <3>1
    <2>2. subscribed \ goes = stays
      OBVIOUS
    <2> HIDE DEF goes, stays
    <2> DEFINE q == Told(r, a)
    <2> HIDE DEF q, a
    <2>3. Knows(q, K, n, subscribed, d, u, Cardinality(subscribed))
      BY <1>4 DEF q
    <2>4. Knows(Told(q, b), K, n, subscribed \ goes, d, u, Cardinality(subscribed \ goes))
      BY <1>1, <1>2, <2>1, <2>3, RemovedInTurn
    <2>5. QED
      BY <2>2, <2>4 DEF q
  <1>6. Knows(Told(Told(Told(r, a), b), c), K, n, wanted, d, u, Cardinality(wanted))
    <2>1. stays \cup comes = wanted /\ comes \cap stays = {}
      OBVIOUS
    <2> HIDE DEF comes, stays
    <2> DEFINE q == Told(Told(r, a), b)
    <2> HIDE DEF q, a, b
    <2>2. Knows(q, K, n, stays, d, u, Cardinality(stays))
      BY <1>5 DEF q
    <2>3. Knows(Told(q, c), K, n, stays \cup comes, d, u, Cardinality(stays \cup comes))
      BY <1>1, <1>2, <2>1, <2>2, BuiltInTurn
    <2>4. QED
      BY <2>1, <2>3 DEF q
  <1>7. Knows(Told(Told(Told(Told(r, a), b), c), end), K, n, wanted, d, u, Cardinality(wanted))
    <2> DEFINE q == Told(Told(Told(r, a), b), c)
    <2> HIDE DEF q
    <2>1. Knows(q, K, n, wanted, d, u, Cardinality(wanted))
      BY <1>6 DEF q
    <2>2. Cardinality(wanted) \in Int
      BY TelemetryAssumption, FS_Subset, FS_CardinalityType
    <2>3. e.name \in Unheeded /\ e.emitted \in BOOLEAN /\ e.action = "none"
      BY EventFields DEF Unheeded
    <2> HIDE DEF e
    <2>4. Knows(Tell(q, e), K, n, wanted, d, u, Cardinality(wanted))
      BY <2>1, <2>2, <2>3, TellUnheeded
    <2>5. Told(q, <<e>>) = Tell(q, e)
      BY ToldOne
    <2>6. QED
      BY <2>4, <2>5 DEF q
  <1>8. Reconciliation(wanted) = a \o b \o c \o end
    BY DEF Reconciliation
  <1> HIDE DEF a, b, c, end
  <1>9. Told(r, a \o b \o c \o end) = Told(Told(Told(Told(r, a), b), c), end)
    <2> DEFINE ab == a \o b
               abc == ab \o c
    <2>1. ab \in Seq(Announcements) /\ abc \in Seq(Announcements)
      BY <1>3
    <2>2. Told(r, ab) = Told(Told(r, a), b)
      BY <1>3, ToldConcat
    <2> HIDE DEF ab
    <2>3. Told(r, abc) = Told(Told(r, ab), c)
      BY <1>3, <2>1, ToldConcat
    <2> HIDE DEF abc
    <2>4. Told(r, abc \o end) = Told(Told(r, abc), end)
      BY <1>3, <2>1, ToldConcat
    <2>5. QED
      BY <2>2, <2>3, <2>4 DEF ab, abc
  <1>10. a \o b \o c \o end \in Seq(Announcements)
    BY <1>3
  <1>11. QED
    BY <1>7, <1>8, <1>9, <1>10

-----------------------------------------------------------------------------
(* Dispatchers' reports.                                                   *)

\* What a dispatcher may have yet to emit.
Reports ==
    LET accepted == Event("DispatchAccepted")
        displaced == Overflow("DroppedOldest")
        warning == Event("QueueWarning")
    IN  {<<>>, <<warning>>, <<accepted>>, <<accepted, warning>>,
         <<displaced, accepted>>, <<displaced, accepted, warning>>,
         <<Event("DispatchRejected")>>, <<Overflow("RejectedNew")>>, <<Overflow("DroppedNewest")>>}

LEMMA UntoldOfEvents ==
    ASSUME NEW a, a.name = "DispatchAccepted", a.action # "DroppedOldest",
           NEW d, d.name # "DispatchAccepted", d.action = "DroppedOldest",
           NEW w, w.name # "DispatchAccepted", w.action # "DroppedOldest"
    PROVE  /\ Untold(<<>>) = 0 /\ Untold(<<w>>) = 0
           /\ Untold(<<a>>) = 1 /\ Untold(<<a, w>>) = 1
           /\ Untold(<<d, a>>) = 0 /\ Untold(<<d, a, w>>) = 0
  <1> DEFINE untold(S) == One(\E e \in S : e.name = "DispatchAccepted")
                            - One(\E e \in S : e.action = "DroppedOldest")
  <1>1. /\ ToSet(<<>>) = {} /\ ToSet(<<w>>) = {w}
        /\ ToSet(<<a>>) = {a} /\ ToSet(<<a, w>>) = {a, w}
        /\ ToSet(<<d, a>>) = {d, a} /\ ToSet(<<d, a, w>>) = {d, a, w}
    BY DEF ToSet
  <1>2. \A s : Untold(s) = untold(ToSet(s))
    BY DEF Untold
  <1>3. untold({}) = 0
    BY DEF One
  <1>4. untold({w}) = 0
    BY DEF One
  <1>5. untold({a}) = 1
    BY DEF One
  <1>6. untold({a, w}) = 1
    BY DEF One
  <1>7. untold({d, a}) = 0
    BY DEF One
  <1>8. untold({d, a, w}) = 0
    BY DEF One
  <1> HIDE DEF untold
  <1>9. QED
    BY <1>1, <1>2, <1>3, <1>4, <1>5, <1>6, <1>7, <1>8

\* Events of a report that change no depth.
Trivial ==
    {Event("QueueWarning"), Event("DispatchRejected"), Overflow("RejectedNew"),
     Overflow("DroppedNewest")}

LEMMA ReportsShrink ==
    ASSUME NEW s \in Reports
    PROVE  /\ Untold(s) \in Int
           /\ s # <<>> =>
                /\ Tail(s) \in Reports
                /\ \/ /\ Head(s) = Event("DispatchAccepted")
                      /\ Untold(Tail(s)) = Untold(s) - 1
                   \/ /\ Head(s) = Overflow("DroppedOldest")
                      /\ Untold(Tail(s)) = Untold(s) + 1
                   \/ /\ Head(s) \in Trivial
                      /\ Untold(Tail(s)) = Untold(s)
  <1> DEFINE a == Event("DispatchAccepted")
             d == Overflow("DroppedOldest")
             w == Event("QueueWarning")
             j == Event("DispatchRejected")
             m == Overflow("RejectedNew")
             n == Overflow("DroppedNewest")
  <1>1. /\ a.name = "DispatchAccepted" /\ a.action # "DroppedOldest"
        /\ d.name # "DispatchAccepted" /\ d.action = "DroppedOldest"
    BY EventFields
  <1>2. /\ w.name # "DispatchAccepted" /\ w.action # "DroppedOldest"
        /\ j.name # "DispatchAccepted" /\ j.action # "DroppedOldest"
        /\ m.name # "DispatchAccepted" /\ m.action # "DroppedOldest"
        /\ n.name # "DispatchAccepted" /\ n.action # "DroppedOldest"
    BY EventFields
  <1>3. Reports = {<<>>, <<w>>, <<a>>, <<a, w>>, <<d, a>>, <<d, a, w>>, <<j>>, <<m>>, <<n>>}
    BY DEF Reports
  <1>4. Trivial = {w, j, m, n}
    BY DEF Trivial
  <1> HIDE DEF a, d, w, j, m, n
  <1>5. /\ Untold(<<>>) = 0 /\ Untold(<<w>>) = 0
        /\ Untold(<<a>>) = 1 /\ Untold(<<a, w>>) = 1
        /\ Untold(<<d, a>>) = 0 /\ Untold(<<d, a, w>>) = 0
    BY <1>1, <1>2, UntoldOfEvents
  <1>6. Untold(<<j>>) = 0 /\ Untold(<<m>>) = 0 /\ Untold(<<n>>) = 0
    BY <1>1, <1>2, UntoldOfEvents
  <1>7. Untold(s) \in Int
    BY <1>3, <1>5, <1>6
  <1>8. ASSUME s # <<>>
        PROVE  /\ Tail(s) \in Reports
               /\ \/ Head(s) = a /\ Untold(Tail(s)) = Untold(s) - 1
                  \/ Head(s) = d /\ Untold(Tail(s)) = Untold(s) + 1
                  \/ Head(s) \in Trivial /\ Untold(Tail(s)) = Untold(s)
    <2>1. CASE s = <<w>> \/ s = <<j>> \/ s = <<m>> \/ s = <<n>>
      <3>1. PICK v \in {w, j, m, n} : s = <<v>>
        BY <2>1
      <3>2. Tail(s) = <<>> /\ Head(s) = v
        BY <3>1
      <3>3. QED
        BY <2>1, <3>1, <3>2, <1>3, <1>4, <1>5, <1>6
    <2>2. CASE s = <<a>>
      <3>1. Tail(s) = <<>> /\ Head(s) = a
        BY <2>2
      <3>2. QED
        BY <2>2, <3>1, <1>3, <1>5
    <2>3. CASE s = <<a, w>>
      <3>1. Tail(s) = <<w>> /\ Head(s) = a
        BY <2>3
      <3>2. QED
        BY <2>3, <3>1, <1>3, <1>5
    <2>4. CASE s = <<d, a>>
      <3>1. Tail(s) = <<a>> /\ Head(s) = d
        BY <2>4
      <3>2. QED
        BY <2>4, <3>1, <1>3, <1>5
    <2>5. CASE s = <<d, a, w>>
      <3>1. Tail(s) = <<a, w>> /\ Head(s) = d
        BY <2>5
      <3>2. QED
        BY <2>5, <3>1, <1>3, <1>5
    <2>6. QED
      BY <1>3, <1>8, <2>1, <2>2, <2>3, <2>4, <2>5
  <1>9. QED
    BY <1>7, <1>8 DEF a, d

\* Two events are one and the other.
LEMMA PairOfEvents ==
    ASSUME NEW e, NEW f
    PROVE  <<e>> \o <<f>> = <<e, f>>
  <1>1. \A M : \A s \in Seq(M), x \in M : s \o <<x>> = Append(s, x)
    OBVIOUS
  <1>2. <<e>> \in Seq({e, f}) /\ f \in {e, f} /\ <<e, f>> = Append(<<e>>, f)
    OBVIOUS
  <1>3. <<e>> \o <<f>> = Append(<<e>>, f)
    BY <1>1, <1>2
  <1>4. QED
    BY <1>2, <1>3

\* What an offer leaves to be reported.
LEMMA OfferReports ==
    ASSUME NEW x
    PROVE  LET accepted == <<Event("DispatchAccepted")>>
               displaced == <<Overflow("DroppedOldest")>> \o accepted \o Warning(x)
               queued == accepted \o Warning(x)
           IN  /\ displaced \in Reports /\ Untold(displaced) = 0
               /\ queued \in Reports /\ Untold(queued) = 1
               /\ \A e \in Trivial : <<e>> \in Reports /\ Untold(<<e>>) = 0
  <1> DEFINE a == Event("DispatchAccepted")
             d == Overflow("DroppedOldest")
             w == Event("QueueWarning")
  <1>1. /\ a.name = "DispatchAccepted" /\ a.action # "DroppedOldest"
        /\ d.name # "DispatchAccepted" /\ d.action = "DroppedOldest"
        /\ w.name # "DispatchAccepted" /\ w.action # "DroppedOldest"
    BY EventFields
  <1>2. {<<a>>, <<a, w>>, <<d, a>>, <<d, a, w>>} \subseteq Reports
    BY DEF Reports
  <1>3. Warning(x) = <<>> \/ Warning(x) = <<w>>
    BY DEF Warning
  <1>4. ASSUME NEW e \in Trivial
        PROVE  /\ <<e>> \in Reports
               /\ e.name # "DispatchAccepted" /\ e.action # "DroppedOldest"
    BY EventFields DEF Trivial, Reports
  <1> HIDE DEF a, d, w
  <1>5. /\ Untold(<<a>>) = 1 /\ Untold(<<a, w>>) = 1
        /\ Untold(<<d, a>>) = 0 /\ Untold(<<d, a, w>>) = 0
    BY <1>1, UntoldOfEvents
  <1>6. \A e \in Trivial : Untold(<<e>>) = 0
    BY <1>1, <1>4, UntoldOfEvents
  <1>7. /\ <<a>> \o Warning(x) = <<a>> \/ <<a>> \o Warning(x) = <<a, w>>
        /\ \/ <<d>> \o <<a>> \o Warning(x) = <<d, a>>
           \/ <<d>> \o <<a>> \o Warning(x) = <<d, a, w>>
    <2>1. <<a>> \o <<>> = <<a>>
      OBVIOUS
    <2>2. <<a>> \o <<w>> = <<a, w>>
      BY PairOfEvents
    <2>3. <<d>> \o <<a>> = <<d, a>>
      BY PairOfEvents
    <2>4. <<d, a>> \o <<>> = <<d, a>>
      OBVIOUS
    <2>5. <<d, a>> \o <<w>> = <<d, a, w>>
      <3>1. \A M : \A s \in Seq(M), e \in M : s \o <<e>> = Append(s, e)
        OBVIOUS
      <3>2. <<d, a>> \in Seq({a, d, w}) /\ w \in {a, d, w} /\ <<d, a, w>> = Append(<<d, a>>, w)
        OBVIOUS
      <3>3. <<d, a>> \o <<w>> = Append(<<d, a>>, w)
        BY <3>1, <3>2
      <3>4. QED
        BY <3>2, <3>3
    <2>6. QED
      BY <1>3, <2>1, <2>2, <2>3, <2>4, <2>5
  <1>8. /\ <<a>> \o Warning(x) \in Reports /\ Untold(<<a>> \o Warning(x)) = 1
        /\ <<d>> \o <<a>> \o Warning(x) \in Reports /\ Untold(<<d>> \o <<a>> \o Warning(x)) = 0
    BY <1>2, <1>5, <1>7
  <1>9. QED
    BY <1>4, <1>6, <1>8 DEF a, d


\* One dispatcher's report makes the difference it makes.
LEMMA UnreportedMoves ==
    ASSUME sending \in [Threads -> Reports], NEW t \in Threads, NEW s \in Reports,
           sending' = [sending EXCEPT ![t] = s]
    PROVE  /\ sending' \in [Threads -> Reports]
           /\ Unreported \in Int /\ Unreported' \in Int
           /\ Unreported' = Unreported + (Untold(s) - Untold(sending[t]))
  <1> DEFINE f == [x \in Threads |-> Untold(sending[x])]
             e == [x \in Threads |-> Untold(sending'[x])]
  <1>1. \A x \in Threads : f[x] \in Int /\ e[x] \in Int
    BY ReportsShrink
  <1>2. \A x \in Threads : x # t => e[x] = f[x]
    OBVIOUS
  <1>3. e[t] = Untold(s) /\ f[t] = Untold(sending[t])
    OBVIOUS
  <1>4. Unreported = Total(f, Threads) /\ Unreported' = Total(e, Threads)
    BY DEF Unreported
  <1>5. IsFiniteSet(Threads) /\ Threads \in SUBSET Threads
    BY TelemetryAssumption
  <1> HIDE DEF f, e
  <1>6. Total(e, Threads) = Total(f, Threads) + (e[t] - f[t])
    BY <1>1, <1>2, <1>5, TotalMoves
  <1>7. Total(f, Threads) \in Int /\ Total(e, Threads) \in Int
    BY <1>1, <1>5, TotalType
  <1>8. QED
    BY <1>3, <1>4, <1>6, <1>7

LEMMA UnreportedType ==
    ASSUME sending \in [Threads -> Reports]
    PROVE  Unreported \in Int
  <1> DEFINE f == [x \in Threads |-> Untold(sending[x])]
  <1>1. \A x \in Threads : f[x] \in Int
    BY ReportsShrink
  <1>2. IsFiniteSet(Threads) /\ Threads \in SUBSET Threads
    BY TelemetryAssumption
  <1>3. Unreported = Total(f, Threads)
    BY DEF Unreported
  <1> HIDE DEF f
  <1>4. QED
    BY <1>1, <1>2, <1>3, TotalType

-----------------------------------------------------------------------------
(* The invariant.                                                          *)

Active == {k \in Keys : tasks[k] # NoTask}

ProgramTypes ==
    /\ EffectTypeOK
    /\ status \in {"mounting", "mounted", "unmounted"}
    /\ turn \in {"init", "idle", "drain", "command"}
    /\ updated \in BOOLEAN
    /\ externals \in 0..MaxDepth /\ internals \in 0..MaxDepth
    /\ subscribed \subseteq Sources
    /\ sending \in [Threads -> Reports]

\* Nothing runs, and nothing is executed, after the unmount.
Ended == status = "unmounted" => turn = "idle" /\ running = {}

\* The registries hold finitely many entries, and no effect has the next id.
Finitely ==
    /\ \A id \in effects : id <= nextEffectId
    /\ IsFiniteSet(effects)
    /\ IsFiniteSet(Active)

\* The readers keep records of the fields they have.
IsView(view) ==
    view = [keys |-> view.keys, effects |-> view.effects,
            sources |-> view.sources, depth |-> view.depth]

Shaped(readers) ==
    /\ IsView(readers.known) /\ IsView(readers.log)
    /\ readers.meters = [running |-> readers.meters.running,
                         subscribed |-> readers.meters.subscribed]

\* Both views are of what the registries hold, and agree on the depth.
Informed ==
    /\ Shaped(Readers)
    /\ known.depth \in Int
    /\ meters.running \in Nat /\ meters.subscribed \in Nat
    /\ Knows(Readers, Active, Cardinality(effects), subscribed,
             known.depth, meters.running, meters.subscribed)

\* What they count is right as long as the program is mounted.
Balanced ==
    status # "unmounted" =>
        /\ known.depth + Unreported = depth
        /\ meters.running = Cardinality(Active) + Cardinality(effects)
        /\ meters.subscribed = Cardinality(subscribed)

TelemetryInvariant ==
    /\ ProgramTypes /\ Ended /\ Finitely /\ Informed /\ Balanced
    /\ EntriesHaveFutures

-----------------------------------------------------------------------------
(* What the readers make of an observation.                                *)

LEMMA TellShapes ==
    ASSUME NEW r, Shaped(r), NEW e
    PROVE  Shaped(Tell(r, e))
  <1>1. IsView(Watch(r.known, e))
    <2>1. IsView(Nothing)
      BY DEF IsView, Nothing
    <2>2. \A k, n, s, d : IsView([keys |-> k, effects |-> n, sources |-> s, depth |-> d])
      BY DEF IsView
    <2>3. QED
      BY <2>1, <2>2, Zenon DEF Watch, Shaped
  <1>2. IsView(Read(r.log, TracingRecord(e)))
    <2>1. IsView(Nothing)
      BY DEF IsView, Nothing
    <2>2. \A k, n, s, d : IsView([keys |-> k, effects |-> n, sources |-> s, depth |-> d])
      BY DEF IsView
    <2>3. QED
      BY <2>1, <2>2, Zenon DEF Read
  <1> DEFINE m == Tally(r.meters, Increment(e))
  <1>3. m = [running |-> m.running, subscribed |-> m.subscribed]
    BY DEF Tally
  <1> HIDE DEF m
  <1>4. QED
    BY <1>1, <1>2, <1>3 DEF Tell, Shaped, m

LEMMA ToldShapes ==
    ASSUME NEW r, Shaped(r), NEW M
    PROVE  \A s \in Seq(M) : Shaped(Told(r, s))
  <1> DEFINE T == {s \in Seq(M) : Shaped(Told(r, s))}
  <1>1. <<>> \in T
    <2>1. <<>> \in Seq(M)
      OBVIOUS
    <2>2. QED
      BY <2>1, ToldNothing
  <1>2. ASSUME NEW s \in Seq(M), NEW e \in M, s \in T PROVE Append(s, e) \in T
    <2>1. Told(r, Append(s, e)) = Tell(Told(r, s), e) /\ Append(s, e) \in Seq(M)
      BY ToldAppend
    <2>2. Shaped(Told(r, s))
      BY <1>2
    <2>3. QED
      BY <2>1, <2>2, TellShapes
  <1> HIDE DEF T
  <1>3. Seq(M) \subseteq T
    BY <1>1, <1>2, AllSequences
  <1>4. QED
    BY <1>3 DEF T

\* The readers know what the events told.
LEMMA ObserveTells ==
    ASSUME NEW M, NEW events \in Seq(M), Observe(events), Shaped(Readers),
           NEW K, NEW n, NEW s, NEW d, NEW u, NEW b,
           Knows(Told(Readers, events), K, n, s, d, u, b)
    PROVE  /\ Shaped(Readers')
           /\ Knows(Readers', K, n, s, d, u, b)
           /\ known'.depth = d /\ meters'.running = u /\ meters'.subscribed = b
  <1> DEFINE told == Told(Readers, events)
  <1>1. Shaped(told)
    BY ToldShapes
  <1>2. known' = told.known /\ log' = told.log /\ meters' = told.meters
    BY DEF Observe
  <1> HIDE DEF told
  <1>3. Knows(told, K, n, s, d, u, b)
    BY DEF told
  <1>4. Readers' = [known |-> told.known, log |-> told.log, meters |-> told.meters]
    BY <1>2 DEF Readers
  <1>5. /\ Readers'.known = told.known /\ Readers'.log = told.log
        /\ Readers'.meters = told.meters
    BY <1>4
  <1>6. QED
    BY <1>1, <1>2, <1>3, <1>5 DEF Shaped, Knows, Sees


LEMMA Informs ==
    ASSUME Informed, NEW M, NEW events \in Seq(M), Observe(events),
           NEW d \in Int, NEW u \in Nat, NEW b \in Nat,
           Knows(Told(Readers, events), Active', Cardinality(effects'), subscribed', d, u, b)
    PROVE  /\ Informed'
           /\ known'.depth = d /\ meters'.running = u /\ meters'.subscribed = b
  <1>1. /\ Shaped(Readers')
        /\ Knows(Readers', Active', Cardinality(effects'), subscribed', d, u, b)
        /\ known'.depth = d /\ meters'.running = u /\ meters'.subscribed = b
    BY ObserveTells DEF Informed
  <1>2. QED
    BY <1>1 DEF Informed

\* A warning tells nothing, whatever comes before it.
LEMMA ToldWarned ==
    ASSUME NEW K, NEW n \in Int, NEW s, NEW d \in Int, NEW u \in Int, NEW b \in Int,
           NEW M, NEW before \in Seq(M), NEW r, Knows(Told(r, before), K, n, s, d, u, b),
           NEW x
    PROVE  /\ Knows(Told(r, before \o Warning(x)), K, n, s, d, u, b)
           /\ before \o Warning(x) \in Seq(M \cup {Event("QueueWarning")})
  <1> DEFINE w == Event("QueueWarning")
             N == M \cup {w}
  <1>1. w.name \in Unheeded /\ w.emitted \in BOOLEAN /\ w.action = "none"
    BY EventFields DEF Unheeded
  <1>2. CASE x > Threshold
    <2>1. Warning(x) = <<w>>
      BY <1>2 DEF Warning
    <2> DEFINE q == Told(r, before)
    <2> HIDE DEF w
    <2>2. before \in Seq(N) /\ <<w>> \in Seq(N)
      OBVIOUS
    <2>3. before \o <<w>> \in Seq(N)
      BY <2>2
    <2>4. \A P : \A p \in Seq(P), t \in Seq(P) : Told(r, p \o t) = Told(Told(r, p), t)
      BY ToldConcat
    <2>5. Told(r, before \o <<w>>) = Told(q, <<w>>)
      BY <2>2, <2>4
    <2> HIDE DEF q
    <2>6. Knows(q, K, n, s, d, u, b)
      BY DEF q
    <2>7. Knows(Tell(q, w), K, n, s, d, u, b)
      BY <1>1, <2>6, TellUnheeded
    <2>8. QED
      BY <2>1, <2>3, <2>5, <2>7, ToldOne DEF w
  <1>3. CASE ~(x > Threshold)
    <2>1. Warning(x) = <<>>
      BY <1>3 DEF Warning
    <2>2. before \o <<>> = before /\ before \in Seq(N)
      OBVIOUS
    <2>3. QED
      BY <2>1, <2>2
  <1>4. QED
    BY <1>2, <1>3

-----------------------------------------------------------------------------
(* What the steps of the registries change.                                *)

LEMMA StartEffectCounts ==
    ASSUME EffectTypeOK, Finitely, StartEffect
    PROVE  /\ Finitely' /\ Active' = Active
           /\ Cardinality(effects') = Cardinality(effects) + 1
  <1>1. /\ nextEffectId' = nextEffectId + 1 /\ nextEffectId \in Nat /\ effects \subseteq Nat
        /\ effects' = effects \cup {nextEffectId + 1}
    BY DEF StartEffect, EffectTypeOK
  <1>2. nextEffectId + 1 \notin effects
    BY <1>1 DEF Finitely
  <1>3. Cardinality(effects') = Cardinality(effects) + 1 /\ IsFiniteSet(effects')
    BY <1>1, <1>2, FS_AddElement DEF Finitely
  <1>4. Active' = Active
    BY DEF Active, StartEffect
  <1>5. \A id \in effects' : id <= nextEffectId'
    BY <1>1 DEF Finitely
  <1>6. QED
    BY <1>3, <1>4, <1>5 DEF Finitely

LEMMA StartKeyedCounts ==
    ASSUME EffectTypeOK, Finitely, NEW k \in Keys, StartKeyed(k)
    PROVE  /\ Finitely' /\ Active' = Active \cup {k}
           /\ effects' = effects
  <1>1. Active' = Active \cup {k}
    BY DEF Active, StartKeyed, EffectTypeOK, NoTask
  <1>2. IsFiniteSet(Active \cup {k})
    BY FS_AddElement DEF Finitely
  <1>3. effects' = effects /\ nextEffectId' = nextEffectId
    BY DEF StartKeyed
  <1>4. QED
    BY <1>1, <1>2, <1>3 DEF Finitely

LEMMA CancelKeyedCounts ==
    ASSUME EffectTypeOK, Finitely, NEW k \in Keys, CancelKeyed(k)
    PROVE  /\ Finitely' /\ Active' = Active \ {k}
           /\ effects' = effects
  <1>1. Active' = Active \ {k}
    BY DEF Active, CancelKeyed, EffectTypeOK, NoTask
  <1>2. IsFiniteSet(Active \ {k})
    BY FS_Subset DEF Finitely
  <1>3. effects' = effects /\ nextEffectId' = nextEffectId
    BY DEF CancelKeyed
  <1>4. QED
    BY <1>1, <1>2, <1>3 DEF Finitely

LEMMA CompleteCurrentCounts ==
    ASSUME EffectTypeOK, Finitely, NEW r \in running, CompleteCurrent(r)
    PROVE  /\ Finitely' /\ r.key \in Active /\ Active' = Active \ {r.key}
           /\ effects' = effects
  <1>1. r.key \in Keys /\ tasks[r.key] # NoTask
    BY ContextFacts DEF CompleteCurrent, IsCurrent
  <1>2. Active' = Active \ {r.key}
    BY <1>1 DEF Active, CompleteCurrent, EffectTypeOK, NoTask
  <1>3. IsFiniteSet(Active \ {r.key})
    BY FS_Subset DEF Finitely
  <1>4. effects' = effects /\ nextEffectId' = nextEffectId
    BY DEF CompleteCurrent
  <1>5. r.key \in Active
    BY <1>1 DEF Active
  <1>6. QED
    BY <1>2, <1>3, <1>4, <1>5 DEF Finitely

LEMMA CompleteEffectCounts ==
    ASSUME EffectTypeOK, Finitely, EntriesHaveFutures, NEW r \in running, CompleteEffect(r)
    PROVE  /\ Finitely' /\ Active' = Active
           /\ Cardinality(effects) \in Nat \ {0}
           /\ Cardinality(effects') = Cardinality(effects) - 1
  <1>1. effects' = effects \ {r.id} /\ nextEffectId' = nextEffectId /\ r.context = "NonKeyed"
    BY DEF CompleteEffect
  <1>2. r.id \in effects
    BY <1>1 DEF EntriesHaveFutures
  <1>3. Cardinality(effects') = Cardinality(effects) - 1 /\ IsFiniteSet(effects')
    BY <1>1, <1>2, FS_RemoveElement DEF Finitely
  <1>4. Cardinality(effects) \in Nat /\ Cardinality(effects) # 0
    BY <1>2, FS_CardinalityType, FS_EmptySet DEF Finitely
  <1>5. Active' = Active
    BY DEF Active, CompleteEffect
  <1>6. \A id \in effects' : id <= nextEffectId'
    BY <1>1 DEF Finitely
  <1>7. QED
    BY <1>3, <1>4, <1>5, <1>6 DEF Finitely

LEMMA DropTasksCounts ==
    ASSUME EffectTypeOK, DropTasks
    PROVE  /\ EffectTypeOK' /\ EntriesHaveFutures'
           /\ Finitely' /\ Active' = {} /\ effects' = {}
  <1>1. Active' = {}
    BY DEF Active, DropTasks, NoTask
  <1>2. effects' = {} /\ running' = {} /\ tasks' = [k \in Keys |-> NoTask]
    BY DEF DropTasks
  <1>3. EffectTypeOK'
    BY DEF DropTasks, EffectTypeOK, NoTask
  <1>4. EntriesHaveFutures'
    BY <1>2 DEF EntriesHaveFutures
  <1>5. IsFiniteSet({})
    BY FS_EmptySet
  <1>6. QED
    BY <1>1, <1>2, <1>3, <1>4, <1>5 DEF Finitely

LEMMA CountsAreNatural ==
    ASSUME Finitely, ProgramTypes
    PROVE  /\ Cardinality(Active) \in Nat /\ Cardinality(effects) \in Nat
           /\ IsFiniteSet(subscribed) /\ Cardinality(subscribed) \in Nat
           /\ depth \in Nat /\ Unreported \in Int
  <1>1. Cardinality(Active) \in Nat /\ Cardinality(effects) \in Nat
    BY FS_CardinalityType DEF Finitely
  <1>2. IsFiniteSet(subscribed) /\ Cardinality(subscribed) \in Nat
    BY TelemetryAssumption, FS_Subset, FS_CardinalityType DEF ProgramTypes
  <1>3. depth \in Nat
    BY TelemetryAssumption DEF depth, ProgramTypes
  <1>4. Unreported \in Int
    BY UnreportedType DEF ProgramTypes
  <1>5. QED
    BY <1>1, <1>2, <1>3, <1>4


LEMMA InformsOfOne ==
    ASSUME Informed, NEW e, Observe(<<e>>),
           NEW d \in Int, NEW u \in Nat, NEW b \in Nat,
           Knows(Tell(Readers, e), Active', Cardinality(effects'), subscribed', d, u, b)
    PROVE  /\ Informed'
           /\ known'.depth = d /\ meters'.running = u /\ meters'.subscribed = b
  <1>1. <<e>> \in Seq({e})
    OBVIOUS
  <1>2. Told(Readers, <<e>>) = Tell(Readers, e)
    BY ToldOne
  <1>3. QED
    BY <1>1, <1>2, Informs

LEMMA InformsOfTwo ==
    ASSUME Informed, NEW e, NEW f, Observe(<<e, f>>),
           NEW d \in Int, NEW u \in Nat, NEW b \in Nat,
           Knows(Tell(Tell(Readers, e), f),
                 Active', Cardinality(effects'), subscribed', d, u, b)
    PROVE  /\ Informed'
           /\ known'.depth = d /\ meters'.running = u /\ meters'.subscribed = b
  <1>1. <<e, f>> \in Seq({e, f})
    OBVIOUS
  <1>2. Told(Readers, <<e, f>>) = Tell(Tell(Readers, e), f)
    BY ToldTwo
  <1>3. QED
    BY <1>1, <1>2, Informs

LEMMA SilentInforms ==
    ASSUME Informed, Silent, Active' = Active, effects' = effects, subscribed' = subscribed
    PROVE  Informed'
  <1>1. Readers' = Readers /\ known' = known /\ log' = log /\ meters' = meters
    BY DEF Silent, Readers
  <1>2. QED
    BY <1>1 DEF Informed

\* What the registries keep as long as nothing concerns them.
LEMMA RegistriesKept ==
    ASSUME TelemetryInvariant, UNCHANGED effectVars
    PROVE  /\ EffectTypeOK' /\ EntriesHaveFutures' /\ Finitely'
           /\ Active' = Active /\ effects' = effects /\ running' = running
  <1>1. /\ nextGeneration' = nextGeneration /\ tasks' = tasks /\ nextEffectId' = nextEffectId
        /\ effects' = effects /\ running' = running /\ newest' = newest
        /\ delivered' = delivered
    BY DEF effectVars
  <1>2. Active' = Active
    BY <1>1 DEF Active
  <1>3. EffectTypeOK' /\ EntriesHaveFutures'
    BY <1>1 DEF TelemetryInvariant, ProgramTypes, EffectTypeOK, EntriesHaveFutures
  <1>4. Finitely'
    BY <1>1, <1>2 DEF TelemetryInvariant, Finitely
  <1>5. QED
    BY <1>1, <1>2, <1>3, <1>4

-----------------------------------------------------------------------------
(* Dispatchers.                                                            *)

LEMMA UntoldNothing == Untold(<<>>) = 0
  <1>1. ToSet(<<>>) = {}
    BY DEF ToSet
  <1>2. QED
    BY <1>1 DEF Untold, One

\* The depth that a dispatch changes is the one that is yet to be reported.
LEMMA OfferCounts ==
    ASSUME TelemetryInvariant, NEW t \in Threads, Offer(t)
    PROVE  /\ sending' \in [Threads -> Reports]
           /\ externals' \in 0..MaxDepth /\ Unreported' \in Int
           /\ status # "unmounted" => Unreported' - Unreported = externals' - externals
  <1> DEFINE accepted == <<Event("DispatchAccepted")>>
             displaced == <<Overflow("DroppedOldest")>> \o accepted \o Warning(depth)
             queued == accepted \o Warning(depth + 1)
  <1>1. /\ Event("DispatchRejected") \in Trivial
        /\ Overflow("RejectedNew") \in Trivial /\ Overflow("DroppedNewest") \in Trivial
    BY DEF Trivial
  <1>2. \A e \in Trivial : <<e>> \in Reports /\ Untold(<<e>>) = 0
    BY OfferReports
  <1>3. displaced \in Reports /\ Untold(displaced) = 0
    BY OfferReports
  <1>4. queued \in Reports /\ Untold(queued) = 1
    BY OfferReports
  <1>5. sending \in [Threads -> Reports] /\ externals \in 0..MaxDepth
    BY DEF TelemetryInvariant, ProgramTypes
  <1>6. Untold(sending[t]) = 0
    BY UntoldNothing DEF Offer
  <1>7. ASSUME NEW s \in Reports, sending' = [sending EXCEPT ![t] = s]
        PROVE  /\ sending' \in [Threads -> Reports]
               /\ Unreported' - Unreported = Untold(s) /\ Unreported' \in Int
    <2>1. /\ sending' \in [Threads -> Reports] /\ Unreported \in Int /\ Unreported' \in Int
          /\ Unreported' = Unreported + (Untold(s) - Untold(sending[t]))
      BY <1>5, <1>7, UnreportedMoves
    <2>2. Untold(s) \in Int
      BY ReportsShrink
    <2>3. QED
      BY <2>1, <2>2, <1>6
  <1>8. \/ /\ status = "unmounted" /\ externals' = externals
           /\ sending' = [sending EXCEPT ![t] = <<Event("DispatchRejected")>>]
        \/ /\ externals' = externals
           /\ sending' = [sending EXCEPT ![t] = <<Overflow("RejectedNew")>>]
        \/ /\ externals' = externals
           /\ sending' = [sending EXCEPT ![t] = <<Overflow("DroppedNewest")>>]
        \/ /\ externals' = externals
           /\ sending' = [sending EXCEPT ![t] = displaced]
        \/ /\ externals < MaxDepth /\ externals' = externals + 1
           /\ sending' = [sending EXCEPT ![t] = queued]
    BY DEF Offer
  <1> HIDE DEF displaced, queued
  <1>9. ASSUME NEW s \in Reports, sending' = [sending EXCEPT ![t] = s],
               Untold(s) = 0, externals' = externals
        PROVE  /\ sending' \in [Threads -> Reports] /\ externals' \in 0..MaxDepth
               /\ Unreported' - Unreported = externals' - externals /\ Unreported' \in Int
    <2>1. /\ sending' \in [Threads -> Reports] /\ Unreported' - Unreported = 0
          /\ Unreported' \in Int
      BY <1>7, <1>9
    <2>2. QED
      BY <2>1, <1>5, <1>9
  <1>10. CASE /\ externals < MaxDepth /\ externals' = externals + 1
              /\ sending' = [sending EXCEPT ![t] = queued]
    <2>1. /\ sending' \in [Threads -> Reports] /\ Unreported' - Unreported = 1
          /\ Unreported' \in Int
      BY <1>4, <1>7, <1>10
    <2>2. QED
      BY <2>1, <1>5, <1>10, TelemetryAssumption
  <1>11. QED
    BY <1>1, <1>2, <1>3, <1>8, <1>9, <1>10

LEMMA OfferStep ==
    ASSUME TelemetryInvariant, NEW t \in Threads, Offer(t)
    PROVE  TelemetryInvariant'
  <1>1. /\ EffectTypeOK' /\ EntriesHaveFutures' /\ Finitely'
        /\ Active' = Active /\ effects' = effects /\ running' = running
    BY RegistriesKept DEF Offer
  <1>2. /\ sending' \in [Threads -> Reports]
        /\ externals' \in 0..MaxDepth /\ Unreported' \in Int
        /\ status # "unmounted" => Unreported' - Unreported = externals' - externals
    BY OfferCounts
  <1>3. /\ status' = status /\ turn' = turn /\ updated' = updated /\ internals' = internals
        /\ subscribed' = subscribed /\ Silent
    BY DEF Offer
  <1>4. ProgramTypes'
    BY <1>1, <1>2, <1>3 DEF TelemetryInvariant, ProgramTypes
  <1>5. Ended'
    BY <1>1, <1>3 DEF TelemetryInvariant, Ended
  <1>6. Informed'
    BY <1>1, <1>3, SilentInforms DEF TelemetryInvariant
  <1>7. Balanced'
    <2> SUFFICES ASSUME status' # "unmounted"
                 PROVE  /\ known'.depth + Unreported' = depth'
                        /\ meters'.running = Cardinality(Active') + Cardinality(effects')
                        /\ meters'.subscribed = Cardinality(subscribed')
      BY DEF Balanced
    <2>1. /\ known.depth + Unreported = depth
          /\ meters.running = Cardinality(Active) + Cardinality(effects)
          /\ meters.subscribed = Cardinality(subscribed)
      BY <1>3 DEF TelemetryInvariant, Balanced
    <2>2. known' = known /\ meters' = meters
      BY <1>3 DEF Silent
    <2>3. known.depth \in Int /\ Unreported \in Int /\ Unreported' \in Int
      BY <1>2, UnreportedType DEF TelemetryInvariant, ProgramTypes, Informed
    <2>4. /\ externals \in Int /\ internals \in Int /\ externals' \in Int
          /\ depth = externals + internals /\ depth' = externals' + internals
      BY <1>2, <1>3 DEF depth, TelemetryInvariant, ProgramTypes
    <2>5. known'.depth + Unreported' = depth'
      BY <1>2, <1>3, <2>1, <2>2, <2>3, <2>4
    <2>6. QED
      BY <1>1, <1>3, <2>1, <2>2, <2>5
  <1>8. QED
    BY <1>1, <1>4, <1>5, <1>6, <1>7 DEF TelemetryInvariant


\* What is reported is no longer unreported.
LEMMA SendInforms ==
    ASSUME TelemetryInvariant, NEW t \in Threads, Send(t)
    PROVE  /\ sending' \in [Threads -> Reports] /\ Unreported' \in Int /\ Unreported \in Int
           /\ Informed' /\ known.depth \in Int /\ known'.depth \in Int
           /\ known'.depth + Unreported' = known.depth + Unreported
           /\ meters'.running = meters.running /\ meters'.subscribed = meters.subscribed
  <1> DEFINE e == Head(sending[t])
             s == Tail(sending[t])
             d == known.depth
             n == Cardinality(effects)
             u == meters.running
             b == meters.subscribed
  <1>1. /\ sending \in [Threads -> Reports] /\ sending[t] # <<>>
        /\ sending' = [sending EXCEPT ![t] = s] /\ Observe(<<e>>)
        /\ UNCHANGED effectVars /\ subscribed' = subscribed
    BY DEF TelemetryInvariant, ProgramTypes, Send, programVars
  <1>2. /\ Untold(sending[t]) \in Int /\ s \in Reports /\ Untold(s) \in Int
        /\ \/ e = Event("DispatchAccepted") /\ Untold(s) = Untold(sending[t]) - 1
           \/ e = Overflow("DroppedOldest") /\ Untold(s) = Untold(sending[t]) + 1
           \/ e \in Trivial /\ Untold(s) = Untold(sending[t])
    BY <1>1, ReportsShrink
  <1>3. /\ sending' \in [Threads -> Reports] /\ Unreported \in Int /\ Unreported' \in Int
        /\ Unreported' = Unreported + (Untold(s) - Untold(sending[t]))
    BY <1>1, <1>2, UnreportedMoves
  <1>4. Active' = Active /\ effects' = effects
    BY <1>1, RegistriesKept
  <1>5. /\ Informed /\ d \in Int /\ n \in Int /\ u \in Nat /\ b \in Nat
        /\ Knows(Readers, Active, n, subscribed, d, u, b)
    BY CountsAreNatural DEF TelemetryInvariant, Informed
  <1> HIDE DEF e, s, d, n, u, b
  <1>6. ASSUME NEW c \in Int, Knows(Tell(Readers, e), Active, n, subscribed, c, u, b)
        PROVE  /\ Informed' /\ known'.depth = c
               /\ meters'.running = u /\ meters'.subscribed = b
    <2>1. Knows(Tell(Readers, e), Active', Cardinality(effects'), subscribed', c, u, b)
      BY <1>1, <1>4, <1>6 DEF n
    <2>2. QED
      BY <1>1, <1>5, <2>1, InformsOfOne
  <1>7. CASE e = Event("DispatchAccepted") /\ Untold(s) = Untold(sending[t]) - 1
    <2>1. e.emitted \in BOOLEAN /\ e.name = "DispatchAccepted" /\ e.action = "none"
      BY <1>7, EventFields
    <2>2. Knows(Tell(Readers, e), Active, n, subscribed, d + 1, u, b)
      BY <1>5, <2>1, TellAccepted
    <2>3. d + 1 \in Int /\ Unreported' = Unreported - 1
      BY <1>2, <1>3, <1>5, <1>7
    <2>4. /\ Informed' /\ known'.depth = d + 1
          /\ meters'.running = u /\ meters'.subscribed = b
      BY <1>6, <2>2, <2>3
    <2>5. QED
      BY <1>3, <1>5, <2>3, <2>4 DEF d, u, b
  <1>8. CASE e = Overflow("DroppedOldest") /\ Untold(s) = Untold(sending[t]) + 1
    <2>1. e.emitted \in BOOLEAN /\ e.name = "QueueOverflow" /\ e.action = "DroppedOldest"
      BY <1>8, EventFields
    <2>2. Knows(Tell(Readers, e), Active, n, subscribed, d - 1, u, b)
      BY <1>5, <2>1, TellDisplaced
    <2>3. d - 1 \in Int /\ Unreported' = Unreported + 1
      BY <1>2, <1>3, <1>5, <1>8
    <2>4. /\ Informed' /\ known'.depth = d - 1
          /\ meters'.running = u /\ meters'.subscribed = b
      BY <1>6, <2>2, <2>3
    <2>5. QED
      BY <1>3, <1>5, <2>3, <2>4 DEF d, u, b
  <1>9. CASE e \in Trivial /\ Untold(s) = Untold(sending[t])
    <2>1. e.emitted \in BOOLEAN
      BY <1>9, EventFields DEF Trivial
    <2>2. \/ e.name \in Unheeded /\ e.action = "none"
          \/ e.name = "QueueOverflow" /\ e.action # "DroppedOldest"
      BY <1>9, EventFields DEF Trivial, Unheeded
    <2>3. Knows(Tell(Readers, e), Active, n, subscribed, d, u, b)
      BY <1>5, <2>1, <2>2, TellUnheeded, TellRefused
    <2>4. Unreported' = Unreported
      BY <1>2, <1>3, <1>9
    <2>5. /\ Informed' /\ known'.depth = d
          /\ meters'.running = u /\ meters'.subscribed = b
      BY <1>5, <1>6, <2>3
    <2>6. QED
      BY <1>3, <1>5, <2>4, <2>5 DEF d, u, b
  <1>10. QED
    BY <1>2, <1>7, <1>8, <1>9

LEMMA SendStep ==
    ASSUME TelemetryInvariant, NEW t \in Threads, Send(t)
    PROVE  TelemetryInvariant'
  <1>1. /\ EffectTypeOK' /\ EntriesHaveFutures' /\ Finitely'
        /\ Active' = Active /\ effects' = effects /\ running' = running
    BY RegistriesKept DEF Send
  <1>2. /\ sending' \in [Threads -> Reports] /\ Informed'
        /\ known'.depth + Unreported' = known.depth + Unreported
        /\ meters'.running = meters.running /\ meters'.subscribed = meters.subscribed
    BY SendInforms
  <1>3. /\ status' = status /\ turn' = turn /\ updated' = updated
        /\ externals' = externals /\ internals' = internals /\ subscribed' = subscribed
    BY DEF Send, programVars
  <1>4. ProgramTypes'
    BY <1>1, <1>2, <1>3 DEF TelemetryInvariant, ProgramTypes
  <1>5. Ended'
    BY <1>1, <1>3 DEF TelemetryInvariant, Ended
  <1>6. Balanced'
    <2>1. depth' = depth
      BY <1>3 DEF depth
    <2>2. QED
      BY <1>1, <1>2, <1>3, <2>1 DEF TelemetryInvariant, Balanced
  <1>7. QED
    BY <1>1, <1>2, <1>4, <1>5, <1>6 DEF TelemetryInvariant

-----------------------------------------------------------------------------
(* Commands.                                                               *)

\* Steps of the program: what changes is what the readers are told.
LEMMA BalancedStep ==
    ASSUME TelemetryInvariant, status # "unmounted", sending' = sending,
           NEW i \in Int, depth' = depth + i, known'.depth = known.depth + i,
           NEW j \in Int, meters'.running = meters.running + j,
           Cardinality(Active') + Cardinality(effects')
             = Cardinality(Active) + Cardinality(effects) + j,
           meters'.subscribed = Cardinality(subscribed')
    PROVE  Balanced'
  <1>1. /\ known.depth + Unreported = depth
        /\ meters.running = Cardinality(Active) + Cardinality(effects)
    BY DEF TelemetryInvariant, Balanced
  <1>2. Unreported' = Unreported
    BY DEF Unreported
  <1>3. known.depth \in Int /\ Unreported \in Int /\ depth \in Int
    BY CountsAreNatural DEF TelemetryInvariant, Informed
  <1>4. known'.depth + Unreported' = depth'
    BY <1>1, <1>2, <1>3
  <1>5. QED
    BY <1>1, <1>4 DEF Balanced


\* What the readers know before a step.
LEMMA InformedFacts ==
    ASSUME TelemetryInvariant
    PROVE  /\ Informed
           /\ known.depth \in Int /\ Cardinality(effects) \in Int
           /\ meters.running \in Nat /\ meters.subscribed \in Nat
           /\ Knows(Readers, Active, Cardinality(effects), subscribed,
                    known.depth, meters.running, meters.subscribed)
           /\ status # "unmounted" =>
                /\ meters.running = Cardinality(Active) + Cardinality(effects)
                /\ meters.subscribed = Cardinality(subscribed)
           /\ Cardinality(Active) \in Nat /\ Cardinality(effects) \in Nat
           /\ Cardinality(subscribed) \in Nat /\ depth \in Nat
  BY CountsAreNatural DEF TelemetryInvariant, Informed, Balanced

LEMMA Executes ==
    ASSUME TelemetryInvariant, Executing
    PROVE  status # "unmounted"
  BY DEF TelemetryInvariant, Ended, Executing

LEMMA ExecuteEmitStep ==
    ASSUME TelemetryInvariant, ExecuteEmit
    PROVE  TelemetryInvariant'
  <1> DEFINE e == Scheduled("Emit", NoKey)
             f == Completion("EffectCompleted", "Emit", NoKey, TRUE)
             before == <<e, f>>
             w == Warning(depth + 1)
             d == known.depth
             n == Cardinality(effects)
             u == meters.running
             b == meters.subscribed
  <1>1. /\ EffectTypeOK' /\ EntriesHaveFutures' /\ Finitely'
        /\ Active' = Active /\ effects' = effects /\ running' = running
    BY RegistriesKept DEF ExecuteEmit
  <1>2. /\ status' = status /\ turn' = turn /\ updated' = updated /\ subscribed' = subscribed
        /\ externals' = externals /\ sending' = sending
        /\ internals < MaxDepth /\ internals' = internals + 1 /\ status # "unmounted"
        /\ Observe(before \o w \o <<>>)
    BY Executes DEF ExecuteEmit, EnqueueInternal
  <1>3. /\ e.name = "CommandScheduled" /\ e.kind = "Emit"
        /\ e.emitted \in BOOLEAN /\ e.action = "none"
        /\ f.name = "EffectCompleted" /\ f.kind = "Emit" /\ f.action = "none"
        /\ f.emitted \in BOOLEAN /\ One(f.emitted) = 1
    <2>1. /\ e.name = "CommandScheduled" /\ e.kind = "Emit"
          /\ e.emitted \in BOOLEAN /\ e.action = "none"
      BY EventFields DEF Scheduled
    <2>2. /\ f.name = "EffectCompleted" /\ f.kind = "Emit" /\ f.action = "none"
          /\ f.emitted \in BOOLEAN /\ One(f.emitted) = 1
      BY DEF Completion, OfKind, Event, One
    <2>3. QED
      BY <2>1, <2>2
  <1> HIDE DEF e, f
  <1>4. /\ Informed /\ d \in Int /\ n \in Int /\ u \in Nat /\ b \in Nat
        /\ Knows(Readers, Active, n, subscribed, d, u, b)
        /\ b = Cardinality(subscribed) /\ depth \in Nat
    BY <1>2, InformedFacts
  <1> HIDE DEF d, n, u, b
  <1>5. Knows(Told(Readers, before), Active, n, subscribed, d + 1, u, b)
    <2> DEFINE q == Tell(Readers, e)
    <2>1. Knows(q, Active, n, subscribed, d, u, b)
      BY <1>3, <1>4, TellEmitting
    <2> HIDE DEF q
    <2>2. Knows(Tell(q, f), Active, n, subscribed, d + One(f.emitted), u, b)
      BY <1>3, <1>4, <2>1, TellEmitted
    <2>3. QED
      BY <1>3, <2>2, ToldTwo DEF q
  <1> DEFINE M == {e, f}
             N == M \cup {Event("QueueWarning")}
             v == before \o w
  <1>6. before \in Seq(M) /\ d + 1 \in Int
    BY <1>4
  <1> HIDE DEF w, before, M
  <1>7. Knows(Told(Readers, v), Active, n, subscribed, d + 1, u, b) /\ v \in Seq(N)
    <2> DEFINE c == d + 1
    <2>1. /\ Knows(Told(Readers, before), Active, n, subscribed, c, u, b)
          /\ n \in Int /\ c \in Int /\ u \in Int /\ b \in Int
      BY <1>4, <1>5, <1>6
    <2> HIDE DEF c
    <2>2. \A x : /\ Knows(Told(Readers, before \o Warning(x)), Active, n, subscribed, c, u, b)
                 /\ before \o Warning(x) \in Seq(M \cup {Event("QueueWarning")})
      BY <1>6, <2>1, ToldWarned, Zenon
    <2>3. QED
      BY <2>2 DEF w, c
  <1>8. Observe(v)
    <2>1. \A x \in Seq(N) : x \o <<>> = x
      OBVIOUS
    <2>2. v \o <<>> = v
      BY <1>7, <2>1
    <2>3. QED
      BY <1>2, <2>2
  <1> HIDE DEF N, v
  <1>9. /\ Informed' /\ known'.depth = d + 1
        /\ meters'.running = u /\ meters'.subscribed = b
    <2>1. Knows(Told(Readers, v), Active', Cardinality(effects'), subscribed', d + 1, u, b)
      BY <1>1, <1>2, <1>7 DEF n
    <2>2. QED
      BY <1>4, <1>6, <1>7, <1>8, <2>1, Informs
  <1>10. ProgramTypes'
    BY <1>1, <1>2, TelemetryAssumption DEF TelemetryInvariant, ProgramTypes
  <1>11. Ended'
    BY <1>1, <1>2 DEF TelemetryInvariant, Ended
  <1>12. Balanced'
    <2>1. depth' = depth + 1
      BY <1>2 DEF depth, TelemetryInvariant, ProgramTypes
    <2>2. u = u + 0 /\ \A x \in Nat : x = x + 0
      BY <1>4
    <2>3. Cardinality(Active') + Cardinality(effects')
            = Cardinality(Active) + Cardinality(effects) + 0
      BY <1>1, InformedFacts
    <2>4. meters'.subscribed = Cardinality(subscribed')
      BY <1>2, <1>4, <1>9
    <2>5. known'.depth = known.depth + 1 /\ meters'.running = meters.running + 0
      BY <1>9, <2>2 DEF d, u
    <2>6. QED
      BY <1>2, <2>1, <2>3, <2>4, <2>5, BalancedStep
  <1>13. QED
    BY <1>1, <1>9, <1>10, <1>11, <1>12 DEF TelemetryInvariant

LEMMA ExecuteEffectStep ==
    ASSUME TelemetryInvariant, ExecuteEffect
    PROVE  TelemetryInvariant'
  <1> DEFINE e == Scheduled("Effect", NoKey)
             f == Started(NoKey)
             d == known.depth
             n == Cardinality(effects)
             u == meters.running
             b == meters.subscribed
  <1>1. /\ EffectTypeOK' /\ EntriesHaveFutures' /\ Finitely'
        /\ Active' = Active /\ Cardinality(effects') = n + 1
    BY StartEffectType, CommandEntries, StartEffectCounts
       DEF ExecuteEffect, TelemetryInvariant, ProgramTypes
  <1>2. /\ status' = status /\ turn' = turn /\ updated' = updated /\ subscribed' = subscribed
        /\ externals' = externals /\ internals' = internals /\ sending' = sending
        /\ status # "unmounted" /\ Observe(<<e, f>>)
    BY Executes DEF ExecuteEffect, programVars
  <1>3. /\ Informed /\ d \in Int /\ n \in Nat /\ u \in Nat /\ b \in Nat
        /\ Knows(Readers, Active, n, subscribed, d, u, b)
        /\ b = Cardinality(subscribed) /\ Cardinality(Active) \in Nat
    BY <1>2, InformedFacts
  <1>4. Knows(Tell(Tell(Readers, e), f), Active, n + 1, subscribed, d, u + 1, b)
    <2>1. Knows(Tell(Tell(Readers, e), f), Active \cup ({NoKey} \ {NoKey}),
                n + One(NoKey = NoKey), subscribed, d, u + 1, b)
      <3> HIDE DEF d, n, u, b
      <3>1. QED
        BY <1>3, TellOfStart
    <2>2. Active \cup ({NoKey} \ {NoKey}) = Active /\ One(NoKey = NoKey) = 1
      BY DEF One
    <2>3. QED
      BY <2>1, <2>2
  <1> HIDE DEF e, f
  <1>5. /\ Informed' /\ known'.depth = d
        /\ meters'.running = u + 1 /\ meters'.subscribed = b
    <2> HIDE DEF d, n, u, b
    <2>1. Knows(Tell(Tell(Readers, e), f),
                Active', Cardinality(effects'), subscribed', d, u + 1, b)
      BY <1>1, <1>2, <1>4
    <2>2. QED
      BY <1>2, <1>3, <2>1, InformsOfTwo
  <1>6. ProgramTypes'
    BY <1>1, <1>2 DEF TelemetryInvariant, ProgramTypes
  <1>7. Ended'
    BY <1>2 DEF Ended
  <1>8. Balanced'
    <2>1. depth' = depth + 0 /\ known'.depth = known.depth + 0
      BY <1>2, <1>3, <1>5, InformedFacts DEF depth
    <2>2. Cardinality(Active') + Cardinality(effects')
            = Cardinality(Active) + Cardinality(effects) + 1
      BY <1>1, <1>3
    <2>3. meters'.subscribed = Cardinality(subscribed')
      BY <1>2, <1>3, <1>5
    <2>4. QED
      BY <1>2, <1>5, <2>1, <2>2, <2>3, BalancedStep
  <1>9. QED
    BY <1>1, <1>5, <1>6, <1>7, <1>8 DEF TelemetryInvariant


LEMMA InformsOfThree ==
    ASSUME Informed, NEW e, NEW f, NEW g, Observe(<<e, f>> \o <<g>>),
           NEW d \in Int, NEW u \in Nat, NEW b \in Nat,
           Knows(Tell(Tell(Tell(Readers, e), f), g),
                 Active', Cardinality(effects'), subscribed', d, u, b)
    PROVE  /\ Informed'
           /\ known'.depth = d /\ meters'.running = u /\ meters'.subscribed = b
  <1> DEFINE M == {e, f, g}
  <1>1. <<e, f>> \in Seq(M) /\ <<g>> \in Seq(M) /\ <<e, f>> \o <<g>> \in Seq(M)
    OBVIOUS
  <1> HIDE DEF M
  <1>2. \A P : \A s \in Seq(P), t \in Seq(P) : Told(Readers, s \o t) = Told(Told(Readers, s), t)
    BY ToldConcat
  <1>3. Told(Readers, <<e, f>> \o <<g>>) = Told(Told(Readers, <<e, f>>), <<g>>)
    BY <1>1, <1>2
  <1>4. Told(Readers, <<e, f>> \o <<g>>) = Tell(Tell(Tell(Readers, e), f), g)
    BY <1>3, ToldOne, ToldTwo
  <1>5. QED
    BY <1>1, <1>4, Informs

\* The readers add the key, and count one task more unless one is replaced.
LEMMA ExecuteKeyedInforms ==
    ASSUME TelemetryInvariant, NEW k \in Keys, ExecuteKeyed(k)
    PROVE  /\ Informed' /\ known'.depth = known.depth
           /\ meters'.running = meters.running + One(k \notin Active)
           /\ meters'.subscribed = meters.subscribed
  <1> DEFINE e == Scheduled("Effect", k)
             f == Started(k)
             g == OfKey("KeyedCommandReplaced", k)
             d == known.depth
             n == Cardinality(effects)
             u == meters.running
             b == meters.subscribed
             K == Active
             L == Active \cup {k}
             q == Tell(Tell(Readers, e), f)
  <1>1. Active' = L /\ effects' = effects /\ subscribed' = subscribed
    BY StartKeyedCounts DEF ExecuteKeyed, TelemetryInvariant, ProgramTypes, programVars
  <1>2. k # NoKey
    BY KeyAssumption
  <1>3. /\ Informed /\ d \in Int /\ n \in Int /\ u \in Nat /\ b \in Nat
        /\ Knows(Readers, K, n, subscribed, d, u, b)
    BY InformedFacts
  <1>4. /\ Observe(<<e, f>> \o IF tasks[k] # NoTask THEN <<g>> ELSE <<>>)
        /\ k \in Active <=> tasks[k] # NoTask
    BY DEF ExecuteKeyed, Active
  <1>5. g.name = "KeyedCommandReplaced" /\ g.emitted \in BOOLEAN /\ g.action = "none"
    BY EventFields
  <1>6. Knows(q, L, n, subscribed, d, u + 1, b)
    <2>1. Knows(Tell(Tell(Readers, e), f), K \cup ({k} \ {NoKey}), n + One(k = NoKey),
                subscribed, d, u + 1, b)
      <3> HIDE DEF d, n, u, b, K
      <3>1. QED
        BY <1>3, TellOfStart
    <2>2. ({k} \ {NoKey}) = {k} /\ One(k = NoKey) = 0
      BY <1>2 DEF One
    <2>3. n + 0 = n
      BY <1>3
    <2>4. QED
      BY <2>1, <2>2, <2>3
  <1> HIDE DEF e, f, g, d, n, u, b
  <1>7. CASE k \in Active
    <2>1. Observe(<<e, f>> \o <<g>>) /\ One(k \notin Active) = 0
      BY <1>4, <1>7 DEF One
    <2> DEFINE v == u + 1
    <2>2. Knows(Tell(q, g), L, n, subscribed, d, v - 1, b)
      <3> HIDE DEF q, L
      <3>1. v \in Int /\ Knows(q, L, n, subscribed, d, v, b)
        BY <1>3, <1>6
      <3> HIDE DEF v
      <3>2. QED
        BY <1>3, <1>5, <3>1, TellReplaced
    <2>3. v - 1 = u
      BY <1>3
    <2>4. Knows(Tell(q, g), Active', Cardinality(effects'), subscribed', d, u, b)
      BY <1>1, <2>2, <2>3 DEF n
    <2>5. Informed' /\ known'.depth = d /\ meters'.running = u /\ meters'.subscribed = b
      BY <1>3, <2>1, <2>4, InformsOfThree
    <2>6. u + 0 = u
      BY <1>3
    <2>7. QED
      BY <2>1, <2>5, <2>6 DEF d, u, b
  <1>8. CASE k \notin Active
    <2>1. Observe(<<e, f>>) /\ One(k \notin Active) = 1
      <3>1. <<e, f>> \o <<>> = <<e, f>>
        OBVIOUS
      <3>2. QED
        BY <1>4, <1>8, <3>1 DEF One
    <2>2. Knows(q, Active', Cardinality(effects'), subscribed', d, u + 1, b)
      BY <1>1, <1>6 DEF n
    <2>3. u + 1 \in Nat
      BY <1>3
    <2>4. Informed' /\ known'.depth = d /\ meters'.running = u + 1 /\ meters'.subscribed = b
      BY <1>3, <2>1, <2>2, <2>3, InformsOfTwo
    <2>5. QED
      BY <2>1, <2>4 DEF d, u, b
  <1>9. QED
    BY <1>7, <1>8

LEMMA ExecuteKeyedStep ==
    ASSUME TelemetryInvariant, NEW k \in Keys, ExecuteKeyed(k)
    PROVE  TelemetryInvariant'
  <1>1. /\ EffectTypeOK' /\ EntriesHaveFutures' /\ Finitely'
        /\ Active' = Active \cup {k} /\ effects' = effects
    BY StartKeyedType, CommandEntries, StartKeyedCounts
       DEF ExecuteKeyed, TelemetryInvariant, ProgramTypes
  <1>2. /\ status' = status /\ turn' = turn /\ updated' = updated /\ subscribed' = subscribed
        /\ externals' = externals /\ internals' = internals /\ sending' = sending
        /\ status # "unmounted"
    BY Executes DEF ExecuteKeyed, programVars
  <1>3. /\ Informed' /\ known'.depth = known.depth
        /\ meters'.running = meters.running + One(k \notin Active)
        /\ meters'.subscribed = meters.subscribed
    BY ExecuteKeyedInforms
  <1>4. ProgramTypes'
    BY <1>1, <1>2 DEF TelemetryInvariant, ProgramTypes
  <1>5. Ended'
    BY <1>2 DEF Ended
  <1>6. Balanced'
    <2>1. depth' = depth + 0 /\ known'.depth = known.depth + 0
      BY <1>2, <1>3, InformedFacts DEF depth
    <2>2. Cardinality(Active') = Cardinality(Active) + One(k \notin Active)
      <3>1. IsFiniteSet(Active) /\ Cardinality(Active) \in Nat
        BY InformedFacts DEF TelemetryInvariant, Finitely
      <3>2. CASE k \in Active
        <4>1. Active \cup {k} = Active
          BY <3>2
        <4>2. QED
          BY <1>1, <3>1, <3>2, <4>1 DEF One
      <3>3. CASE k \notin Active
        BY <1>1, <3>1, <3>3, FS_AddElement DEF One
      <3>4. QED
        BY <3>2, <3>3
    <2>3. One(k \notin Active) \in Int
      BY DEF One
    <2>4. Cardinality(Active') + Cardinality(effects')
            = Cardinality(Active) + Cardinality(effects) + One(k \notin Active)
      BY <1>1, <2>2, <2>3, InformedFacts
    <2>5. meters'.subscribed = Cardinality(subscribed')
      BY <1>2, <1>3, InformedFacts
    <2>6. QED
      BY <1>2, <1>3, <2>1, <2>3, <2>4, <2>5, BalancedStep
  <1>7. QED
    BY <1>1, <1>3, <1>4, <1>5, <1>6 DEF TelemetryInvariant


\* The readers remove the key, and count one task less if there was one.
LEMMA ExecuteCancelInforms ==
    ASSUME TelemetryInvariant, NEW k \in Keys, ExecuteCancel(k)
    PROVE  /\ Informed' /\ known'.depth = known.depth
           /\ meters'.running = meters.running - One(k \in Active)
           /\ meters'.subscribed = meters.subscribed
  <1> DEFINE e == Scheduled("Cancel", k)
             f == OfKey("KeyedCommandCanceled", k)
             d == known.depth
             n == Cardinality(effects)
             u == meters.running
             b == meters.subscribed
             K == Active
             L == Active \ {k}
  <1>1. /\ Active' = L /\ effects' = effects /\ subscribed' = subscribed
        /\ status # "unmounted"
    BY CancelKeyedCounts, Executes
       DEF ExecuteCancel, TelemetryInvariant, ProgramTypes, programVars
  <1>2. k # NoKey
    BY KeyAssumption
  <1>3. /\ Informed /\ d \in Int /\ n \in Int /\ u \in Nat /\ b \in Nat
        /\ Knows(Readers, K, n, subscribed, d, u, b)
        /\ u = Cardinality(Active) + n /\ Cardinality(Active) \in Nat /\ n \in Nat
    BY <1>1, InformedFacts
  <1>4. /\ Observe(<<e>> \o IF tasks[k] # NoTask THEN <<f>> ELSE <<>>)
        /\ k \in Active <=> tasks[k] # NoTask
    BY DEF ExecuteCancel, Active
  <1>5. CASE k \in Active
    <2>1. Observe(<<e, f>>) /\ One(k \in Active) = 1
      <3> HIDE DEF e, f
      <3>1. <<e>> \o <<f>> = <<e, f>>
        BY PairOfEvents
      <3>2. QED
        BY <1>4, <1>5, <3>1 DEF One
    <2>2. Knows(Tell(Tell(Readers, e), f), L, n, subscribed, d, u - 1, b)
      <3> HIDE DEF d, n, u, b, K
      <3>1. Knows(Tell(Tell(Readers, e), f), K \ {k}, n, subscribed, d, u - 1, b)
        BY <1>2, <1>3, TellOfCancel
      <3>2. QED
        BY <3>1 DEF K
    <2>3. u - 1 \in Nat
      <3>1. IsFiniteSet(Active)
        BY DEF TelemetryInvariant, Finitely
      <3>2. Cardinality(Active) # 0
        BY <1>5, <3>1, FS_EmptySet
      <3> HIDE DEF u, n
      <3>3. QED
        BY <1>3, <3>2
    <2> HIDE DEF e, f, d, n, u, b
    <2>4. Knows(Tell(Tell(Readers, e), f),
                Active', Cardinality(effects'), subscribed', d, u - 1, b)
      BY <1>1, <2>2 DEF n
    <2>5. Informed' /\ known'.depth = d /\ meters'.running = u - 1 /\ meters'.subscribed = b
      BY <1>3, <2>1, <2>3, <2>4, InformsOfTwo
    <2>6. QED
      BY <2>1, <2>5 DEF d, u, b
  <1>6. CASE k \notin Active
    <2>1. Observe(<<e>>) /\ One(k \in Active) = 0
      <3> HIDE DEF e, f
      <3>1. <<e>> \o <<>> = <<e>>
        OBVIOUS
      <3>2. QED
        BY <1>4, <1>6, <3>1 DEF One
    <2>2. /\ e.name = "CommandScheduled" /\ e.kind = "Cancel" /\ e.key = k
          /\ e.emitted \in BOOLEAN /\ e.action = "none"
      BY EventFields DEF Scheduled
    <2> HIDE DEF e, f, d, n, u, b
    <2>3. Knows(Tell(Readers, e), K, n, subscribed, d, u, b)
      <3>1. e.key # NoKey /\ e.key \notin K
        BY <1>2, <1>6, <2>2
      <3> HIDE DEF K
      <3>2. QED
        BY <1>3, <2>2, <3>1, TellNoCancel
    <2>4. Active' = K
      BY <1>1, <1>6
    <2>5. Knows(Tell(Readers, e), Active', Cardinality(effects'), subscribed', d, u, b)
      BY <1>1, <2>3, <2>4 DEF n
    <2>6. Informed' /\ known'.depth = d /\ meters'.running = u /\ meters'.subscribed = b
      BY <1>3, <2>1, <2>5, InformsOfOne
    <2>7. u - 0 = u
      BY <1>3
    <2>8. QED
      BY <2>1, <2>6, <2>7 DEF d, u, b
  <1>7. QED
    BY <1>5, <1>6

\* A key is removed from those with a task: one less if it was among them.
LEMMA ActiveWithout ==
    ASSUME Finitely, NEW k, Active' = Active \ {k}
    PROVE  Cardinality(Active') = Cardinality(Active) - One(k \in Active)
  <1>1. IsFiniteSet(Active) /\ Cardinality(Active) \in Nat
    BY FS_CardinalityType DEF Finitely
  <1>2. CASE k \in Active
    BY <1>1, <1>2, FS_RemoveElement DEF One
  <1>3. CASE k \notin Active
    <2>1. Active \ {k} = Active
      BY <1>3
    <2>2. One(k \in Active) = 0
      BY <1>3 DEF One
    <2>3. Cardinality(Active') = Cardinality(Active)
      BY <2>1
    <2>4. \A x \in Nat : x - 0 = x
      OBVIOUS
    <2>5. Cardinality(Active) - One(k \in Active) = Cardinality(Active)
      BY <1>1, <2>2, <2>4
    <2>6. QED
      BY <2>3, <2>5
  <1>4. QED
    BY <1>2, <1>3

LEMMA ExecuteCancelStep ==
    ASSUME TelemetryInvariant, NEW k \in Keys, ExecuteCancel(k)
    PROVE  TelemetryInvariant'
  <1>1. /\ EffectTypeOK' /\ EntriesHaveFutures' /\ Finitely'
        /\ Active' = Active \ {k} /\ effects' = effects
    BY CancelKeyedType, CommandEntries, CancelKeyedCounts
       DEF ExecuteCancel, TelemetryInvariant, ProgramTypes
  <1>2. /\ status' = status /\ turn' = turn /\ updated' = updated /\ subscribed' = subscribed
        /\ externals' = externals /\ internals' = internals /\ sending' = sending
        /\ status # "unmounted"
    BY Executes DEF ExecuteCancel, programVars
  <1>3. /\ Informed' /\ known'.depth = known.depth
        /\ meters'.running = meters.running - One(k \in Active)
        /\ meters'.subscribed = meters.subscribed
    BY ExecuteCancelInforms
  <1>4. ProgramTypes'
    BY <1>1, <1>2 DEF TelemetryInvariant, ProgramTypes
  <1>5. Ended'
    BY <1>2 DEF Ended
  <1>6. Balanced'
    <2> DEFINE j == -One(k \in Active)
    <2>1. depth' = depth + 0 /\ known'.depth = known.depth + 0
      BY <1>2, <1>3, InformedFacts DEF depth
    <2>2. Cardinality(Active') = Cardinality(Active) - One(k \in Active)
      BY <1>1, ActiveWithout DEF TelemetryInvariant
    <2>3. j \in Int /\ One(k \in Active) \in Int
      BY DEF One
    <2>4. Cardinality(Active') + Cardinality(effects')
            = Cardinality(Active) + Cardinality(effects) + j
      BY <1>1, <2>2, <2>3, InformedFacts
    <2>5. meters'.subscribed = Cardinality(subscribed')
      BY <1>2, <1>3, InformedFacts
    <2>6. meters'.running = meters.running + j
      BY <1>3, <2>3, InformedFacts
    <2> HIDE DEF j
    <2>7. QED
      BY <1>2, <2>1, <2>3, <2>4, <2>5, <2>6, BalancedStep
  <1>7. QED
    BY <1>1, <1>3, <1>4, <1>5, <1>6 DEF TelemetryInvariant

-----------------------------------------------------------------------------
(* Drains.                                                                 *)

\* An event that says nothing.
LEMMA UnheededInforms ==
    ASSUME TelemetryInvariant, NEW name \in Unheeded, Observe(<<Event(name)>>),
           Active' = Active, effects' = effects, subscribed' = subscribed
    PROVE  /\ Informed' /\ known'.depth = known.depth
           /\ meters'.running = meters.running /\ meters'.subscribed = meters.subscribed
  <1> DEFINE e == Event(name)
             d == known.depth
             n == Cardinality(effects)
             u == meters.running
             b == meters.subscribed
  <1>1. e.name \in Unheeded /\ e.emitted \in BOOLEAN /\ e.action = "none"
    BY EventFields
  <1>2. /\ Informed /\ d \in Int /\ n \in Int /\ u \in Nat /\ b \in Nat
        /\ Knows(Readers, Active, n, subscribed, d, u, b)
    BY InformedFacts
  <1>3. Observe(<<e>>)
    OBVIOUS
  <1> HIDE DEF e, d, n, u, b
  <1>4. Knows(Tell(Readers, e), Active, n, subscribed, d, u, b)
    BY <1>1, <1>2, TellUnheeded
  <1>5. Knows(Tell(Readers, e), Active', Cardinality(effects'), subscribed', d, u, b)
    BY <1>4 DEF n
  <1>6. Informed' /\ known'.depth = d /\ meters'.running = u /\ meters'.subscribed = b
    BY <1>2, <1>3, <1>5, InformsOfOne
  <1>7. QED
    BY <1>6 DEF d, u, b

LEMMA CommandDoneStep ==
    ASSUME TelemetryInvariant, CommandDone
    PROVE  TelemetryInvariant'
  <1>1. /\ EffectTypeOK' /\ EntriesHaveFutures' /\ Finitely'
        /\ Active' = Active /\ effects' = effects /\ running' = running
    BY RegistriesKept DEF CommandDone
  <1>2. /\ status' = status /\ turn = "command" /\ turn' = "drain" /\ updated' = updated
        /\ subscribed' = subscribed /\ sending' = sending /\ Silent
        /\ externals' = externals /\ internals' = internals
    BY DEF CommandDone
  <1>3. Informed' /\ known' = known /\ meters' = meters
    BY <1>1, <1>2, SilentInforms DEF TelemetryInvariant, Silent
  <1>4. ProgramTypes' /\ Ended'
    BY <1>1, <1>2 DEF TelemetryInvariant, ProgramTypes, Ended
  <1>5. Balanced'
    <2>1. depth' = depth /\ Unreported' = Unreported
      BY <1>2 DEF depth, Unreported
    <2>2. QED
      BY <1>1, <1>2, <1>3, <2>1 DEF TelemetryInvariant, Balanced
  <1>6. QED
    BY <1>1, <1>3, <1>4, <1>5 DEF TelemetryInvariant


LEMMA ProcessStep ==
    ASSUME TelemetryInvariant, Process
    PROVE  TelemetryInvariant'
  <1> DEFINE e == Event("MessageProcessed")
             d == known.depth
             n == Cardinality(effects)
             u == meters.running
             b == meters.subscribed
  <1>1. /\ EffectTypeOK' /\ EntriesHaveFutures' /\ Finitely'
        /\ Active' = Active /\ effects' = effects /\ running' = running
    BY RegistriesKept DEF Process
  <1>2. /\ turn = "drain" /\ turn' = "command" /\ updated' = TRUE
        /\ status' = status /\ subscribed' = subscribed /\ sending' = sending
        /\ \/ externals > 0 /\ externals' = externals - 1 /\ internals' = internals
           \/ internals > 0 /\ internals' = internals - 1 /\ externals' = externals
        /\ Observe(<<e>>)
    BY DEF Process
  <1>3. status # "unmounted"
    BY <1>2 DEF TelemetryInvariant, Ended
  <1>4. /\ externals' \in 0..MaxDepth /\ internals' \in 0..MaxDepth
        /\ depth' = depth + (-1)
    BY <1>2, TelemetryAssumption DEF TelemetryInvariant, ProgramTypes, depth
  <1>5. e.name = "MessageProcessed" /\ e.emitted \in BOOLEAN /\ e.action = "none"
    BY EventFields
  <1>6. /\ Informed /\ d \in Int /\ n \in Int /\ u \in Nat /\ b \in Nat
        /\ Knows(Readers, Active, n, subscribed, d, u, b)
        /\ b = Cardinality(subscribed) /\ Cardinality(Active) \in Nat
    BY <1>3, InformedFacts
  <1>7. /\ Informed' /\ known'.depth = d - 1
        /\ meters'.running = u /\ meters'.subscribed = b
    <2> HIDE DEF e, d, n, u, b
    <2>1. Knows(Tell(Readers, e), Active, n, subscribed, d - 1, u, b)
      BY <1>5, <1>6, TellProcessed
    <2> DEFINE c == d - 1
    <2>2. Knows(Tell(Readers, e), Active', Cardinality(effects'), subscribed', c, u, b)
      BY <1>1, <1>2, <2>1 DEF n
    <2>3. c \in Int
      BY <1>6
    <2>4. c = d - 1
      OBVIOUS
    <2> HIDE DEF c
    <2>5. Informed' /\ known'.depth = c /\ meters'.running = u /\ meters'.subscribed = b
      BY <1>2, <1>6, <2>2, <2>3, InformsOfOne
    <2>6. QED
      BY <2>4, <2>5
  <1>8. ProgramTypes'
    BY <1>1, <1>2, <1>4 DEF TelemetryInvariant, ProgramTypes
  <1>9. Ended'
    BY <1>2, <1>3 DEF Ended
  <1>10. Balanced'
    <2>1. known'.depth = known.depth + (-1) /\ meters'.running = meters.running + 0
      BY <1>6, <1>7
    <2>2. Cardinality(Active') + Cardinality(effects')
            = Cardinality(Active) + Cardinality(effects) + 0
      BY <1>1, <1>6
    <2>3. meters'.subscribed = Cardinality(subscribed')
      BY <1>2, <1>6, <1>7
    <2> HIDE DEF d, n, u, b
    <2>4. -1 \in Int
      OBVIOUS
    <2>5. QED
      BY <1>2, <1>3, <1>4, <2>1, <2>2, <2>3, <2>4, BalancedStep
  <1>11. QED
    BY <1>1, <1>7, <1>8, <1>9, <1>10 DEF TelemetryInvariant

\* After a reconciliation, and whatever follows it that says nothing, the readers know
\* the subscriptions that were wanted.
LEMMA ReconciliationInforms ==
    ASSUME TelemetryInvariant, NEW wanted \in SUBSET Sources, status # "unmounted",
           Active' = Active, effects' = effects, subscribed' = wanted,
           \/ Observe(Reconciliation(wanted))
           \/ Observe(Reconciliation(wanted) \o <<Event("QueueDrainFinished")>>)
    PROVE  /\ Informed' /\ known'.depth = known.depth
           /\ meters'.running = meters.running
           /\ meters'.subscribed = Cardinality(wanted)
  <1> DEFINE e == Event("QueueDrainFinished")
             o == Reconciliation(wanted)
             d == known.depth
             n == Cardinality(effects)
             u == meters.running
             b == meters.subscribed
             c == Cardinality(wanted)
  <1>1. /\ e.name \in Unheeded /\ e.emitted \in BOOLEAN /\ e.action = "none"
        /\ e \in Announcements
    BY EventFields DEF Unheeded, Announcements, Closing
  <1>2. /\ Informed /\ d \in Int /\ n \in Int /\ u \in Nat
        /\ Knows(Readers, Active, n, subscribed, d, u, Cardinality(subscribed))
        /\ subscribed \subseteq Sources
    BY InformedFacts DEF TelemetryInvariant, ProgramTypes
  <1>3. c \in Nat
    BY TelemetryAssumption, FS_Subset, FS_CardinalityType
  <1>4. Observe(o) \/ Observe(o \o <<e>>)
    OBVIOUS
  <1> HIDE DEF d, n, u, b, e
  <1>5. Knows(Told(Readers, o), Active, n, wanted, d, u, c) /\ o \in Seq(Announcements)
    BY <1>2, ToldReconciliation
  <1> HIDE DEF o, c
  <1>6. /\ o \o <<e>> \in Seq(Announcements)
        /\ Knows(Told(Readers, o \o <<e>>), Active, n, wanted, d, u, c)
    <2> DEFINE q == Told(Readers, o)
    <2>1. <<e>> \in Seq(Announcements) /\ o \o <<e>> \in Seq(Announcements)
      BY <1>1, <1>5
    <2>2. \A P : \A s \in Seq(P), t \in Seq(P) : Told(Readers, s \o t) = Told(Told(Readers, s), t)
      BY ToldConcat
    <2>3. Told(Readers, o \o <<e>>) = Told(q, <<e>>)
      BY <1>5, <2>1, <2>2
    <2> HIDE DEF q
    <2>4. Knows(q, Active, n, wanted, d, u, c)
      BY <1>5 DEF q
    <2>5. Knows(Tell(q, e), Active, n, wanted, d, u, c)
      BY <1>1, <1>2, <1>3, <2>4, TellUnheeded
    <2>6. QED
      BY <2>1, <2>3, <2>5, ToldOne
  <1>7. ASSUME NEW v \in Seq(Announcements), Observe(v),
               Knows(Told(Readers, v), Active, n, wanted, d, u, c)
        PROVE  /\ Informed' /\ known'.depth = d
               /\ meters'.running = u /\ meters'.subscribed = c
    <2>1. Knows(Told(Readers, v), Active', Cardinality(effects'), subscribed', d, u, c)
      BY <1>7 DEF n
    <2>2. QED
      BY <1>2, <1>3, <1>7, <2>1, Informs
  <1>8. /\ Informed' /\ known'.depth = d
        /\ meters'.running = u /\ meters'.subscribed = c
    BY <1>4, <1>5, <1>6, <1>7
  <1>9. QED
    BY <1>8 DEF d, u, c


\* What holds of any step that reconciles to some subscriptions.
LEMMA ReconciledStep ==
    ASSUME TelemetryInvariant, NEW wanted \in SUBSET Sources, status # "unmounted",
           UNCHANGED effectVars, subscribed' = wanted,
           \/ Observe(Reconciliation(wanted))
           \/ Observe(Reconciliation(wanted) \o <<Event("QueueDrainFinished")>>),
           status' = "mounted", turn' = "idle", updated' \in BOOLEAN,
           externals' = externals, internals' = internals, sending' = sending
    PROVE  TelemetryInvariant'
  <1>1. /\ EffectTypeOK' /\ EntriesHaveFutures' /\ Finitely'
        /\ Active' = Active /\ effects' = effects /\ running' = running
    BY RegistriesKept
  <1>2. /\ Informed' /\ known'.depth = known.depth
        /\ meters'.running = meters.running
        /\ meters'.subscribed = Cardinality(wanted)
    BY <1>1, ReconciliationInforms
  <1>3. ProgramTypes' /\ Ended'
    BY <1>1 DEF TelemetryInvariant, ProgramTypes, Ended
  <1>4. Balanced'
    <2>1. depth' = depth /\ Unreported' = Unreported
      BY DEF depth, Unreported
    <2>2. QED
      BY <1>1, <1>2, <2>1 DEF TelemetryInvariant, Balanced
  <1>5. QED
    BY <1>1, <1>2, <1>3, <1>4 DEF TelemetryInvariant

\* A drain begins or ends with an event that says nothing.
LEMMA TurnedStep ==
    ASSUME TelemetryInvariant, status # "unmounted", NEW name \in Unheeded,
           UNCHANGED effectVars, subscribed' = subscribed, Observe(<<Event(name)>>),
           status' \in {status, "mounted"}, turn' \in {"idle", "drain"}, updated' \in BOOLEAN,
           externals' = externals, internals' = internals, sending' = sending
    PROVE  TelemetryInvariant'
  <1>1. /\ EffectTypeOK' /\ EntriesHaveFutures' /\ Finitely'
        /\ Active' = Active /\ effects' = effects /\ running' = running
    BY RegistriesKept
  <1>2. /\ Informed' /\ known'.depth = known.depth
        /\ meters'.running = meters.running /\ meters'.subscribed = meters.subscribed
    BY <1>1, UnheededInforms
  <1>3. ProgramTypes' /\ Ended'
    BY <1>1 DEF TelemetryInvariant, ProgramTypes, Ended
  <1>4. Balanced'
    <2>1. depth' = depth /\ Unreported' = Unreported
      BY DEF depth, Unreported
    <2>2. QED
      BY <1>1, <1>2, <2>1 DEF TelemetryInvariant, Balanced
  <1>5. QED
    BY <1>1, <1>2, <1>3, <1>4 DEF TelemetryInvariant

LEMMA FinishInitStep ==
    ASSUME TelemetryInvariant, FinishInit
    PROVE  TelemetryInvariant'
  <1>1. /\ turn = "init" /\ UNCHANGED effectVars /\ updated' = updated /\ updated \in BOOLEAN
        /\ externals' = externals /\ internals' = internals /\ sending' = sending
    BY DEF FinishInit, TelemetryInvariant, ProgramTypes
  <1>2. status # "unmounted"
    BY <1>1 DEF TelemetryInvariant, Ended
  <1>3. CASE internals = 0
    <2>1. PICK wanted \in SUBSET Sources :
            subscribed' = wanted /\ Observe(Reconciliation(wanted))
      BY <1>3 DEF FinishInit
    <2>2. turn' = "idle" /\ status' = "mounted"
      BY <1>3 DEF FinishInit
    <2>3. QED
      BY <1>1, <1>2, <2>1, <2>2, ReconciledStep
  <1>4. CASE internals # 0
    <2>1. /\ turn' = "drain" /\ Observe(<<Event("QueueDrainStarted")>>)
          /\ status' = status /\ subscribed' = subscribed
      BY <1>4 DEF FinishInit
    <2>2. "QueueDrainStarted" \in Unheeded
      BY DEF Unheeded
    <2>3. QED
      BY <1>1, <1>2, <2>1, <2>2, TurnedStep
  <1>5. QED
    BY <1>3, <1>4

LEMMA FinishDrainStep ==
    ASSUME TelemetryInvariant, FinishDrain
    PROVE  TelemetryInvariant'
  <1>1. /\ turn = "drain" /\ UNCHANGED effectVars /\ updated' \in BOOLEAN
        /\ turn' = "idle" /\ status' = "mounted"
        /\ externals' = externals /\ internals' = internals /\ sending' = sending
    BY DEF FinishDrain
  <1>2. status # "unmounted"
    BY <1>1 DEF TelemetryInvariant, Ended
  <1>3. CASE updated
    <2>1. PICK wanted \in SUBSET Sources :
            /\ subscribed' = wanted
            /\ Observe(Reconciliation(wanted) \o <<Event("QueueDrainFinished")>>)
      BY <1>3 DEF FinishDrain
    <2>2. QED
      BY <1>1, <1>2, <2>1, ReconciledStep
  <1>4. CASE ~updated
    <2>1. Observe(<<Event("QueueDrainFinished")>>) /\ subscribed' = subscribed
      BY <1>4 DEF FinishDrain
    <2>2. "QueueDrainFinished" \in Unheeded
      BY DEF Unheeded
    <2>3. QED
      BY <1>1, <1>2, <2>1, <2>2, TurnedStep
  <1>5. QED
    BY <1>3, <1>4

LEMMA BeginDrainStep ==
    ASSUME TelemetryInvariant, BeginDrain
    PROVE  TelemetryInvariant'
  <1>1. /\ status = "mounted" /\ status' = status /\ turn' = "drain"
        /\ updated' = updated /\ updated \in BOOLEAN
        /\ UNCHANGED effectVars /\ subscribed' = subscribed /\ sending' = sending
        /\ externals' = externals /\ internals' = internals
        /\ Observe(<<Event("QueueDrainStarted")>>)
    BY DEF BeginDrain, TelemetryInvariant, ProgramTypes
  <1>2. "QueueDrainStarted" \in Unheeded
    BY DEF Unheeded
  <1>3. QED
    BY <1>1, <1>2, TurnedStep


-----------------------------------------------------------------------------
(* Completions.                                                            *)

\* An event, a warning, and the start of a drain: what the first tells.
LEMMA InformsOfEnqueued ==
    ASSUME TelemetryInvariant, NEW e,
           Observe(<<e>> \o Warning(depth + 1) \o <<Event("QueueDrainStarted")>>),
           NEW d \in Int, NEW u \in Nat, NEW b \in Nat, Cardinality(effects') \in Int,
           Knows(Tell(Readers, e), Active', Cardinality(effects'), subscribed', d, u, b)
    PROVE  /\ Informed'
           /\ known'.depth = d /\ meters'.running = u /\ meters'.subscribed = b
  <1> DEFINE M == {e}
             N == M \cup {Event("QueueWarning")}
             f == Event("QueueDrainStarted")
             O == N \cup {f}
             w == Warning(depth + 1)
             v == <<e>> \o w
             K == Active'
             n == Cardinality(effects')
             s == subscribed'
  <1>1. f.name \in Unheeded /\ f.emitted \in BOOLEAN /\ f.action = "none"
    BY EventFields DEF Unheeded
  <1>2. Observe(v \o <<f>>) /\ <<e>> \in Seq(M) /\ n \in Int /\ u \in Int /\ b \in Int
    OBVIOUS
  <1>3. Knows(Told(Readers, <<e>>), K, n, s, d, u, b)
    BY ToldOne
  <1> HIDE DEF K, n, s, M, f
  <1>4. Knows(Told(Readers, v), K, n, s, d, u, b) /\ v \in Seq(N)
    <2>1. \A x : /\ Knows(Told(Readers, <<e>> \o Warning(x)), K, n, s, d, u, b)
                 /\ <<e>> \o Warning(x) \in Seq(M \cup {Event("QueueWarning")})
      BY <1>2, <1>3, ToldWarned, Zenon
    <2>2. QED
      BY <2>1
  <1> HIDE DEF v, N
  <1>5. v \o <<f>> \in Seq(O) /\ v \in Seq(O) /\ <<f>> \in Seq(O)
    BY <1>4
  <1> HIDE DEF O
  <1>6. Told(Readers, v \o <<f>>) = Told(Told(Readers, v), <<f>>)
    <2>1. \A P : \A p \in Seq(P), t \in Seq(P) : Told(Readers, p \o t) = Told(Told(Readers, p), t)
      BY ToldConcat
    <2>2. QED
      BY <1>5, <2>1
  <1>7. Knows(Told(Readers, v \o <<f>>), K, n, s, d, u, b)
    <2> DEFINE q == Told(Readers, v)
    <2>1. Knows(q, K, n, s, d, u, b)
      BY <1>4
    <2>2. Told(Readers, v \o <<f>>) = Told(q, <<f>>)
      BY <1>6
    <2> HIDE DEF q
    <2>3. Knows(Tell(q, f), K, n, s, d, u, b)
      BY <1>1, <1>2, <2>1, TellUnheeded
    <2>4. QED
      BY <2>2, <2>3, ToldOne
  <1> DEFINE y == v \o <<f>>
  <1>8. y \in Seq(O) /\ Observe(y)
    BY <1>2, <1>5
  <1>9. Knows(Told(Readers, y), Active', Cardinality(effects'), subscribed', d, u, b)
    BY <1>7 DEF K, n, s
  <1> HIDE DEF y
  <1>10. Informed
    BY DEF TelemetryInvariant
  <1>11. QED
    BY <1>8, <1>9, <1>10, Informs

\* A completion tells of the effect, and of the message it brings.
LEMMA CompletesInforms ==
    ASSUME TelemetryInvariant, NEW key, Completes(key), subscribed' = subscribed,
           Active' = Active \ {key},
           Cardinality(effects') = Cardinality(effects) - One(key = NoKey),
           meters.running - 1 \in Nat
    PROVE  /\ Informed'
           /\ internals' \in 0..MaxDepth /\ turn' \in {turn, "drain"}
           /\ known'.depth = known.depth + (internals' - internals)
           /\ meters'.running = meters.running - 1
           /\ meters'.subscribed = meters.subscribed
  <1> DEFINE d == known.depth
             n == Cardinality(effects)
             m == Cardinality(effects')
             u == meters.running - 1
             b == meters.subscribed
             K == Active
             told(e) == Tell(Readers, e)
  <1>1. /\ Informed /\ d \in Int /\ n \in Int /\ u \in Nat /\ b \in Nat /\ m \in Int
        /\ meters.running \in Int
        /\ Knows(Readers, Active, n, subscribed, d, meters.running, b)
        /\ internals \in 0..MaxDepth
    BY InformedFacts DEF TelemetryInvariant, ProgramTypes, One
  <1>2. \A e : /\ e.emitted \in BOOLEAN /\ e.name = "EffectCompleted" /\ e.kind = "Effect"
               /\ e.action = "none" /\ e.key = key
               => Knows(told(e), Active', m, subscribed', d + One(e.emitted), u, b)
    <2> DEFINE v == meters.running
               r == Readers
    <2>1. v \in Int /\ Knows(r, K, n, subscribed, d, v, b)
      BY <1>1
    <2> HIDE DEF d, n, b, K, v, r
    <2>2. \A e : /\ e.emitted \in BOOLEAN /\ e.name = "EffectCompleted" /\ e.kind = "Effect"
                 /\ e.action = "none"
                 => Knows(Tell(r, e), K \ {e.key}, n - One(e.key = NoKey), subscribed,
                          d + One(e.emitted), v - 1, b)
      BY <1>1, <2>1, TellCompleted
    <2>3. QED
      BY <2>2 DEF d, n, b, K, v, r
  <1>3. CASE EnqueueInternal(<<Completion("EffectCompleted", "Effect", key, TRUE)>>,
                             <<Event("QueueDrainStarted")>>)
             /\ turn' = "drain"
    <2> DEFINE e == Completion("EffectCompleted", "Effect", key, TRUE)
               c == d + 1
    <2>1. /\ e.name = "EffectCompleted" /\ e.kind = "Effect" /\ e.key = key /\ e.action = "none"
          /\ e.emitted \in BOOLEAN /\ One(e.emitted) = 1
      BY DEF Completion, OfKind, Event, One
    <2>2. /\ internals < MaxDepth /\ internals' = internals + 1
          /\ Observe(<<e>> \o Warning(depth + 1) \o <<Event("QueueDrainStarted")>>)
      BY <1>3 DEF EnqueueInternal
    <2> HIDE DEF e
    <2>3. Knows(told(e), Active', m, subscribed', c, u, b)
      <3> HIDE DEF d, n, m, u, b, K, told
      <3>1. Knows(told(e), Active', m, subscribed', d + One(e.emitted), u, b)
        BY <1>2, <2>1
      <3>2. QED
        BY <2>1, <3>1
    <2>4. c \in Int
      BY <1>1
    <2>5. Informed' /\ known'.depth = c /\ meters'.running = u /\ meters'.subscribed = b
      <3> HIDE DEF c, u, b
      <3>1. QED
        BY <1>1, <2>2, <2>3, <2>4, InformsOfEnqueued
    <2>6. internals' - internals = 1 /\ internals' \in 0..MaxDepth
      BY <1>1, <2>2, TelemetryAssumption
    <2>7. QED
      BY <1>3, <2>5, <2>6
  <1>4. CASE /\ Observe(<<Completion("EffectCompleted", "Effect", key, FALSE)>>)
             /\ UNCHANGED <<turn, internals>>
    <2> DEFINE e == Completion("EffectCompleted", "Effect", key, FALSE)
    <2>1. /\ e.name = "EffectCompleted" /\ e.kind = "Effect" /\ e.key = key /\ e.action = "none"
          /\ e.emitted \in BOOLEAN /\ One(e.emitted) = 0
      BY DEF Completion, OfKind, Event, One
    <2>2. Observe(<<e>>)
      BY <1>4
    <2> HIDE DEF e
    <2>3. Knows(told(e), Active', m, subscribed', d, u, b)
      <3>1. d + 0 = d
        BY <1>1
      <3> HIDE DEF d, n, m, u, b, K, told
      <3>2. Knows(told(e), Active', m, subscribed', d + One(e.emitted), u, b)
        BY <1>2, <2>1
      <3>3. QED
        BY <2>1, <3>1, <3>2
    <2>4. Informed' /\ known'.depth = d /\ meters'.running = u /\ meters'.subscribed = b
      <3> HIDE DEF d, u, b
      <3>1. QED
        BY <1>1, <2>2, <2>3, InformsOfOne
    <2>5. internals' - internals = 0 /\ d + 0 = d
      BY <1>1, <1>4
    <2>6. QED
      BY <1>1, <1>4, <2>4, <2>5
  <1>5. QED
    BY <1>3, <1>4 DEF Completes


LEMMA CompletesStep ==
    ASSUME TelemetryInvariant, status # "unmounted", NEW key, Completes(key),
           UNCHANGED <<policy, status, updated, externals, subscribed, sending>>,
           EffectTypeOK', EntriesHaveFutures', Finitely',
           Active' = Active \ {key},
           Cardinality(effects') = Cardinality(effects) - One(key = NoKey),
           Cardinality(Active') + Cardinality(effects')
             = Cardinality(Active) + Cardinality(effects) + (-1),
           meters.running - 1 \in Nat
    PROVE  TelemetryInvariant'
  <1>1. /\ Informed'
        /\ internals' \in 0..MaxDepth /\ turn' \in {turn, "drain"}
        /\ known'.depth = known.depth + (internals' - internals)
        /\ meters'.running = meters.running - 1
        /\ meters'.subscribed = meters.subscribed
    BY CompletesInforms
  <1>2. ProgramTypes' /\ Ended'
    BY <1>1 DEF TelemetryInvariant, ProgramTypes, Ended
  <1>3. Balanced'
    <2> DEFINE i == internals' - internals
    <2>1. internals \in Int /\ internals' \in Int /\ externals \in Int /\ MaxDepth \in Nat
      BY <1>1, TelemetryAssumption DEF TelemetryInvariant, ProgramTypes
    <2>2. i \in Int /\ depth' = depth + i
      BY <2>1 DEF depth
    <2>3. known'.depth = known.depth + i
      BY <1>1
    <2>4. meters'.running = meters.running + (-1)
      BY <1>1, InformedFacts
    <2>5. meters'.subscribed = Cardinality(subscribed')
      BY <1>1, InformedFacts
    <2>6. -1 \in Int /\ sending' = sending
      OBVIOUS
    <2> HIDE DEF i
    <2>7. QED
      BY <2>2, <2>3, <2>4, <2>5, <2>6, BalancedStep
  <1>4. QED
    BY <1>1, <1>2, <1>3 DEF TelemetryInvariant

LEMMA CompleteStep ==
    ASSUME TelemetryInvariant, NEW r \in running, Complete(r)
    PROVE  TelemetryInvariant'
  <1>1. /\ status # "unmounted" /\ EffectTypeOK /\ Finitely /\ EntriesHaveFutures
        /\ Active \subseteq Keys
    BY DEF TelemetryInvariant, Ended, ProgramTypes, Active
  <1>2. UNCHANGED <<policy, status, updated, externals, subscribed, sending>>
    BY DEF Complete
  <1>3. /\ meters.running \in Nat /\ meters.running = Cardinality(Active) + Cardinality(effects)
        /\ Cardinality(Active) \in Nat /\ Cardinality(effects) \in Nat
    BY <1>1, InformedFacts
  <1>4. CASE CompleteCurrent(r)
    <2>1. /\ EffectTypeOK' /\ EntriesHaveFutures' /\ Finitely'
          /\ r.key \in Active /\ Active' = Active \ {r.key} /\ effects' = effects
      BY <1>1, <1>4, CompletionType, CompletionEntries, CompleteCurrentCounts
    <2>2. Completes(r.key)
      BY <1>4 DEF Complete, CompleteCurrent
    <2>3. One(r.key = NoKey) = 0
      BY <1>1, <2>1, KeyAssumption DEF One
    <2>4. IsFiniteSet(Active) /\ Cardinality(Active) # 0
          /\ Cardinality(Active') = Cardinality(Active) - 1
      BY <1>1, <2>1, FS_RemoveElement, FS_EmptySet DEF Finitely
    <2>5. Cardinality(effects') = Cardinality(effects) - One(r.key = NoKey)
      BY <1>3, <2>1, <2>3
    <2>6. /\ Cardinality(Active') + Cardinality(effects')
               = Cardinality(Active) + Cardinality(effects) + (-1)
          /\ meters.running - 1 \in Nat
      BY <1>3, <2>1, <2>4
    <2>7. QED
      BY <1>1, <1>2, <2>1, <2>2, <2>5, <2>6, CompletesStep
  <1>5. CASE CompleteEffect(r)
    <2>1. /\ EffectTypeOK' /\ EntriesHaveFutures' /\ Finitely' /\ Active' = Active
          /\ Cardinality(effects) \in Nat \ {0}
          /\ Cardinality(effects') = Cardinality(effects) - 1
      BY <1>1, <1>5, CompletionType, CompletionEntries, CompleteEffectCounts
    <2>2. Completes(NoKey)
      <3>1. r.context = "NonKeyed"
        BY <1>5 DEF CompleteEffect
      <3>2. QED
        BY <3>1 DEF Complete
    <2>3. Active' = Active \ {NoKey}
      BY <1>1, <2>1, KeyAssumption
    <2>4. One(NoKey = NoKey) = 1
      BY DEF One
    <2>5. Cardinality(effects') = Cardinality(effects) - One(NoKey = NoKey)
      BY <2>1, <2>4
    <2>6. /\ Cardinality(Active') + Cardinality(effects')
               = Cardinality(Active) + Cardinality(effects) + (-1)
          /\ meters.running - 1 \in Nat
      BY <1>3, <2>1
    <2>7. QED
      BY <1>1, <1>2, <2>1, <2>2, <2>3, <2>5, <2>6, CompletesStep
  <1>6. QED
    BY <1>4, <1>5 DEF Complete

\* A future that ends without a completion changes nothing that is told of.
LEMMA StaleKeeps ==
    ASSUME TelemetryInvariant, NEW r \in running, CompleteStale(r) \/ Reap(r)
    PROVE  /\ EffectTypeOK' /\ EntriesHaveFutures' /\ Finitely'
           /\ Active' = Active /\ effects' = effects
  <1>1. EffectTypeOK' /\ EntriesHaveFutures'
    BY CompletionType, CompletionEntries DEF TelemetryInvariant, ProgramTypes
  <1>2. tasks' = tasks /\ effects' = effects /\ nextEffectId' = nextEffectId
    BY DEF CompleteStale, Reap
  <1>3. Active' = Active
    BY <1>2 DEF Active
  <1>4. QED
    BY <1>1, <1>2, <1>3 DEF TelemetryInvariant, Finitely

LEMMA IgnoreStaleStep ==
    ASSUME TelemetryInvariant, NEW r \in running, IgnoreStale(r)
    PROVE  TelemetryInvariant'
  <1>1. PICK emitted \in BOOLEAN :
          Observe(<<Completion("StaleKeyedCompletionIgnored", "Effect", r.key, emitted)>>)
    BY DEF IgnoreStale
  <1> DEFINE e == Completion("StaleKeyedCompletionIgnored", "Effect", r.key, emitted)
             d == known.depth
             n == Cardinality(effects)
             u == meters.running
             b == meters.subscribed
  <1>2. /\ EffectTypeOK' /\ EntriesHaveFutures' /\ Finitely'
        /\ Active' = Active /\ effects' = effects
    BY StaleKeeps DEF IgnoreStale
  <1>3. /\ status' = status /\ turn' = turn /\ updated' = updated /\ subscribed' = subscribed
        /\ externals' = externals /\ internals' = internals /\ sending' = sending
    BY DEF IgnoreStale, programVars
  <1>4. status # "unmounted"
    BY DEF TelemetryInvariant, Ended
  <1>5. e.name \in Unheeded /\ e.emitted \in BOOLEAN /\ e.action = "none"
    BY EventFields DEF Unheeded
  <1>6. /\ Informed /\ d \in Int /\ n \in Int /\ u \in Nat /\ b \in Nat
        /\ Knows(Readers, Active, n, subscribed, d, u, b)
    BY InformedFacts
  <1>7. /\ Informed' /\ known'.depth = d
        /\ meters'.running = u /\ meters'.subscribed = b
    <2>1. Observe(<<e>>)
      BY <1>1
    <2> HIDE DEF e, d, n, u, b
    <2>2. Knows(Tell(Readers, e), Active, n, subscribed, d, u, b)
      BY <1>5, <1>6, TellUnheeded
    <2>3. Knows(Tell(Readers, e), Active', Cardinality(effects'), subscribed', d, u, b)
      BY <1>2, <1>3, <2>2 DEF n
    <2>4. QED
      BY <1>6, <2>1, <2>3, InformsOfOne
  <1>8. ProgramTypes' /\ Ended'
    BY <1>2, <1>3, <1>4 DEF TelemetryInvariant, ProgramTypes, Ended
  <1>9. Balanced'
    <2>1. depth' = depth /\ Unreported' = Unreported
      BY <1>3 DEF depth, Unreported
    <2>2. QED
      BY <1>2, <1>3, <1>7, <2>1 DEF TelemetryInvariant, Balanced
  <1>10. QED
    BY <1>2, <1>7, <1>8, <1>9 DEF TelemetryInvariant

LEMMA ReapSilentlyStep ==
    ASSUME TelemetryInvariant, NEW r \in running, ReapSilently(r)
    PROVE  TelemetryInvariant'
  <1>1. /\ EffectTypeOK' /\ EntriesHaveFutures' /\ Finitely'
        /\ Active' = Active /\ effects' = effects
    BY StaleKeeps DEF ReapSilently
  <1>2. /\ status' = status /\ turn' = turn /\ updated' = updated /\ subscribed' = subscribed
        /\ externals' = externals /\ internals' = internals /\ sending' = sending /\ Silent
    BY DEF ReapSilently, programVars
  <1>3. status # "unmounted"
    BY DEF TelemetryInvariant, Ended
  <1>4. Informed' /\ known' = known /\ meters' = meters
    BY <1>1, <1>2, SilentInforms DEF TelemetryInvariant, Silent
  <1>5. ProgramTypes' /\ Ended'
    BY <1>1, <1>2, <1>3 DEF TelemetryInvariant, ProgramTypes, Ended
  <1>6. Balanced'
    <2>1. depth' = depth /\ Unreported' = Unreported
      BY <1>2 DEF depth, Unreported
    <2>2. QED
      BY <1>1, <1>2, <1>4, <2>1 DEF TelemetryInvariant, Balanced
  <1>7. QED
    BY <1>1, <1>4, <1>5, <1>6 DEF TelemetryInvariant

LEMMA UnmountStep ==
    ASSUME TelemetryInvariant, Unmount
    PROVE  TelemetryInvariant'
  <1> DEFINE e == Event("ProgramUnmounted")
             d == known.depth
             n == Cardinality(effects)
             u == meters.running
             b == meters.subscribed
  <1>1. /\ EffectTypeOK' /\ EntriesHaveFutures' /\ Finitely'
        /\ Active' = {} /\ effects' = {} /\ running' = {}
    BY DropTasksCounts DEF Unmount, DropTasks, TelemetryInvariant, ProgramTypes
  <1>2. /\ status' = "unmounted" /\ turn = "idle" /\ turn' = turn /\ updated' = updated
        /\ subscribed' = {} /\ externals' = 0 /\ internals' = 0 /\ sending' = sending
        /\ Observe(<<e>>)
    BY DEF Unmount
  <1>3. e.name = "ProgramUnmounted" /\ e.emitted \in BOOLEAN /\ e.action = "none"
    BY EventFields
  <1>4. /\ Informed /\ d \in Int /\ n \in Int /\ u \in Nat /\ b \in Nat
        /\ Knows(Readers, Active, n, subscribed, d, u, b)
    BY InformedFacts
  <1>5. Informed'
    <2> HIDE DEF e, d, n, u, b
    <2>1. Knows(Tell(Readers, e), {}, 0, {}, 0, u, b)
      BY <1>3, <1>4, TellUnmounted
    <2>2. Cardinality(effects') = 0
      BY <1>1, FS_EmptySet
    <2>3. Knows(Tell(Readers, e), Active', Cardinality(effects'), subscribed', 0, u, b)
      BY <1>1, <1>2, <2>1, <2>2
    <2>4. QED
      BY <1>2, <1>4, <2>3, InformsOfOne
  <1>6. ProgramTypes' /\ Ended'
    BY <1>1, <1>2, TelemetryAssumption DEF TelemetryInvariant, ProgramTypes, Ended
  <1>7. Balanced'
    BY <1>2 DEF Balanced
  <1>8. QED
    BY <1>1, <1>5, <1>6, <1>7 DEF TelemetryInvariant


-----------------------------------------------------------------------------
(* The theorems.                                                           *)

LEMMA TelemetryInit == Init => TelemetryInvariant
  <1> SUFFICES ASSUME Init PROVE TelemetryInvariant
    OBVIOUS
  <1>1. /\ EffectTypeOK /\ EntriesHaveFutures
        /\ Active = {} /\ effects = {} /\ running = {}
    BY EffectTypeInit, EntriesInit DEF Init, EffectInit, Active
  <1>2. /\ known = Nothing /\ log = Nothing /\ meters = [running |-> 0, subscribed |-> 0]
        /\ status = "mounting" /\ turn = "init" /\ updated = FALSE
        /\ externals = 0 /\ internals = 0 /\ subscribed = {}
        /\ sending = [t \in Threads |-> <<>>]
    BY DEF Init
  <1>3. IsFiniteSet({}) /\ Cardinality({}) = 0
    BY FS_EmptySet
  <1>4. ProgramTypes /\ Ended /\ Finitely
    <2>1. <<>> \in Reports
      BY DEF Reports
    <2>2. sending \in [Threads -> Reports]
      BY <1>2, <2>1
    <2>3. 0 \in 0..MaxDepth
      BY TelemetryAssumption
    <2>4. QED
      BY <1>1, <1>2, <1>3, <2>2, <2>3 DEF ProgramTypes, Ended, Finitely
  <1>5. Informed
    <2>1. IsView(Nothing)
      BY DEF IsView, Nothing
    <2>2. /\ Readers.known = Nothing /\ Readers.log = Nothing
          /\ Readers.meters = [running |-> 0, subscribed |-> 0]
      BY <1>2 DEF Readers
    <2>3. Shaped(Readers)
      BY <2>1, <2>2 DEF Shaped
    <2>4. Knows(Readers, {}, 0, {}, 0, 0, 0)
      BY <2>2 DEF Knows, Sees, Nothing
    <2>5. known.depth = 0 /\ meters.running = 0 /\ meters.subscribed = 0
      BY <1>2 DEF Nothing
    <2>6. QED
      BY <1>1, <1>2, <1>3, <2>3, <2>4, <2>5 DEF Informed
  <1>6. Balanced
    <2> DEFINE f == [t \in Threads |-> Untold(sending[t])]
    <2>1. \A t \in Threads : f[t] \in {0}
      BY <1>2, UntoldNothing
    <2>2. Unreported = Total(f, Threads)
      BY DEF Unreported
    <2> HIDE DEF f
    <2>3. Unreported \in {0}
      BY <2>1, <2>2, TelemetryAssumption, TotalType
    <2>4. known.depth = 0 /\ meters.running = 0 /\ meters.subscribed = 0 /\ depth = 0
      BY <1>2 DEF Nothing, depth
    <2>5. QED
      BY <1>1, <1>2, <1>3, <2>3, <2>4 DEF Balanced
  <1>7. QED
    BY <1>1, <1>4, <1>5, <1>6 DEF TelemetryInvariant

LEMMA TelemetryStep == TelemetryInvariant /\ [Next]_vars => TelemetryInvariant'
  <1> SUFFICES ASSUME TelemetryInvariant, [Next]_vars PROVE TelemetryInvariant'
    OBVIOUS
  <1>1. CASE UNCHANGED vars
    <2>1. /\ UNCHANGED effectVars
          /\ status' = status /\ turn' = turn /\ updated' = updated /\ subscribed' = subscribed
          /\ externals' = externals /\ internals' = internals /\ sending' = sending
          /\ known' = known /\ log' = log /\ meters' = meters
      BY <1>1 DEF vars, programVars
    <2>2. /\ EffectTypeOK' /\ EntriesHaveFutures' /\ Finitely'
          /\ Active' = Active /\ effects' = effects /\ running' = running
      BY <2>1, RegistriesKept
    <2>3. Informed'
      BY <2>1, <2>2, SilentInforms DEF TelemetryInvariant, Silent
    <2>4. ProgramTypes' /\ Ended'
      BY <2>1, <2>2 DEF TelemetryInvariant, ProgramTypes, Ended
    <2>5. Balanced'
      <3>1. depth' = depth /\ Unreported' = Unreported
        BY <2>1 DEF depth, Unreported
      <3>2. QED
        BY <2>1, <2>2, <3>1 DEF TelemetryInvariant, Balanced
    <2>6. QED
      BY <2>2, <2>3, <2>4, <2>5 DEF TelemetryInvariant
  <1>2. ASSUME NEW t \in Threads, Offer(t) \/ Send(t) PROVE TelemetryInvariant'
    BY <1>2, OfferStep, SendStep
  <1>3. CASE ExecuteEmit \/ ExecuteEffect
    BY <1>3, ExecuteEmitStep, ExecuteEffectStep
  <1>4. ASSUME NEW k \in Keys, ExecuteKeyed(k) \/ ExecuteCancel(k) PROVE TelemetryInvariant'
    BY <1>4, ExecuteKeyedStep, ExecuteCancelStep
  <1>5. CASE FinishInit \/ BeginDrain \/ Process \/ CommandDone \/ FinishDrain
    BY <1>5, FinishInitStep, BeginDrainStep, ProcessStep, CommandDoneStep, FinishDrainStep
  <1>6. ASSUME NEW r \in running, Complete(r) \/ IgnoreStale(r) \/ ReapSilently(r)
        PROVE  TelemetryInvariant'
    BY <1>6, CompleteStep, IgnoreStaleStep, ReapSilentlyStep
  <1>7. CASE Unmount
    BY <1>7, UnmountStep
  <1>8. QED
    BY <1>1, <1>2, <1>3, <1>4, <1>5, <1>6, <1>7 DEF Next

LEMMA TelemetryAlways == Spec => []TelemetryInvariant
  BY TelemetryInit, TelemetryStep, PTL DEF Spec

\* No reader ever counts effects, tasks or subscriptions below zero, and the views
\* only hold keys and subscriptions there are (adapters.rs).
THEOREM TelemetryTypesCorrect == Spec => []TypeOK
  <1>1. TelemetryInvariant => TypeOK
    <2> SUFFICES ASSUME TelemetryInvariant PROVE TypeOK
      OBVIOUS
    <2>1. /\ Informed /\ known.depth \in Int /\ Cardinality(effects) \in Nat
          /\ meters.running \in Nat /\ meters.subscribed \in Nat
          /\ Knows(Readers, Active, Cardinality(effects), subscribed,
                   known.depth, meters.running, meters.subscribed)
      BY InformedFacts
    <2>2. subscribed \subseteq Sources /\ Active \subseteq Keys
      BY DEF TelemetryInvariant, ProgramTypes, Active
    <2>3. Readers.known = known /\ Readers.log = log /\ Readers.meters = meters
      BY DEF Readers
    <2>4. known \in Views
      BY <2>1, <2>2, <2>3 DEF Informed, Shaped, IsView, Knows, Sees, Views
    <2>5. log \in Views
      BY <2>1, <2>2, <2>3 DEF Informed, Shaped, IsView, Knows, Sees, Views
    <2>6. meters \in [running : Nat, subscribed : Nat]
      BY <2>1, <2>3 DEF Informed, Shaped
    <2>7. QED
      BY <2>4, <2>5, <2>6 DEF TelemetryInvariant, ProgramTypes, TypeOK
  <1>2. QED
    BY <1>1, TelemetryAlways, PTL

\* Whoever folds the runtime events, and whoever reads the log, knows the tasks, the
\* effects, the subscriptions and, but for what dispatchers have yet to report, the
\* depth of the queue (program.rs, dispatcher.rs, subscription_registry.rs,
\* adapters.rs).
THEOREM ObserversAlwaysKnow == Spec => []ObserversKnow
  <1>1. TelemetryInvariant => ObserversKnow
    <2> SUFFICES ASSUME TelemetryInvariant PROVE ObserversKnow
      OBVIOUS
    <2>1. /\ Knows(Readers, Active, Cardinality(effects), subscribed,
                   known.depth, meters.running, meters.subscribed)
          /\ Readers.known = known /\ Readers.log = log
      BY InformedFacts DEF Readers
    <2>2. \A view \in {known, log} :
            Sees(view, Active, Cardinality(effects), subscribed, known.depth)
      BY <2>1 DEF Knows
    <2>3. status # "unmounted" => known.depth + Unreported = depth
      BY DEF TelemetryInvariant, Balanced
    <2>4. QED
      BY <2>2, <2>3 DEF ObserversKnow, Sees, Active
  <1>2. QED
    BY <1>1, TelemetryAlways, PTL

\* The counters balance as long as the program is mounted: started less completed,
\* replaced and canceled are the tracked effects, and built less removed the active
\* subscriptions (MetricsAdapter::observe).
THEOREM CountersAlwaysBalance == Spec => []CountersBalance
  <1>1. TelemetryInvariant => CountersBalance
    BY DEF TelemetryInvariant, Balanced, CountersBalance, Active
  <1>2. QED
    BY <1>1, TelemetryAlways, PTL

=============================================================================
