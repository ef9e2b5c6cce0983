------------------------- MODULE MetricsGaugesProofs -------------------------
(***************************************************************************)
(* Theorems about MetricsGauges, for any number of programs, threads and   *)
(* labels.                                                                 *)
(***************************************************************************)
EXTENDS MetricsGauges, CollectionsProofs

-----------------------------------------------------------------------------
(* The inductive invariant.                                                *)

\* TypeOK before it is known that the series are sums of naturals.
GaugeTypes ==
    /\ status \in [Programs -> {"new", "mounted", "unmounted"}]
    /\ depth \in [Programs -> 0..MaxDepth]
    /\ subs \in [Programs -> 0..MaxSubscriptions]
    /\ turn \in {NoTurn} \cup [stage : Stages, program : Programs]
    /\ emitting \in [Actors -> [program : Programs, kinds : Seq(Kinds)]]
    /\ flight \in [Actors -> {NoEvent} \cup Events]
    /\ gauges \in [Programs -> Gauges]
    /\ series \in [Labels -> [queue_depth : Int, active_subscriptions : Int]]
    /\ threaded \subseteq Programs

Plain(kinds) == \A i \in DOMAIN kinds : kinds[i] = "plain"

\* The events of the other threads change the depth alone, and of threaded programs.
ThreadsArePlain ==
    \A a \in Threads :
        /\ Plain(emitting[a].kinds)
        /\ emitting[a].kinds # <<>> => emitting[a].program \in threaded
        /\ flight[a] # NoEvent =>
             /\ flight[a].program \in threaded
             /\ flight[a].queue_depth # Absent
             /\ flight[a].active_subscriptions = Absent

\* A program whose turn it is is mounted; one that is gone has nothing left.
StatusFollows ==
    /\ turn # NoTurn => status[turn.program] = "mounted"
    /\ \A p \in Programs : status[p] = "unmounted" => depth[p] = 0 /\ subs[p] = 0

\* The reports of the foreground thread that change the count come alone, and the
\* unmount comes after the program is gone.
ReportsComeAlone ==
    LET e == emitting[Foreground]
    IN  \/ Plain(e.kinds)
        \/ e.kinds = <<"reconciled">> /\ flight[Foreground] = NoEvent
        \/ /\ e.kinds = <<"unmounted">> /\ flight[Foreground] = NoEvent
           /\ status[e.program] = "unmounted"

\* An event of the foreground thread is still true when the adapter applies it.
EventsAreCurrent ==
    LET v == flight[Foreground]
    IN  v # NoEvent =>
          /\ v.active_subscriptions \in {Absent, subs[v.program]}
          /\ v.queue_depth = Absent =>
               v.active_subscriptions = Absent /\ status[v.program] = "unmounted"
          /\ v.queue_depth # Absent /\ v.program \notin threaded =>
               v.queue_depth = depth[v.program]

\* The foreground thread is about to report the subscriptions of p.
CountReported(p) ==
    \/ /\ emitting[Foreground].program = p
       /\ emitting[Foreground].kinds \in {<<"reconciled">>, <<"unmounted">>}
    \/ /\ flight[Foreground] # NoEvent
       /\ flight[Foreground].program = p
       /\ \/ flight[Foreground].active_subscriptions # Absent
          \/ flight[Foreground].queue_depth = Absent

\* The foreground thread is about to report the depth of p.
DepthReported(p) ==
    \/ emitting[Foreground].program = p /\ emitting[Foreground].kinds # <<>>
    \/ flight[Foreground] # NoEvent /\ flight[Foreground].program = p
    \/ turn # NoTurn /\ turn.program = p

GaugesFollow ==
    \A p \in Programs :
        /\ gauges[p].active_subscriptions = subs[p] \/ CountReported(p)
        /\ p \notin threaded => gauges[p].queue_depth = depth[p] \/ DepthReported(p)

GaugeInvariant ==
    /\ GaugeTypes
    /\ ThreadsArePlain
    /\ StatusFollows
    /\ ReportsComeAlone
    /\ EventsAreCurrent
    /\ GaugesFollow


LEMMA ActorFacts == Foreground \in Actors /\ Foreground \notin Threads /\ Threads \subseteq Actors
  BY MetricsAssumption DEF Actors, Foreground

\* Reports of events that look the same to the gauges.
LEMMA PlainReports ==
    \A n \in 0..3 :
        /\ [i \in 1..n |-> "plain"] \in Seq(Kinds)
        /\ Plain([i \in 1..n |-> "plain"])
        /\ n # 0 => [i \in 1..n |-> "plain"] # <<>>
  <1> SUFFICES ASSUME NEW n \in 0..3
               PROVE  /\ [i \in 1..n |-> "plain"] \in Seq(Kinds)
                      /\ Plain([i \in 1..n |-> "plain"])
                      /\ n # 0 => [i \in 1..n |-> "plain"] # <<>>
    OBVIOUS
  <1>1. [i \in 1..n |-> "plain"] \in Seq(Kinds)
    BY DEF Kinds
  <1>2. Plain([i \in 1..n |-> "plain"])
    BY DEF Plain
  <1>3. n # 0 => [i \in 1..n |-> "plain"] # <<>>
    OBVIOUS
  <1>4. QED
    BY <1>1, <1>2, <1>3

LEMMA PlainTail ==
    ASSUME NEW kinds \in Seq(Kinds), kinds # <<>>, Plain(kinds)
    PROVE  Tail(kinds) \in Seq(Kinds) /\ Plain(Tail(kinds)) /\ Head(kinds) = "plain"
  BY DEF Plain

\* A single report.
LEMMA SingleReports ==
    \A k \in Kinds :
        /\ <<k>> \in Seq(Kinds) /\ <<k>> # <<>> /\ Head(<<k>>) = k /\ Tail(<<k>>) = <<>>
        /\ Plain(<<k>>) <=> k = "plain"
  BY DEF Plain

LEMMA NothingIsPlain == Plain(<<>>) /\ <<>> \in Seq(Kinds)
  BY DEF Plain

-----------------------------------------------------------------------------
(* Types.                                                                  *)

LEMMA EventTypes ==
    ASSUME GaugeTypes, NEW a \in Actors, flight[a] # NoEvent
    PROVE  /\ flight[a] \in Events
           /\ Contribution(gauges[flight[a].program], flight[a]) \in Gauges
  <1>1. flight[a] \in Events
    BY DEF GaugeTypes
  <1>2. gauges[flight[a].program] \in Gauges
    BY <1>1 DEF GaugeTypes, Events
  <1>3. QED
    BY <1>1, <1>2 DEF Contribution, Events, Gauges, NoGauges, Absent

\* A report replaces what one thread has to emit.
LEMMA Reporting ==
    ASSUME GaugeTypes, NEW a \in Actors, NEW p \in Programs, NEW kinds \in Seq(Kinds),
           Report(a, p, kinds)
    PROVE  /\ emitting' \in [Actors -> [program : Programs, kinds : Seq(Kinds)]]
           /\ emitting'[a].program = p /\ emitting'[a].kinds = kinds
           /\ \A b \in Actors : b # a => emitting'[b] = emitting[b]
  BY DEF GaugeTypes, Report

\* A thread emits what it has to emit from the front.
LEMMA Emitting ==
    ASSUME GaugeTypes, NEW a \in Actors, Emit(a)
    PROVE  /\ emitting' \in [Actors -> [program : Programs, kinds : Seq(Kinds)]]
           /\ emitting'[a].program = emitting[a].program
           /\ emitting'[a].kinds = Tail(emitting[a].kinds)
           /\ \A b \in Actors : b # a => emitting'[b] = emitting[b]
  <1> DEFINE t == Tail(emitting[a].kinds)
  <1>1. t \in Seq(Kinds)
    BY DEF Emit, GaugeTypes
  <1>2. emitting' = [emitting EXCEPT ![a].kinds = t]
    BY DEF Emit
  <1>3. emitting \in [Actors -> [program : Programs, kinds : Seq(Kinds)]]
    BY DEF GaugeTypes
  <1> HIDE DEF t
  <1>4. /\ emitting' \in [Actors -> [program : Programs, kinds : Seq(Kinds)]]
        /\ emitting'[a].program = emitting[a].program
        /\ emitting'[a].kinds = t
        /\ \A b \in Actors : b # a => emitting'[b] = emitting[b]
    BY <1>1, <1>2, <1>3
  <1>5. QED
    BY <1>4 DEF t

\* What the three outcomes of a dispatch have in common.
LEMMA Dispatching ==
    ASSUME GaugeTypes, NEW a \in Actors, NEW p \in Programs,
           DispatchAccepted(a, p) \/ DispatchDisplacing(a, p) \/ DispatchRefused(a, p)
    PROVE  /\ Ready(a)
           /\ \E kinds \in Seq(Kinds) : Plain(kinds) /\ kinds # <<>> /\ Report(a, p, kinds)
           /\ \E d \in 0..MaxDepth :
                /\ depth' = [depth EXCEPT ![p] = d]
                /\ status[p] # "mounted" => d = depth[p]
           /\ MarkThreaded(a, p)
           /\ UNCHANGED <<status, subs, turn, flight, gauges, series>>
  <1>1. depth[p] \in 0..MaxDepth /\ depth = [depth EXCEPT ![p] = depth[p]]
    BY DEF GaugeTypes
  <1>2. CASE DispatchAccepted(a, p)
    <2>1. PICK n \in 1..2 : Report(a, p, [i \in 1..n |-> "plain"])
      BY <1>2 DEF DispatchAccepted
    <2>2. \E kinds \in Seq(Kinds) : Plain(kinds) /\ kinds # <<>> /\ Report(a, p, kinds)
      BY <2>1, PlainReports
    <2>3. depth[p] + 1 \in 0..MaxDepth
      BY <1>1, <1>2, MetricsAssumption DEF DispatchAccepted
    <2>4. QED
      BY <1>2, <2>2, <2>3 DEF DispatchAccepted
  <1>3. CASE DispatchDisplacing(a, p)
    <2>1. PICK n \in 2..3 : Report(a, p, [i \in 1..n |-> "plain"])
      BY <1>3 DEF DispatchDisplacing
    <2>2. \E kinds \in Seq(Kinds) : Plain(kinds) /\ kinds # <<>> /\ Report(a, p, kinds)
      BY <2>1, PlainReports
    <2>3. QED
      BY <1>1, <1>3, <2>2 DEF DispatchDisplacing
  <1>4. CASE DispatchRefused(a, p)
    <2>1. <<"plain">> \in Seq(Kinds) /\ Plain(<<"plain">>) /\ <<"plain">> # <<>>
      BY SingleReports DEF Kinds
    <2>2. \E kinds \in Seq(Kinds) : Plain(kinds) /\ kinds # <<>> /\ Report(a, p, kinds)
      BY <1>4, <2>1 DEF DispatchRefused
    <2>3. QED
      BY <1>1, <1>4, <2>2 DEF DispatchRefused
  <1>5. QED
    BY <1>2, <1>3, <1>4

LEMMA TypesKept ==
    ASSUME GaugeTypes, [Next]_vars PROVE GaugeTypes'
  <1> USE DEF GaugeTypes
  <1>1. ASSUME NEW a \in Actors, Emit(a) PROVE GaugeTypes'
    <2> DEFINE p == emitting[a].program
               event == [program |-> p,
                         queue_depth |->
                            IF Head(emitting[a].kinds) = "unmounted" THEN Absent ELSE depth[p],
                         active_subscriptions |->
                            IF Head(emitting[a].kinds) = "reconciled" THEN subs[p] ELSE Absent]
    <2>1. event \in Events
      <3>1. p \in Programs /\ depth[p] \in Nat /\ subs[p] \in Nat
        BY MetricsAssumption
      <3> HIDE DEF p
      <3>2. QED
        BY <3>1 DEF Events
    <2> HIDE DEF event
    <2>2. flight' = [flight EXCEPT ![a] = event]
      BY <1>1 DEF Emit, event
    <2>4. emitting' \in [Actors -> [program : Programs, kinds : Seq(Kinds)]]
      BY <1>1, Emitting
    <2>5. flight' \in [Actors -> {NoEvent} \cup Events]
      BY <2>1, <2>2
    <2>6. QED
      BY <1>1, <2>4, <2>5 DEF Emit
  <1>2. ASSUME NEW a \in Actors, Observe(a) PROVE GaugeTypes'
    <2> DEFINE p == flight[a].program
               next == Contribution(gauges[p], flight[a])
    <2>1. flight[a] # NoEvent /\ flight' = [flight EXCEPT ![a] = NoEvent]
      BY <1>2 DEF Observe
    <2>2. p \in Programs /\ next \in Gauges /\ gauges[p] \in Gauges
      BY <2>1, EventTypes DEF Events
    <2>3. LabelOf[p] \in Labels
      BY <2>2, MetricsAssumption
    <2> HIDE DEF next
    <2>4. gauges' \in [Programs -> Gauges]
      BY <1>2, <2>2 DEF Observe, next
    <2>5. series' \in [Labels -> [queue_depth : Int, active_subscriptions : Int]]
      <3> DEFINE total == [queue_depth |-> series[LabelOf[p]].queue_depth
                                           + (next.queue_depth - gauges[p].queue_depth),
                           active_subscriptions |->
                              series[LabelOf[p]].active_subscriptions
                              + (next.active_subscriptions - gauges[p].active_subscriptions)]
      <3>1. series' = [series EXCEPT ![LabelOf[p]] = total]
        BY <1>2 DEF Observe, next, Adjust
      <3>2. total \in [queue_depth : Int, active_subscriptions : Int]
        <4>1. series[LabelOf[p]] \in [queue_depth : Int, active_subscriptions : Int]
          BY <2>3
        <4>2. /\ series[LabelOf[p]].queue_depth \in Int
              /\ series[LabelOf[p]].active_subscriptions \in Int
          BY <4>1
        <4>3. /\ next.queue_depth \in Int /\ next.active_subscriptions \in Int
              /\ gauges[p].queue_depth \in Int /\ gauges[p].active_subscriptions \in Int
          BY <2>2 DEF Gauges
        <4> HIDE DEF p
        <4>4. QED
          BY ONLY <4>2, <4>3
      <3> HIDE DEF total
      <3>3. QED
        BY <3>1, <3>2
    <2>6. QED
      BY <1>2, <2>1, <2>4, <2>5 DEF Observe
  <1>3. ASSUME NEW a \in Actors, NEW p \in Programs,
               DispatchAccepted(a, p) \/ DispatchDisplacing(a, p) \/ DispatchRefused(a, p)
        PROVE  GaugeTypes'
    <2>1. PICK kinds \in Seq(Kinds) : Report(a, p, kinds)
      BY <1>3, Dispatching
    <2>2. emitting' \in [Actors -> [program : Programs, kinds : Seq(Kinds)]]
      BY <2>1, Reporting
    <2>3. PICK d \in 0..MaxDepth : depth' = [depth EXCEPT ![p] = d]
      BY <1>3, Dispatching
    <2>4. UNCHANGED <<status, subs, turn, flight, gauges, series>> /\ MarkThreaded(a, p)
      BY <1>3, Dispatching
    <2>5. QED
      BY <2>2, <2>3, <2>4 DEF MarkThreaded
  <1>4. ASSUME NEW p \in Programs, Mount(p) PROVE GaugeTypes'
    BY <1>4 DEF Mount, GoTo, Stages
  <1>5. ASSUME NEW p \in Programs, BeginDrain(p) \/ FinishDrain(p) PROVE GaugeTypes'
    <2>1. emitting' \in [Actors -> [program : Programs, kinds : Seq(Kinds)]]
      <3>1. <<"plain">> \in Seq(Kinds)
        BY SingleReports DEF Kinds
      <3>2. Report(Foreground, p, <<"plain">>)
        BY <1>5 DEF BeginDrain, FinishDrain
      <3>3. QED
        BY <3>1, <3>2, ActorFacts, Reporting
    <2>2. turn' \in {NoTurn} \cup [stage : Stages, program : Programs]
      BY <1>5 DEF BeginDrain, FinishDrain, GoTo, Stages
    <2>3. QED
      BY <1>5, <2>1, <2>2 DEF BeginDrain, FinishDrain
  <1>6. ASSUME NEW p \in Programs, Process(p) PROVE GaugeTypes'
    <2>1. emitting' \in [Actors -> [program : Programs, kinds : Seq(Kinds)]]
      BY <1>6, SingleReports, ActorFacts DEF Process, Report, Kinds
    <2>2. depth' \in [Programs -> 0..MaxDepth]
      BY <1>6, MetricsAssumption DEF Process
    <2>3. QED
      BY <1>6, <2>1, <2>2 DEF Process, GoTo, Stages
  <1>7. ASSUME NEW p \in Programs, EnqueueInternal(p) PROVE GaugeTypes'
    <2>1. emitting' \in [Actors -> [program : Programs, kinds : Seq(Kinds)]]
      BY <1>7, PlainReports, ActorFacts DEF EnqueueInternal, Report
    <2>2. depth' \in [Programs -> 0..MaxDepth]
      BY <1>7, MetricsAssumption DEF EnqueueInternal
    <2>3. QED
      BY <1>7, <2>1, <2>2 DEF EnqueueInternal
  <1>8. ASSUME NEW p \in Programs, Reconcile(p) PROVE GaugeTypes'
    <2>1. emitting' \in [Actors -> [program : Programs, kinds : Seq(Kinds)]]
      BY <1>8, SingleReports, ActorFacts DEF Reconcile, Report, Kinds
    <2>2. turn' \in {NoTurn} \cup [stage : Stages, program : Programs]
      BY <1>8 DEF Reconcile, GoTo, Stages
    <2>3. QED
      BY <1>8, <2>1, <2>2 DEF Reconcile
  <1>9. ASSUME NEW p \in Programs, Unmount(p) PROVE GaugeTypes'
    <2>1. emitting' \in [Actors -> [program : Programs, kinds : Seq(Kinds)]]
      BY <1>9, SingleReports, ActorFacts DEF Unmount, Report, Kinds
    <2>2. status' \in [Programs -> {"new", "mounted", "unmounted"}]
      BY <1>9 DEF Unmount
    <2>3. /\ depth' \in [Programs -> 0..MaxDepth]
          /\ subs' \in [Programs -> 0..MaxSubscriptions]
      BY <1>9, MetricsAssumption DEF Unmount
    <2>4. QED
      BY <1>9, <2>1, <2>2, <2>3 DEF Unmount
  <1>10. CASE UNCHANGED vars
    BY <1>10 DEF vars
  <1>11. QED
    BY <1>1, <1>2, <1>3, <1>4, <1>5, <1>6, <1>7, <1>8, <1>9, <1>10 DEF Next

-----------------------------------------------------------------------------
(* Each series is the sum over the programs that share its labels.         *)

Sharing(l) == {p \in Programs : LabelOf[p] = l}
Depths == [p \in Programs |-> gauges[p].queue_depth]
Counts == [p \in Programs |-> gauges[p].active_subscriptions]

LEMMA SharingFacts ==
    \A l \in Labels : IsFiniteSet(Sharing(l)) /\ Sharing(l) \subseteq Programs
  BY MetricsAssumption, FS_Subset DEF Sharing

LEMMA SeriesMeans ==
    SeriesIsSum <=> \A l \in Labels :
        /\ series[l].queue_depth = Total(Depths, Sharing(l))
        /\ series[l].active_subscriptions = Total(Counts, Sharing(l))
  BY DEF SeriesIsSum, Depths, Counts, Sharing

LEMMA SeriesStartsEmpty ==
    Init => SeriesIsSum
  <1> SUFFICES ASSUME Init, NEW l \in Labels
               PROVE  /\ series[l].queue_depth = Total(Depths, Sharing(l))
                      /\ series[l].active_subscriptions = Total(Counts, Sharing(l))
    BY SeriesMeans
  <1> DEFINE S == Sharing(l)
  <1>1. IsFiniteSet(S) /\ S \subseteq Programs
    BY SharingFacts
  <1>2. \A p \in Programs : Depths[p] \in {0} /\ Counts[p] \in {0}
    BY DEF Init, Depths, Counts, NoGauges
  <1> HIDE DEF S
  <1>3. \A s \in SUBSET S : Total(Depths, s) \in {0}
    <2>1. \A x \in S : Depths[x] \in {0}
      BY <1>1, <1>2
    <2>2. QED
      BY <1>1, <2>1, TotalType
  <1>4. \A s \in SUBSET S : Total(Counts, s) \in {0}
    <2>1. \A x \in S : Counts[x] \in {0}
      BY <1>1, <1>2
    <2>2. QED
      BY <1>1, <2>1, TotalType
  <1>5. Total(Depths, S) = 0 /\ Total(Counts, S) = 0
    BY <1>3, <1>4
  <1>6. series[l].queue_depth = 0 /\ series[l].active_subscriptions = 0
    BY DEF Init, NoGauges
  <1>7. QED
    BY <1>5, <1>6 DEF S

LEMMA SeriesKept ==
    ASSUME GaugeTypes, SeriesIsSum, [Next]_vars PROVE SeriesIsSum'
  <1>1. ASSUME NEW a \in Actors, Observe(a) PROVE SeriesIsSum'
    <2> DEFINE p == flight[a].program
               next == Contribution(gauges[p], flight[a])
               previous == gauges[p]
    <2>1. flight[a] # NoEvent
      BY <1>1 DEF Observe
    <2>2. p \in Programs /\ next \in Gauges /\ previous \in Gauges
      BY <2>1, EventTypes DEF Events, GaugeTypes
    <2>3. LabelOf[p] \in Labels
      BY <2>2, MetricsAssumption
    <2>4. gauges' = [gauges EXCEPT ![p] = next]
      BY <1>1 DEF Observe
    <2>5. /\ series'[LabelOf[p]].queue_depth = series[LabelOf[p]].queue_depth
               + (next.queue_depth - previous.queue_depth)
          /\ series'[LabelOf[p]].active_subscriptions = series[LabelOf[p]].active_subscriptions
               + (next.active_subscriptions - previous.active_subscriptions)
          /\ \A l \in Labels : l # LabelOf[p] => series'[l] = series[l]
      BY <1>1, <2>3 DEF Observe, Adjust, GaugeTypes
    <2> HIDE DEF next, previous, p
    <2>6. /\ Depths'[p] = next.queue_depth /\ Counts'[p] = next.active_subscriptions
          /\ Depths[p] = previous.queue_depth /\ Counts[p] = previous.active_subscriptions
          /\ \A x \in Programs : x # p => Depths'[x] = Depths[x] /\ Counts'[x] = Counts[x]
      BY <2>2, <2>4 DEF Depths, Counts, GaugeTypes, previous
    <2>7. \A x \in Programs : /\ Depths'[x] \in Int /\ Depths[x] \in Int
                              /\ Counts'[x] \in Int /\ Counts[x] \in Int
      <3>1. gauges \in [Programs -> Gauges] /\ gauges' \in [Programs -> Gauges]
        BY <2>2, <2>4 DEF GaugeTypes
      <3>2. QED
        BY <3>1 DEF Depths, Counts, Gauges
    <2>8. ASSUME NEW l \in Labels
          PROVE  /\ series'[l].queue_depth = Total(Depths', Sharing(l))
                 /\ series'[l].active_subscriptions = Total(Counts', Sharing(l))
      <3> DEFINE S == Sharing(l)
                 d == Depths
                 e == Depths'
                 c == Counts
                 b == Counts'
      <3>1. IsFiniteSet(S) /\ S \subseteq Programs
        BY SharingFacts
      <3>2. series[l].queue_depth = Total(d, S) /\ series[l].active_subscriptions = Total(c, S)
        BY SeriesMeans
      <3>3. p \in S <=> LabelOf[p] = l
        BY <2>2 DEF Sharing
      <3>4. /\ \A x \in S : e[x] \in Int /\ d[x] \in Int
            /\ \A x \in S : b[x] \in Int /\ c[x] \in Int
            /\ \A x \in S : x # p => e[x] = d[x]
            /\ \A x \in S : x # p => b[x] = c[x]
        BY <2>6, <2>7, <3>1
      <3>5. /\ e[p] - d[p] = next.queue_depth - previous.queue_depth
            /\ b[p] - c[p] = next.active_subscriptions - previous.active_subscriptions
        BY <2>6
      <3> HIDE DEF S, d, e, c, b
      <3>6. CASE LabelOf[p] = l
        <4>1. Total(e, S) = Total(d, S) + (e[p] - d[p])
          BY <3>1, <3>3, <3>4, <3>6, TotalMoves
        <4>2. Total(b, S) = Total(c, S) + (b[p] - c[p])
          BY <3>1, <3>3, <3>4, <3>6, TotalMoves
        <4>3. /\ series'[l].queue_depth = Total(e, S)
              /\ series'[l].active_subscriptions = Total(b, S)
          BY <2>5, <3>2, <3>5, <3>6, <4>1, <4>2
        <4>4. QED
          BY <4>3 DEF S, e, b
      <3>7. CASE LabelOf[p] # l
        <4>1. Total(e, S) = Total(d, S)
          BY <3>1, <3>3, <3>4, <3>7, TotalSame
        <4>2. Total(b, S) = Total(c, S)
          BY <3>1, <3>3, <3>4, <3>7, TotalSame
        <4>3. /\ series'[l].queue_depth = Total(e, S)
              /\ series'[l].active_subscriptions = Total(b, S)
          BY <2>5, <3>2, <3>7, <4>1, <4>2
        <4>4. QED
          BY <4>3 DEF S, e, b
      <3>8. QED
        BY <3>6, <3>7
    <2>9. SeriesIsSum' <=> \A l \in Labels :
            /\ series'[l].queue_depth = Total(Depths', Sharing(l))
            /\ series'[l].active_subscriptions = Total(Counts', Sharing(l))
      BY DEF SeriesIsSum, Depths, Counts, Sharing
    <2>10. QED
      BY <2>8, <2>9
  <1>2. CASE UNCHANGED <<gauges, series>>
    BY <1>2 DEF SeriesIsSum
  <1>3. ASSUME Next PROVE (\E a \in Actors : Observe(a)) \/ UNCHANGED <<gauges, series>>
    <2>1. ASSUME NEW a \in Actors, NEW p \in Programs,
                 DispatchAccepted(a, p) \/ DispatchDisplacing(a, p) \/ DispatchRefused(a, p)
          PROVE  UNCHANGED <<gauges, series>>
      BY <2>1, Dispatching
    <2>2. QED
      BY <1>3, <2>1 DEF Next, Emit, Mount, BeginDrain, Process, EnqueueInternal, Reconcile,
                       FinishDrain, Unmount
  <1>4. QED
    BY <1>1, <1>2, <1>3 DEF vars


-----------------------------------------------------------------------------
(* The gauges follow the programs.                                         *)

\* Between two steps of the foreground thread nothing is about to be reported.
LEMMA IdleIsExact ==
    ASSUME GaugeInvariant, Ready(Foreground), NEW p \in Programs
    PROVE  /\ gauges[p].active_subscriptions = subs[p]
           /\ p \notin threaded =>
                gauges[p].queue_depth = depth[p] \/ (turn # NoTurn /\ turn.program = p)
  <1>1. emitting[Foreground].kinds = <<>> /\ flight[Foreground] = NoEvent
    BY DEF Ready
  <1>2. ~ CountReported(p)
    BY <1>1, SingleReports DEF CountReported
  <1>3. DepthReported(p) => turn # NoTurn /\ turn.program = p
    BY <1>1 DEF DepthReported
  <1>4. QED
    BY <1>2, <1>3 DEF GaugeInvariant, GaugesFollow

\* A step of the foreground thread keeps the invariant when it reports what it changes.
LEMMA ForegroundStep ==
    ASSUME GaugeInvariant, GaugeTypes', StatusFollows', Ready(Foreground),
           UNCHANGED <<flight, gauges, threaded>>,
           NEW p \in Programs, NEW kinds \in Seq(Kinds), Report(Foreground, p, kinds),
           \/ Plain(kinds)
           \/ kinds = <<"reconciled">>
           \/ kinds = <<"unmounted">> /\ status'[p] = "unmounted",
           \A q \in Programs : q # p => depth'[q] = depth[q] /\ subs'[q] = subs[q],
           depth'[p] = depth[p] \/ kinds # <<>> \/ (turn' # NoTurn /\ turn'.program = p),
           subs'[p] = subs[p] \/ kinds \in {<<"reconciled">>, <<"unmounted">>},
           \A q \in Programs : turn # NoTurn /\ turn.program = q =>
              (turn' # NoTurn /\ turn'.program = q) \/ (q = p /\ kinds # <<>>)
    PROVE  GaugeInvariant'
  <1>1. flight'[Foreground] = NoEvent
    BY DEF Ready
  <1>2. /\ emitting'[Foreground].program = p /\ emitting'[Foreground].kinds = kinds
        /\ \A a \in Threads : emitting'[a] = emitting[a]
    BY ActorFacts, Reporting DEF GaugeInvariant
  <1>3. ThreadsArePlain'
    BY <1>2 DEF GaugeInvariant, ThreadsArePlain
  <1>4. ReportsComeAlone'
    BY <1>1, <1>2 DEF ReportsComeAlone
  <1>5. EventsAreCurrent'
    BY <1>1 DEF EventsAreCurrent
  <1>6. ASSUME NEW q \in Programs
        PROVE  /\ gauges'[q].active_subscriptions = subs'[q] \/ CountReported(q)'
               /\ q \notin threaded' => gauges'[q].queue_depth = depth'[q] \/ DepthReported(q)'
    <2>1. /\ gauges[q].active_subscriptions = subs[q]
          /\ q \notin threaded =>
               gauges[q].queue_depth = depth[q] \/ (turn # NoTurn /\ turn.program = q)
      BY IdleIsExact
    <2>2. gauges'[q].active_subscriptions = subs'[q] \/ CountReported(q)'
      BY <1>2, <2>1 DEF CountReported
    <2>3. q \notin threaded' => gauges'[q].queue_depth = depth'[q] \/ DepthReported(q)'
      BY <1>2, <2>1 DEF DepthReported
    <2>4. QED
      BY <2>2, <2>3
  <1>7. GaugesFollow'
    BY <1>6 DEF GaugesFollow
  <1>8. QED
    BY <1>3, <1>4, <1>5, <1>7 DEF GaugeInvariant

LEMMA StatusKept ==
    ASSUME GaugeInvariant, [Next]_vars PROVE StatusFollows'
  <1> USE DEF GaugeInvariant, GaugeTypes, StatusFollows
  <1>1. CASE UNCHANGED <<status, depth, subs, turn>>
    BY <1>1
  <1>2. ASSUME NEW a \in Actors, NEW p \in Programs,
               DispatchAccepted(a, p) \/ DispatchDisplacing(a, p) \/ DispatchRefused(a, p)
        PROVE  StatusFollows'
    BY <1>2, Dispatching
  <1>3. ASSUME NEW p \in Programs, Mount(p) PROVE StatusFollows'
    BY <1>3 DEF Mount, GoTo, NoTurn
  <1>4. ASSUME NEW p \in Programs, BeginDrain(p) PROVE StatusFollows'
    BY <1>4 DEF BeginDrain, GoTo
  <1>5. ASSUME NEW p \in Programs, Process(p) PROVE StatusFollows'
    BY <1>5 DEF Process, GoTo, InStage
  <1>6. ASSUME NEW p \in Programs, EnqueueInternal(p) PROVE StatusFollows'
    BY <1>6 DEF EnqueueInternal, InStage
  <1>7. ASSUME NEW p \in Programs, Reconcile(p) PROVE StatusFollows'
    BY <1>7 DEF Reconcile, GoTo, InStage
  <1>8. ASSUME NEW p \in Programs, FinishDrain(p) PROVE StatusFollows'
    BY <1>8 DEF FinishDrain, InStage
  <1>9. ASSUME NEW p \in Programs, Unmount(p) PROVE StatusFollows'
    BY <1>9 DEF Unmount
  <1>10. QED
    BY <1>1, <1>2, <1>3, <1>4, <1>5, <1>6, <1>7, <1>8, <1>9 DEF Next, vars, Emit, Observe


LEMMA DispatchKeeps ==
    ASSUME GaugeInvariant, [Next]_vars, NEW a \in Actors, NEW p \in Programs,
           DispatchAccepted(a, p) \/ DispatchDisplacing(a, p) \/ DispatchRefused(a, p)
    PROVE  GaugeInvariant'
  <1>1. GaugeTypes' /\ StatusFollows'
    BY TypesKept, StatusKept DEF GaugeInvariant
  <1>2. PICK kinds \in Seq(Kinds) : Plain(kinds) /\ kinds # <<>> /\ Report(a, p, kinds)
    BY Dispatching DEF GaugeInvariant
  <1>3. PICK d \in 0..MaxDepth :
          depth' = [depth EXCEPT ![p] = d] /\ (status[p] # "mounted" => d = depth[p])
    BY Dispatching DEF GaugeInvariant
  <1>4. /\ Ready(a)
        /\ MarkThreaded(a, p)
        /\ UNCHANGED <<status, subs, turn, flight, gauges, series>>
    BY Dispatching DEF GaugeInvariant
  <1>5. \A q \in Programs : q # p => depth'[q] = depth[q]
    BY <1>3 DEF GaugeInvariant, GaugeTypes
  <1>6. CASE a = Foreground
    <2>1. threaded' = threaded
      BY <1>4, <1>6 DEF MarkThreaded
    <2>2. QED
      BY <1>1, <1>2, <1>4, <1>5, <1>6, <2>1, ForegroundStep
  <1>7. CASE a \in Threads
    <2>1. /\ emitting'[a].program = p /\ emitting'[a].kinds = kinds
          /\ \A b \in Actors : b # a => emitting'[b] = emitting[b]
      BY <1>2, Reporting DEF GaugeInvariant
    <2>2. threaded' = threaded \cup {p}
      BY <1>4, <1>7, ActorFacts DEF MarkThreaded
    <2>3. emitting'[Foreground] = emitting[Foreground]
      BY <1>7, <2>1, ActorFacts
    <2>4. ThreadsArePlain'
      <3>1. ASSUME NEW b \in Threads
            PROVE  /\ Plain(emitting'[b].kinds)
                   /\ emitting'[b].kinds # <<>> => emitting'[b].program \in threaded'
        BY <1>2, <2>1, <2>2, ActorFacts DEF GaugeInvariant, ThreadsArePlain
      <3>2. QED
        BY <1>4, <2>2, <3>1 DEF GaugeInvariant, ThreadsArePlain
    <2>5. ReportsComeAlone'
      BY <1>4, <2>3 DEF GaugeInvariant, ReportsComeAlone
    <2>6. EventsAreCurrent'
      <3>1. flight[Foreground] # NoEvent => flight[Foreground].program \in Programs
        BY ActorFacts DEF GaugeInvariant, GaugeTypes, Events
      <3>2. QED
        BY <1>4, <1>5, <2>2, <3>1 DEF GaugeInvariant, EventsAreCurrent
    <2>7. GaugesFollow'
      BY <1>4, <1>5, <2>2, <2>3 DEF GaugeInvariant, GaugesFollow, CountReported, DepthReported
    <2>8. QED
      BY <1>1, <2>4, <2>5, <2>6, <2>7 DEF GaugeInvariant
  <1>8. QED
    BY <1>6, <1>7 DEF Actors

LEMMA TurnKeeps ==
    ASSUME GaugeInvariant, [Next]_vars, NEW p \in Programs,
           \/ Mount(p) \/ BeginDrain(p) \/ Process(p) \/ EnqueueInternal(p)
           \/ Reconcile(p) \/ FinishDrain(p) \/ Unmount(p)
    PROVE  GaugeInvariant'
  <1>1. GaugeTypes' /\ StatusFollows'
    BY TypesKept, StatusKept DEF GaugeInvariant
  <1>2. GaugeTypes
    BY DEF GaugeInvariant
  <1>3. CASE Mount(p)
    <2> DEFINE e == emitting[Foreground]
    <2>1. Ready(Foreground) /\ turn = NoTurn
          /\ UNCHANGED <<depth, subs, emitting, flight, gauges, series, threaded>>
      BY <1>3 DEF Mount
    <2>2. e.program \in Programs /\ e.kinds = <<>> /\ e = [program |-> e.program, kinds |-> <<>>]
      BY <1>2, <2>1, ActorFacts DEF GaugeTypes, Ready
    <2>3. Report(Foreground, e.program, <<>>)
      BY <1>2, <2>1, <2>2, ActorFacts DEF GaugeTypes, Report
    <2> HIDE DEF e
    <2>4. QED
      BY <1>1, <2>1, <2>2, <2>3, NothingIsPlain, ForegroundStep
  <1>4. CASE BeginDrain(p)
    <2>1. /\ Ready(Foreground) /\ (turn = NoTurn \/ turn.program = p)
          /\ turn' # NoTurn /\ turn'.program = p
          /\ Report(Foreground, p, <<"plain">>)
          /\ UNCHANGED <<status, depth, subs, flight, gauges, series, threaded>>
      BY <1>4 DEF BeginDrain, InStage, GoTo, NoTurn
    <2>2. <<"plain">> \in Seq(Kinds) /\ Plain(<<"plain">>)
      BY SingleReports DEF Kinds
    <2>3. QED
      BY <1>1, <2>1, <2>2, ForegroundStep
  <1>5. CASE Process(p)
    <2>1. /\ Ready(Foreground) /\ turn.program = p
          /\ turn' # NoTurn /\ turn'.program = p
          /\ Report(Foreground, p, <<"plain">>)
          /\ UNCHANGED <<status, subs, flight, gauges, series, threaded>>
      BY <1>5 DEF Process, InStage, GoTo, NoTurn
    <2>2. <<"plain">> \in Seq(Kinds) /\ Plain(<<"plain">>)
      BY SingleReports DEF Kinds
    <2>3. \A q \in Programs : q # p => depth'[q] = depth[q]
      BY <1>2, <1>5 DEF Process, GaugeTypes
    <2>4. QED
      BY <1>1, <2>1, <2>2, <2>3, ForegroundStep
  <1>6. CASE EnqueueInternal(p)
    <2>1. /\ Ready(Foreground) /\ turn # NoTurn /\ turn.program = p
          /\ UNCHANGED <<status, subs, turn, flight, gauges, series, threaded>>
      BY <1>6 DEF EnqueueInternal, InStage
    <2>2. PICK n \in 0..1 : Report(Foreground, p, [i \in 1..n |-> "plain"])
      BY <1>6 DEF EnqueueInternal
    <2>3. PICK kinds \in Seq(Kinds) : Plain(kinds) /\ Report(Foreground, p, kinds)
      BY <2>2, PlainReports
    <2>4. \A q \in Programs : q # p => depth'[q] = depth[q]
      BY <1>2, <1>6 DEF EnqueueInternal, GaugeTypes
    <2>5. QED
      BY <1>1, <2>1, <2>3, <2>4, ForegroundStep
  <1>7. CASE Reconcile(p)
    <2>1. /\ Ready(Foreground) /\ turn.program = p
          /\ Report(Foreground, p, <<"reconciled">>)
          /\ UNCHANGED <<status, depth, flight, gauges, series, threaded>>
      BY <1>7 DEF Reconcile, InStage
    <2>2. <<"reconciled">> \in Seq(Kinds) /\ <<"reconciled">> # <<>>
      BY SingleReports DEF Kinds
    <2>3. \A q \in Programs : q # p => subs'[q] = subs[q]
      BY <1>2, <1>7 DEF Reconcile, GaugeTypes
    <2>4. QED
      BY <1>1, <2>1, <2>2, <2>3, ForegroundStep
  <1>8. CASE FinishDrain(p)
    <2>1. /\ Ready(Foreground) /\ turn.program = p
          /\ Report(Foreground, p, <<"plain">>)
          /\ UNCHANGED <<status, depth, subs, flight, gauges, series, threaded>>
      BY <1>8 DEF FinishDrain, InStage
    <2>2. <<"plain">> \in Seq(Kinds) /\ Plain(<<"plain">>) /\ <<"plain">> # <<>>
      BY SingleReports DEF Kinds
    <2>3. QED
      BY <1>1, <2>1, <2>2, ForegroundStep
  <1>9. CASE Unmount(p)
    <2>1. /\ Ready(Foreground) /\ turn = NoTurn
          /\ Report(Foreground, p, <<"unmounted">>)
          /\ UNCHANGED <<turn, flight, gauges, series, threaded>>
      BY <1>9 DEF Unmount
    <2>2. <<"unmounted">> \in Seq(Kinds) /\ <<"unmounted">> # <<>>
      BY SingleReports DEF Kinds
    <2>3. /\ status'[p] = "unmounted"
          /\ \A q \in Programs : q # p => depth'[q] = depth[q] /\ subs'[q] = subs[q]
      BY <1>2, <1>9 DEF Unmount, GaugeTypes
    <2>4. QED
      BY <1>1, <2>1, <2>2, <2>3, ForegroundStep
  <1>10. QED
    BY <1>3, <1>4, <1>5, <1>6, <1>7, <1>8, <1>9

LEMMA EmitKeeps ==
    ASSUME GaugeInvariant, [Next]_vars, NEW a \in Actors, Emit(a)
    PROVE  GaugeInvariant'
  <1> DEFINE p == emitting[a].program
             kinds == emitting[a].kinds
  <1>1. GaugeTypes' /\ StatusFollows'
    BY TypesKept, StatusKept DEF GaugeInvariant
  <1>2. GaugeTypes
    BY DEF GaugeInvariant
  <1>3. /\ kinds # <<>> /\ flight[a] = NoEvent
        /\ UNCHANGED <<status, depth, subs, turn, gauges, series, threaded>>
    BY DEF Emit
  <1>4. p \in Programs /\ kinds \in Seq(Kinds) /\ depth[p] # Absent
    BY <1>2, MetricsAssumption DEF GaugeTypes, Absent
  <1>5. /\ flight'[a] # NoEvent
        /\ flight'[a].program = p
        /\ flight'[a].queue_depth = IF Head(kinds) = "unmounted" THEN Absent ELSE depth[p]
        /\ flight'[a].active_subscriptions =
             IF Head(kinds) = "reconciled" THEN subs[p] ELSE Absent
        /\ \A b \in Actors : b # a => flight'[b] = flight[b]
    BY <1>2 DEF Emit, GaugeTypes, NoEvent
  <1>6. /\ emitting'[a].program = p
        /\ emitting'[a].kinds = Tail(kinds)
        /\ \A b \in Actors : b # a => emitting'[b] = emitting[b]
    BY <1>2, Emitting
  <1>7. CASE a \in Threads
    <2>1. /\ emitting'[Foreground] = emitting[Foreground]
          /\ flight'[Foreground] = flight[Foreground]
      BY <1>5, <1>6, <1>7, ActorFacts
    <2>2. Plain(kinds) /\ p \in threaded
      BY <1>3, <1>7 DEF GaugeInvariant, ThreadsArePlain
    <2>3. Plain(Tail(kinds)) /\ Head(kinds) = "plain"
      BY <1>3, <1>4, <2>2, PlainTail
    <2> HIDE DEF p, kinds
    <2>4. ThreadsArePlain'
      BY <1>3, <1>4, <1>5, <1>6, <2>2, <2>3, ActorFacts DEF GaugeInvariant, ThreadsArePlain
    <2>5. ReportsComeAlone' /\ EventsAreCurrent' /\ GaugesFollow'
      BY <1>3, <2>1 DEF GaugeInvariant, ReportsComeAlone, EventsAreCurrent, GaugesFollow,
                        CountReported, DepthReported
    <2>6. QED
      BY <1>1, <2>4, <2>5 DEF GaugeInvariant
  <1>8. CASE a = Foreground
    <2>1. ThreadsArePlain'
      <3>1. \A b \in Threads : emitting'[b] = emitting[b] /\ flight'[b] = flight[b]
        BY <1>5, <1>6, <1>8, ActorFacts
      <3>2. QED
        BY <1>3, <3>1 DEF GaugeInvariant, ThreadsArePlain
    <2>2. \/ Plain(kinds)
          \/ kinds = <<"reconciled">>
          \/ kinds = <<"unmounted">> /\ status[p] = "unmounted"
      BY <1>8 DEF GaugeInvariant, ReportsComeAlone
    <2>3. CASE Plain(kinds)
      <3>1. Plain(Tail(kinds)) /\ Head(kinds) = "plain"
        BY <1>3, <1>4, <2>3, PlainTail
      <3>2. kinds # <<"reconciled">> /\ kinds # <<"unmounted">>
        BY <2>3, SingleReports DEF Kinds
      <3> HIDE DEF p, kinds
      <3>3. ReportsComeAlone'
        BY <1>6, <1>8, <3>1 DEF ReportsComeAlone
      <3>4. EventsAreCurrent'
        BY <1>3, <1>4, <1>5, <1>8, <3>1 DEF EventsAreCurrent
      <3>5. GaugesFollow'
        <4>1. \A q \in Programs : ~ CountReported(q)
          BY <1>3, <1>8, <3>2 DEF CountReported, kinds
        <4>2. \A q \in Programs : DepthReported(q) => DepthReported(q)'
          BY <1>3, <1>5, <1>8 DEF DepthReported, p
        <4>3. QED
          BY <1>3, <4>1, <4>2 DEF GaugeInvariant, GaugesFollow
      <3>6. QED
        BY <1>1, <2>1, <3>3, <3>4, <3>5 DEF GaugeInvariant
    <2>4. CASE kinds \in {<<"reconciled">>, <<"unmounted">>}
      <3>1. /\ Tail(kinds) = <<>>
            /\ kinds = <<Head(kinds)>>
            /\ Head(kinds) \in {"reconciled", "unmounted"}
        <4>1. PICK k \in {"reconciled", "unmounted"} : kinds = <<k>>
          BY <2>4
        <4> HIDE DEF kinds
        <4>2. QED
          BY <4>1, SingleReports DEF Kinds
      <3>2. Head(kinds) = "unmounted" => status[p] = "unmounted"
        BY <2>2, <3>1, SingleReports DEF Kinds
      <3> HIDE DEF p, kinds
      <3>3. ReportsComeAlone'
        BY <1>6, <1>8, <3>1, NothingIsPlain DEF ReportsComeAlone
      <3>4. EventsAreCurrent'
        BY <1>3, <1>4, <1>5, <1>8, <3>1, <3>2 DEF EventsAreCurrent
      <3>5. GaugesFollow'
        <4>1. subs[p] # Absent
          BY <1>2, <1>4, MetricsAssumption DEF GaugeTypes, Absent
        <4>2. \A q \in Programs : CountReported(q) => CountReported(q)'
          BY <1>3, <1>5, <1>8, <3>1, <4>1 DEF CountReported, p, kinds
        <4>3. \A q \in Programs : DepthReported(q) => DepthReported(q)'
          BY <1>3, <1>5, <1>8 DEF DepthReported, p
        <4>4. QED
          BY <1>3, <4>2, <4>3 DEF GaugeInvariant, GaugesFollow
      <3>6. QED
        BY <1>1, <2>1, <3>3, <3>4, <3>5 DEF GaugeInvariant
    <2>5. QED
      BY <2>2, <2>3, <2>4
  <1>9. QED
    BY <1>7, <1>8 DEF Actors


LEMMA ObserveKeeps ==
    ASSUME GaugeInvariant, [Next]_vars, NEW a \in Actors, Observe(a)
    PROVE  GaugeInvariant'
  <1> DEFINE v == flight[a]
             p == v.program
  <1>1. GaugeTypes' /\ StatusFollows'
    BY TypesKept, StatusKept DEF GaugeInvariant
  <1>2. GaugeTypes
    BY DEF GaugeInvariant
  <1>3. v # NoEvent /\ UNCHANGED <<status, depth, subs, turn, emitting, threaded>>
    BY DEF Observe
  <1>4. p \in Programs
    BY <1>2, <1>3, EventTypes DEF Events
  <1>5. /\ gauges'[p] = Contribution(gauges[p], v)
        /\ \A q \in Programs : q # p => gauges'[q] = gauges[q]
    BY <1>2, <1>4 DEF Observe, GaugeTypes
  <1>6. flight'[a] = NoEvent /\ \A b \in Actors : b # a => flight'[b] = flight[b]
    BY <1>2 DEF Observe, GaugeTypes
  <1>7. ThreadsArePlain'
    BY <1>3, <1>6, ActorFacts DEF GaugeInvariant, ThreadsArePlain
  <1>8. CASE a \in Threads
    <2>1. flight'[Foreground] = flight[Foreground]
      BY <1>6, <1>8, ActorFacts
    <2>2. p \in threaded /\ v.queue_depth # Absent /\ v.active_subscriptions = Absent
      BY <1>3, <1>8 DEF GaugeInvariant, ThreadsArePlain
    <2>3. gauges'[p].active_subscriptions = gauges[p].active_subscriptions
      BY <1>5, <2>2 DEF Contribution
    <2> HIDE DEF p
    <2>4. ReportsComeAlone' /\ EventsAreCurrent'
      BY <1>3, <2>1 DEF GaugeInvariant, ReportsComeAlone, EventsAreCurrent
    <2>5. \A q \in Programs : /\ CountReported(q) => CountReported(q)'
                              /\ DepthReported(q) => DepthReported(q)'
      BY <1>3, <2>1 DEF CountReported, DepthReported
    <2>6. GaugesFollow'
      BY <1>3, <1>5, <2>2, <2>3, <2>5 DEF GaugeInvariant, GaugesFollow
    <2>7. QED
      BY <1>1, <1>7, <2>4, <2>6 DEF GaugeInvariant
  <1>9. CASE a = Foreground
    <2>1. Plain(emitting[Foreground].kinds)
      BY <1>3, <1>9 DEF GaugeInvariant, ReportsComeAlone
    <2>2. emitting[Foreground].kinds \notin {<<"reconciled">>, <<"unmounted">>}
      BY <2>1, SingleReports DEF Kinds
    <2>3. /\ v.active_subscriptions \in {Absent, subs[p]}
          /\ v.queue_depth = Absent => v.active_subscriptions = Absent /\ depth[p] = 0 /\ subs[p] = 0
          /\ v.queue_depth # Absent /\ p \notin threaded => v.queue_depth = depth[p]
      BY <1>3, <1>4, <1>9 DEF GaugeInvariant, EventsAreCurrent, StatusFollows
    <2>4. ReportsComeAlone' /\ EventsAreCurrent'
      BY <1>3, <1>6, <1>9, <2>1 DEF ReportsComeAlone, EventsAreCurrent
    <2>5. \A q \in Programs : q # p => ~ CountReported(q)
      BY <1>9, <2>2 DEF CountReported
    <2>6. \A q \in Programs : q # p /\ DepthReported(q) => DepthReported(q)'
      BY <1>3, <1>9 DEF DepthReported
    <2>7. gauges'[p].active_subscriptions = subs[p]
      <3>1. CASE v.active_subscriptions # Absent
        BY <1>5, <2>3, <3>1 DEF Contribution
      <3>2. CASE v.active_subscriptions = Absent /\ v.queue_depth = Absent
        BY <1>5, <2>3, <3>2 DEF Contribution, NoGauges
      <3>3. CASE v.active_subscriptions = Absent /\ v.queue_depth # Absent
        <4>1. ~ CountReported(p)
          BY <1>9, <2>2, <3>3 DEF CountReported
        <4>2. gauges[p].active_subscriptions = subs[p]
          BY <1>4, <4>1 DEF GaugeInvariant, GaugesFollow
        <4>3. QED
          BY <1>5, <3>3, <4>2 DEF Contribution
      <3>4. QED
        BY <3>1, <3>2, <3>3
    <2>8. p \notin threaded => gauges'[p].queue_depth = depth[p]
      BY <1>5, <2>3 DEF Contribution, NoGauges
    <2> HIDE DEF p
    <2>9. GaugesFollow'
      BY <1>3, <1>5, <2>5, <2>6, <2>7, <2>8 DEF GaugeInvariant, GaugesFollow
    <2>10. QED
      BY <1>1, <1>7, <2>4, <2>9 DEF GaugeInvariant
  <1>10. QED
    BY <1>8, <1>9 DEF Actors

LEMMA GaugesStart ==
    Init => GaugeInvariant
  <1> SUFFICES ASSUME Init PROVE GaugeInvariant
    OBVIOUS
  <1>1. GaugeTypes
    <2>1. (CHOOSE p \in Programs : TRUE) \in Programs
      BY MetricsAssumption
    <2>2. /\ 0 \in 0..MaxDepth /\ 0 \in 0..MaxSubscriptions
          /\ NoGauges \in Gauges
          /\ NoGauges \in [queue_depth : Int, active_subscriptions : Int]
      BY MetricsAssumption DEF NoGauges, Gauges
    <2>3. QED
      BY <2>1, <2>2, NothingIsPlain DEF Init, GaugeTypes
  <1>2. /\ \A a \in Actors : emitting[a].kinds = <<>> /\ flight[a] = NoEvent
        /\ turn = NoTurn
        /\ \A p \in Programs : /\ status[p] = "new" /\ depth[p] = 0 /\ subs[p] = 0
                               /\ gauges[p].queue_depth = 0 /\ gauges[p].active_subscriptions = 0
    BY DEF Init, NoGauges
  <1>3. QED
    BY <1>1, <1>2, ActorFacts, NothingIsPlain
       DEF GaugeInvariant, ThreadsArePlain, StatusFollows, ReportsComeAlone, EventsAreCurrent,
           GaugesFollow

LEMMA GaugesKept ==
    GaugeInvariant /\ [Next]_vars => GaugeInvariant'
  <1> SUFFICES ASSUME GaugeInvariant, [Next]_vars PROVE GaugeInvariant'
    OBVIOUS
  <1>1. CASE UNCHANGED vars
    BY <1>1 DEF vars, GaugeInvariant, GaugeTypes, ThreadsArePlain, StatusFollows,
                ReportsComeAlone, EventsAreCurrent, GaugesFollow, CountReported, DepthReported
  <1>2. CASE Next
    BY <1>2, EmitKeeps, ObserveKeeps, DispatchKeeps, TurnKeeps DEF Next
  <1>3. QED
    BY <1>1, <1>2

LEMMA GaugesAlwaysFollow == Spec => [](GaugeInvariant /\ SeriesIsSum)
  <1>1. Init => GaugeInvariant /\ SeriesIsSum
    BY GaugesStart, SeriesStartsEmpty
  <1>2. GaugeInvariant /\ SeriesIsSum /\ [Next]_vars => (GaugeInvariant /\ SeriesIsSum)'
    BY GaugesKept, SeriesKept DEF GaugeInvariant
  <1>3. QED
    BY <1>1, <1>2, PTL DEF Spec

-----------------------------------------------------------------------------
(* Theorems.                                                               *)

\* "Each series reports the sum over the programs that share its labels": the deltas
\* that the threads apply add up, however the events of the programs interleave.
THEOREM SeriesAlwaysSum == Spec => []SeriesIsSum
  BY GaugesAlwaysFollow, PTL

\* The types of the state; a series never becomes negative, because it is a sum of
\* depths and counts.
THEOREM GaugeTypesCorrect == Spec => []TypeOK
  <1>1. GaugeInvariant /\ SeriesIsSum => TypeOK
    <2> SUFFICES ASSUME GaugeInvariant, SeriesIsSum PROVE TypeOK
      OBVIOUS
    <2>1. \A p \in Programs : Depths[p] \in Nat /\ Counts[p] \in Nat
      BY DEF GaugeInvariant, GaugeTypes, Gauges, Depths, Counts
    <2>2. ASSUME NEW l \in Labels
          PROVE  series[l].queue_depth \in Nat /\ series[l].active_subscriptions \in Nat
      <3> DEFINE S == Sharing(l)
      <3>1. IsFiniteSet(S) /\ S \subseteq Programs
        BY SharingFacts
      <3>2. series[l].queue_depth = Total(Depths, S)
            /\ series[l].active_subscriptions = Total(Counts, S)
        BY SeriesMeans
      <3> HIDE DEF S
      <3>3. (\A x \in S : Depths[x] \in Nat) /\ (\A x \in S : Counts[x] \in Nat)
        BY <2>1, <3>1
      <3>4. \A s \in SUBSET S : Total(Depths, s) \in Nat
        BY <3>1, <3>3, TotalType
      <3>5. \A s \in SUBSET S : Total(Counts, s) \in Nat
        BY <3>1, <3>3, TotalType
      <3>6. QED
        BY <3>2, <3>4, <3>5
    <2>3. series \in [Labels -> [queue_depth : Int, active_subscriptions : Int]]
      BY DEF GaugeInvariant, GaugeTypes
    <2>4. series \in [Labels -> Gauges]
      BY <2>2, <2>3 DEF Gauges
    <2>5. QED
      BY <2>4 DEF GaugeInvariant, GaugeTypes, TypeOK
  <1>2. QED
    BY <1>1, GaugesAlwaysFollow, PTL

\* The events of other threads, whenever they are applied, neither erase nor bring back
\* a count: when the foreground thread has reported, the recorded count is the real one.
THEOREM SubscriptionsAlwaysExact == Spec => []SubscriptionsExact
  <1>1. GaugeInvariant => SubscriptionsExact
    BY IdleIsExact DEF SubscriptionsExact
  <1>2. QED
    BY <1>1, GaugesAlwaysFollow, PTL

\* A program that only the foreground thread dispatches to is recorded exactly when that
\* thread is idle, and leaves nothing behind when it is unmounted.
THEOREM ForegroundAlwaysSettles == Spec => []ForegroundSettled
  <1>1. GaugeInvariant => ForegroundSettled
    <2> SUFFICES ASSUME GaugeInvariant, Ready(Foreground), turn = NoTurn,
                        NEW p \in Programs \ threaded
                 PROVE  /\ gauges[p].queue_depth = depth[p]
                        /\ status[p] = "unmounted" => gauges[p] = NoGauges
      BY DEF ForegroundSettled
    <2>1. gauges[p].queue_depth = depth[p] /\ gauges[p].active_subscriptions = subs[p]
      BY IdleIsExact
    <2>2. status[p] = "unmounted" => depth[p] = 0 /\ subs[p] = 0
      BY DEF GaugeInvariant, StatusFollows
    <2>3. gauges[p] \in Gauges
      BY DEF GaugeInvariant, GaugeTypes
    <2>4. status[p] = "unmounted" => gauges[p] = NoGauges
      BY <2>1, <2>2, <2>3 DEF Gauges, NoGauges
    <2>5. QED
      BY <2>1, <2>4
  <1>2. QED
    BY <1>1, GaugesAlwaysFollow, PTL

=============================================================================
