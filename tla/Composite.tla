------------------------------ MODULE Composite ------------------------------
(***************************************************************************)
(* Nested models: a struct that derives Composite is compiled, mounted and *)
(* run.  This composes the parser (CompositeDerive), the code it generates *)
(* (gpui_tea_macros/src/expand.rs), the scopes that the generated code     *)
(* calls (scope.rs), and the commands and subscriptions that pass through  *)
(* them (Commands, subscription.rs).                                       *)
(*                                                                         *)
(* The root is the struct derived; a field of type "Panel" derives         *)
(* Composite itself, one of type "Leaf" is a model without children.  A    *)
(* model is known by the positions of the fields on the way to it.  Every  *)
(* model uses the same local key for its effects and the same for its      *)
(* subscription.  The program's two queues and its registries, which       *)
(* Program and EffectTracking model, are one queue and two sets here, and  *)
(* a turn is one step.                                                     *)
(***************************************************************************)
EXTENDS CompositeDerive, Commands, FiniteSetsExt

CONSTANTS
    Inputs,      \* declarations of the root
    PanelInput,  \* the declaration behind the type "Panel"
    InitReplies, \* what init may return, beside the children's commands
    Replies,     \* what update may return
    MaxPending,  \* bound: messages in the queue
    MaxInFlight  \* bound: effects in flight

ReplyNames == {"quiet", "emit", "load", "work", "cancel", "once", "reload", "both"}

ASSUME ReplyAssumption == InitReplies \subseteq ReplyNames /\ Replies \subseteq ReplyNames

\* What a declaration can be; the type of a field is a model.
Fields == [name : [raw : BOOLEAN, text : STRING], type : {"Panel", "Leaf"},
           attrs : Seq(Attributes)]
Declarations == [data : STRING, attrs : Seq(Attributes), fields : Seq(Fields)]

\* "Panel" implements Model, so its own derive succeeded.
ASSUME InputAssumption ==
    /\ Inputs \subseteq Declarations
    /\ PanelInput \in Declarations
    /\ ParseComposite(PanelInput).errors = <<>>

VARIABLES
    stage,         \* "source", "rejected", "compiled" or "mounted"
    input,         \* the declaration, as long as the compiler has it
    errors,        \* what the derive reports of it
    children,      \* the ChildSpecs of the root
    panel,         \* the ChildSpecs of the type "Panel"
    pending,       \* messages of the root's type to be processed
    tasks,         \* keyed effects in flight: key and effect
    effects,       \* effects without a key in flight
    subscriptions, \* the subscriptions active: key and the message one sends
    panicked,      \* the expect of the generated code failed
    busy,          \* history: the models of which a keyed effect is in flight, as
                   \* each of them would count if it were alone
    replied,       \* history: the replies of the last turn, in order
    executed,      \* history: the commands executed in the last turn
    handled        \* history: the message processed in the last turn, and by whom

vars == <<stage, input, errors, children, panel, pending, tasks, effects, subscriptions,
          panicked, busy, replied, executed, handled>>

-----------------------------------------------------------------------------
(* The tree of models.                                                     *)

RootModel == <<>>

\* The children of a model.
SpecsOf(n) ==
    CASE n = RootModel -> children
      [] Len(n) = 1 /\ children[n[1]].type = "Panel" -> panel
      [] OTHER -> <<>>

Models ==
    {RootModel} \cup {<<i>> : i \in 1..Len(children)}
      \cup UNION {{<<i, j>> : j \in 1..Len(SpecsOf(<<i>>))} : i \in 1..Len(children)}

SpecOf(n) == SpecsOf(Front(n))[Last(n)]

\* The models on the way down to a model, and those on the way up from it.
Ancestors(n) == [k \in 1..Len(n) |-> SubSeq(n, 1, k)]
Upwards(n) == [k \in 1..Len(n) |-> SubSeq(n, 1, Len(n) + 1 - k)]

\* The ModelContext each model is called with: a child's is made by scope.
ContextOf(n) ==
    FoldLeft(LAMBDA context, m : Scope(context, SpecOf(m).path), RootContext, Ancestors(n))

-----------------------------------------------------------------------------
(* Messages.  One is what a model sends to itself, lifted by the           *)
(* constructors of its ancestors' message types.                           *)

Local(n) == [route |-> <<>>, from |-> n]

Extracts(spec, message) == message.route # <<>> /\ Head(message.route) = spec.extract

Unwrap(message) == [message EXCEPT !.route = Tail(@)]

\* ChildScope::dispatcher: the root's dispatcher, mapped once per level.
Dispatched(n) == FoldLeft(LAMBDA message, m : Lift(SpecOf(m).lift, message), Local(n), Upwards(n))

\* The first child whose extract takes the message, or none.
Matching(n, message) ==
    {i \in 1..Len(SpecsOf(n)) : Extracts(SpecsOf(n)[i], message)}

\* Mutant of FirstMatch: the last child that matches.
LastMatch(n, message) == Max(Matching(n, message))

\* __composite_update: first-match-wins in field declaration order.
FirstMatch(n, message) == Min(Matching(n, message))

\* update from the root down: a message that no child takes comes back as it was,
\* and the model handles it itself.
Routed(message) ==
    LET at[k \in 0..Len(message.route)] ==
          IF k = 0 THEN [by |-> RootModel, message |-> message]
          ELSE LET n == at[k - 1].by
                   m == at[k - 1].message
               IN  IF Matching(n, m) = {} THEN at[k - 1]
                   ELSE [by |-> Append(n, FirstMatch(n, m)), message |-> Unwrap(m)]
    IN  at[Len(message.route)]

-----------------------------------------------------------------------------
(* Commands and subscriptions on their way up.                             *)

\* ChildScope::init and ChildScope::update, after the child's own.
InScope(n, command) ==
    MapCommand(ScopeCommand(command, ContextOf(n)), SpecOf(n).lift)

Ascend(n, command) == FoldLeft(LAMBDA c, m : InScope(m, c), command, Upwards(n))

\* The key each model uses for its effects and for its subscription.
LocalKey == NewKey("k")

\* Commands that models return.
ReplyCommand(n, reply) ==
    CASE reply = "quiet" -> None
      [] reply = "emit" -> Label(Emit(Local(n)), "emit")
      [] reply = "load" -> Label(BackgroundKeyed(LocalKey, n, Local(n)), "load")
      [] reply = "work" -> PerformKeyed(LocalKey, n)
      [] reply = "cancel" -> CancelKey(LocalKey)
      [] reply = "once" -> Label(Batch(<<None, Background(n, Local(n))>>), "once")
      [] reply = "reload" ->
           Batch(<<Label(Batch(<<Label(CancelKey(LocalKey), "stop"), None,
                                 ForegroundKeyed(LocalKey, n, Local(n))>>), "lost"),
                   Label(Emit(Local(n)), "emit")>>)
      [] reply = "both" ->
           Batch(<<Label(Perform(n), "log"), Batch(<<Emit(Local(n)), Foreground(n, Local(n))>>)>>)

\* __composite_init of the tree, each model with children batching its own reply
\* behind theirs.
InitCommand(reply) ==
    LET of[n \in Models] ==
          LET inits == [i \in 1..Len(SpecsOf(n)) |->
                          InScope(Append(n, i), of[Append(n, i)])]
          IN  IF inits = <<>> THEN ReplyCommand(n, reply[n])
              ELSE Batch(<<Batch(inits), ReplyCommand(n, reply[n])>>)
    IN  of[RootModel]

\* Subscriptions::push, with the expect of the generated code.
Push(set, subscription) ==
    IF \E i \in 1..Len(set.list) : set.list[i].key = subscription.key
      THEN [set EXCEPT !.panics = TRUE]
      ELSE [set EXCEPT !.list = Append(@, subscription)]

\* ChildScope::subscriptions: Subscription::scoped, then Subscription::map.
SubscriptionInScope(n, subscription) ==
    [key |-> ScopedKey(subscription.key, ContextOf(n)),
     message |-> Lift(SpecOf(n).lift, subscription.message)]

\* __composite_subscriptions of the tree, each model adding its own to its children's.
Declared ==
    LET of[n \in Models] ==
          LET fromChild(i) ==
                [j \in 1..Len(of[Append(n, i)].list) |->
                   SubscriptionInScope(Append(n, i), of[Append(n, i)].list[j])]
              all == FlattenSeq([i \in 1..Len(SpecsOf(n)) |-> fromChild(i)])
                       \o <<[key |-> LocalKey, message |-> Local(n)]>>
              panics == \E i \in 1..Len(SpecsOf(n)) : of[Append(n, i)].panics
          IN  FoldLeft(Push, [list |-> <<>>, panics |-> panics], all)
    IN  of[RootModel]

-----------------------------------------------------------------------------
(* Execution.                                                              *)

\* execute_command of one command that is no batch.
ExecuteLeaf(state, leaf) ==
    LET variant == leaf.inner.variant
    IN  CASE variant = "Emit" -> [state EXCEPT !.pending = Append(@, leaf.inner.message)]
          [] variant = "Effect" -> [state EXCEPT !.effects = @ \cup {leaf.inner.effect}]
          [] variant = "Keyed" ->
               [state EXCEPT !.tasks = {t \in @ : t.key # leaf.inner.key}
                   \cup {[key |-> leaf.inner.key, effect |-> leaf.inner.effect]}]
          [] variant = "Cancel" ->
               [state EXCEPT !.tasks = {t \in @ : t.key # leaf.inner.key}]

\* execute_command of one command after the other.
ExecuteAll(state, leaves) == FoldLeft(ExecuteLeaf, state, leaves)

\* What a turn does with the command it has to execute, and the bounds; one more is
\* that no model has two effects of one shape without a key in flight.
Execute(command, queue) ==
    LET before == [pending |-> queue, tasks |-> tasks, effects |-> effects]
        leaves == Leaves(command)
        after == ExecuteAll(before, leaves)
        started == {i \in 1..Len(leaves) : leaves[i].inner.variant = "Effect"}
    IN  /\ Len(after.pending) <= MaxPending
        /\ Cardinality(after.effects) = Cardinality(effects) + Cardinality(started)
        /\ Cardinality(after.tasks) + Cardinality(after.effects) <= MaxInFlight
        /\ pending' = after.pending
        /\ tasks' = after.tasks
        /\ effects' = after.effects
        /\ executed' = leaves

\* The commands of a reply as its author meant them, one after the other.
Meant(n, reply) ==
    CASE reply = "quiet" -> <<>>
      [] reply = "emit" -> <<Label(Emit(Local(n)), "emit")>>
      [] reply = "load" -> <<Label(BackgroundKeyed(LocalKey, n, Local(n)), "load")>>
      [] reply = "work" -> <<PerformKeyed(LocalKey, n)>>
      [] reply = "cancel" -> <<CancelKey(LocalKey)>>
      [] reply = "once" -> <<Label(Background(n, Local(n)), "once")>>
      [] reply = "reload" ->
           <<Label(CancelKey(LocalKey), "stop"), ForegroundKeyed(LocalKey, n, Local(n)),
             Label(Emit(Local(n)), "emit")>>
      [] reply = "both" ->
           <<Label(Perform(n), "log"), Emit(Local(n)), Foreground(n, Local(n))>>

\* The models whose keyed effect is in flight after a command that model n meant, and
\* after some replies, if none interferes with another.
BusyAfterCommand(n, who, command) ==
    CASE command.inner.variant = "Keyed" -> who \cup {n}
      [] command.inner.variant = "Cancel" -> who \ {n}
      [] OTHER -> who

BusyAfterReply(who, r) ==
    FoldLeft(LAMBDA w, c : BusyAfterCommand(r.model, w, c), who, Meant(r.model, r.reply))

BusyAfter(who, replies) == FoldLeft(BusyAfterReply, who, replies)

Replying(replies) ==
    /\ replied' = replies
    /\ busy' = BusyAfter(busy, replies)

NothingReplied ==
    /\ replied' = <<>>
    /\ executed' = <<>>
    /\ handled' = {}

-----------------------------------------------------------------------------
(* Actions.                                                                *)

NoInput == [data |-> "none", attrs |-> <<>>, fields |-> <<>>]

Init ==
    /\ stage = "source"
    /\ input \in Inputs
    /\ errors = <<>> /\ children = <<>> /\ panel = <<>>
    /\ pending = <<>> /\ tasks = {} /\ effects = {} /\ subscriptions = <<>>
    /\ panicked = FALSE
    /\ busy = {} /\ replied = <<>> /\ executed = <<>> /\ handled = {}

\* derive_composite: the helpers are generated, or compile errors and none of them.
Expand(parsed) ==
    /\ errors' = parsed.errors
    /\ children' = IF parsed.errors = <<>> THEN parsed.children ELSE <<>>
    /\ stage' = IF parsed.errors = <<>> THEN "compiled" ELSE "rejected"

Derive ==
    /\ stage = "source"
    /\ Expand(ParseComposite(input))
    /\ panel' = ParseComposite(PanelInput).children
    /\ UNCHANGED <<input, pending, tasks, effects, subscriptions, panicked, busy,
                   replied, executed, handled>>

\* Every model with its init reply, children before parents.
InOrder(reply) ==
    LET below(n) == [i \in 1..Len(SpecsOf(n)) |-> Append(n, i)]
        with(n) == FlattenSeq([i \in 1..Len(below(n)) |-> Append(below(below(n)[i]), below(n)[i])])
        order == Append(with(RootModel), RootModel)
    IN  [k \in 1..Len(order) |-> [model |-> order[k], reply |-> reply[order[k]]]]

\* Program::mount_with: init's command is executed, the subscriptions are built.
Mount ==
    /\ stage = "compiled"
    /\ stage' = "mounted"
    /\ input' = NoInput
    /\ \E reply \in [Models -> InitReplies] :
         /\ Execute(InitCommand(reply), <<>>)
         /\ Replying(InOrder(reply))
    /\ LET declared == Declared
       IN  /\ subscriptions' = declared.list
           /\ panicked' = declared.panics
    /\ handled' = {}
    /\ UNCHANGED <<errors, children, panel>>

\* A turn processes a message: update of the model it is routed to replies, and what
\* it replies is executed.  The models declare the same subscriptions as before.
Process ==
    /\ pending # <<>>
    /\ LET to == Routed(Head(pending))
       IN  /\ handled' = {[message |-> Head(pending), by |-> to.by, as |-> to.message]}
           /\ \E reply \in Replies :
                /\ Execute(Ascend(to.by, ReplyCommand(to.by, reply)), Tail(pending))
                /\ Replying(<<[model |-> to.by, reply |-> reply]>>)
    /\ UNCHANGED <<stage, input, errors, children, panel, subscriptions, panicked>>

Enqueue(messages) ==
    /\ Len(pending) + Cardinality(messages) <= MaxPending
    /\ pending' = IF messages = {} THEN pending ELSE Append(pending, CHOOSE m \in messages : TRUE)

\* apply_completion of a keyed effect that is current.
CompleteTask ==
    /\ \E t \in tasks :
         /\ tasks' = tasks \ {t}
         /\ Enqueue(t.effect.output)
         /\ busy' = busy \ {t.effect.body}
    /\ NothingReplied
    /\ UNCHANGED <<stage, input, errors, children, panel, effects, subscriptions, panicked>>

\* apply_completion of an effect without a key.
CompleteEffect ==
    /\ \E e \in effects :
         /\ effects' = effects \ {e}
         /\ Enqueue(e.output)
    /\ NothingReplied
    /\ UNCHANGED <<stage, input, errors, children, panel, tasks, subscriptions, panicked, busy>>

\* A subscription sends its model's message through the dispatcher that its builder
\* was given.
SubscriptionFires ==
    /\ \E i \in 1..Len(subscriptions) : Enqueue({subscriptions[i].message})
    /\ NothingReplied
    /\ UNCHANGED <<stage, input, errors, children, panel, tasks, effects, subscriptions,
                   panicked, busy>>

\* A view sends its model's message through the dispatcher of its scope.
ViewDispatches ==
    /\ stage = "mounted"
    /\ \E n \in Models : Enqueue({Dispatched(n)})
    /\ NothingReplied
    /\ UNCHANGED <<stage, input, errors, children, panel, tasks, effects, subscriptions,
                   panicked, busy>>

Next ==
    \/ Derive
    \/ Mount
    \/ Process
    \/ CompleteTask
    \/ CompleteEffect
    \/ SubscriptionFires
    \/ ViewDispatches

Spec == Init /\ [][Next]_vars

-----------------------------------------------------------------------------
(* Properties.                                                             *)

TypeOK ==
    /\ stage \in {"source", "rejected", "compiled", "mounted"}
    /\ input \in Inputs \cup {NoInput}
    /\ \A i \in 1..Len(errors) : errors[i].site \in 0..Len(input.fields)
    /\ \A i \in 1..Len(children) : children[i].path # "" /\ children[i].type \in {"Panel", "Leaf"}
    /\ \A i \in 1..Len(pending) : pending[i].from \in Models
    /\ \A t \in tasks : t.effect.body \in Models /\ t.effect.kind \in {"Foreground", "Background"}
    /\ \A e \in effects : e.body \in Models /\ Cardinality(e.output) <= 1
    /\ panicked \in BOOLEAN
    /\ busy \subseteq Models

\* What a declaration has to look like, without the parser's walk through it.
Count(metas, name) ==
    Cardinality({i \in 1..Len(metas) : metas[i].form = "NameValue" /\ metas[i].name = name})

MetasOf(attrs, name) ==
    FlattenSeq([i \in 1..Len(attrs) |-> IF attrs[i].name = name THEN attrs[i].metas ELSE <<>>])

Has(attrs, name) == \E i \in 1..Len(attrs) : attrs[i].name = name

Parse(attrs, name) == \A i \in 1..Len(attrs) : attrs[i].name = name => attrs[i].parses

ValueOf(metas, name) == (CHOOSE m \in ToSet(metas) : m.name = name).value

GoodStruct(attrs) ==
    LET metas == MetasOf(attrs, "composite")
    IN  /\ ~Has(attrs, "child") /\ Parse(attrs, "composite")
        /\ Len(metas) = 1 /\ Count(metas, "message") = 1
        /\ ValueOf(metas, "message").literal = "None"

GoodChild(attrs) ==
    LET metas == MetasOf(attrs, "child")
    IN  /\ Parse(attrs, "child")
        /\ Len(metas) = 3
        /\ \A name \in {"path", "lift", "extract"} : Count(metas, name) = 1
        /\ ValueOf(metas, "path").literal = "Str" /\ ValueOf(metas, "path").text # ""

GoodField(attrs) == ~Has(attrs, "composite") /\ (Has(attrs, "child") => GoodChild(attrs))

DeclaredChildren(fields) ==
    {i \in 1..Len(fields) : Has(fields[i].attrs, "child") /\ GoodField(fields[i].attrs)}

PathOfField(field) == ValueOf(MetasOf(field.attrs, "child"), "path").text

\* The places where a declaration is wrong.
Culprits(decl) ==
    LET fields == decl.fields
        bad == {i \in 1..Len(fields) : ~GoodField(fields[i].attrs)}
        repeated == {i \in DeclaredChildren(fields) : \E j \in DeclaredChildren(fields) :
                       /\ j < i
                       /\ \/ fields[i].name.text = fields[j].name.text
                          \/ PathOfField(fields[i]) = PathOfField(fields[j])}
    IN  IF ~GoodStruct(decl.attrs) \/ decl.data # "Named" THEN {0} ELSE bad \cup repeated

\* The derive accepts exactly the declarations that are well formed, with the children
\* as declared, and of another it reports every place that is wrong and no other, in
\* one go (parse_composite, and the errors it combines).
ParserExact ==
    /\ stage = "compiled" =>
         /\ Culprits(input) = {}
         /\ {children[i].field : i \in 1..Len(children)} = DeclaredChildren(input.fields)
         /\ \A i, j \in 1..Len(children) : i < j => children[i].field < children[j].field
         /\ \A i \in 1..Len(children) :
              LET metas == MetasOf(input.fields[children[i].field].attrs, "child")
              IN  /\ children[i].path = ValueOf(metas, "path").text
                  /\ children[i].lift = ValueOf(metas, "lift").text
                  /\ children[i].extract = ValueOf(metas, "extract").text
    /\ stage = "rejected" =>
         {errors[i].site : i \in 1..Len(errors)} = Culprits(input) /\ Culprits(input) # {}

\* The declarations on the way to a model allow its messages to find it: extract takes
\* what lift builds, and no earlier sibling's extract does.
Reachable(n) ==
    \A k \in 1..Len(n) :
        LET specs == SpecsOf(SubSeq(n, 1, k - 1))
        IN  /\ specs[n[k]].extract = specs[n[k]].lift
            /\ \A i \in 1..(n[k] - 1) : specs[i].extract # specs[n[k]].lift

\* A message a model sends to itself, by a command, an effect, a subscription or its
\* view, is handled by this model, as it was sent: what ChildScope lifts on the way up
\* is what __composite_update extracts on the way down.
MessagesComeHome ==
    \A h \in handled :
        LET n == h.message.from
        IN  Reachable(n) => h.by = n /\ h.as = Local(n)

\* "sibling models can reuse the same local identifiers without colliding" (key.rs):
\* each model's keyed effect is in flight exactly when it would be if the model were
\* alone, and no two subscriptions of different models collide (the expect in
\* subscription_step), although all use the same local keys.
KeysStayApart ==
    /\ {t.effect.body : t \in tasks} = busy
    /\ Cardinality(tasks) = Cardinality(busy)
    /\ ~panicked

\* A command as the program should see it, from what the author of a model wrote: its
\* key under the declared path of the model, its message lifted once per level.
AtRoot(n, command) ==
    LET specs == [k \in 1..Len(n) |-> SpecsOf(SubSeq(n, 1, k - 1))[n[k]]]
        path == [k \in 1..Len(n) |-> specs[k].path]
        message == [route |-> [k \in 1..Len(n) |-> specs[k].lift], from |-> n]
        key == IF n = RootModel THEN LocalKey
               ELSE [id |-> path \o <<"#", "k">>, child_path |-> path, local_id |-> <<"k">>]
        inner == command.inner
    IN  CASE inner.variant = "Emit" -> [command EXCEPT !.inner.message = message]
          [] inner.variant = "Cancel" -> [command EXCEPT !.inner.key = key]
          [] inner.variant = "Effect" ->
               [command EXCEPT !.inner.effect.output = IF @ = {} THEN {} ELSE {message}]
          [] inner.variant = "Keyed" ->
               [command EXCEPT !.inner.effect.output = IF @ = {} THEN {} ELSE {message},
                               !.inner.key = key]

\* However models batch, nest and label their commands, and through however many
\* scopes these pass, what is executed is what the authors wrote, in that order, with
\* the labels of the single commands (Command::batch, map and scoped).
CompositionIsTransparent ==
    executed =
      FlattenSeq([k \in 1..Len(replied) |->
        LET meant == Meant(replied[k].model, replied[k].reply)
        IN  [j \in 1..Len(meant) |-> AtRoot(replied[k].model, meant[j])]])

=============================================================================
