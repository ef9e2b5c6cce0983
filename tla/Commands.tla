------------------------------- MODULE Commands -------------------------------
(***************************************************************************)
(* The commands that init and update return (command.rs), what batch, map, *)
(* label and scoped make of them, and the order in which execute_command   *)
(* (program.rs) visits what is left.                                       *)
(*                                                                         *)
(* An effect is a closure: the kind of its executor, its body, of which    *)
(* only matters who wrote it, and its output, an Option of a message, here *)
(* a set of at most one message.  batch is the only way to build a batch   *)
(* and it flattens its arguments, so no batch has a batch in it, and map   *)
(* and scoped need no recursion.                                           *)
(***************************************************************************)
EXTENDS ScopedKeys, SequencesExt

NoLabel == "<none>"

Command(inner) == [inner |-> inner, label |-> NoLabel]

EffectOf(kind, body, output) == [kind |-> kind, body |-> body, output |-> output]

None == Command([variant |-> "None"])
Emit(message) == Command([variant |-> "Emit", message |-> message])
EffectCommand(effect) == Command([variant |-> "Effect", effect |-> effect])
KeyedEffect(key, effect) == Command([variant |-> "Keyed", key |-> key, effect |-> effect])
CancelKey(key) == Command([variant |-> "Cancel", key |-> key])

Foreground(body, message) == EffectCommand(EffectOf("Foreground", body, {message}))
Background(body, message) == EffectCommand(EffectOf("Background", body, {message}))
Perform(body) == EffectCommand(EffectOf("Foreground", body, {}))
ForegroundKeyed(key, body, message) ==
    KeyedEffect(key, EffectOf("Foreground", body, {message}))
BackgroundKeyed(key, body, message) ==
    KeyedEffect(key, EffectOf("Background", body, {message}))
PerformKeyed(key, body) == KeyedEffect(key, EffectOf("Foreground", body, {}))

Label(command, label) == [command EXCEPT !.label = label]

\* What batch takes from one of its arguments: the members of a batch, whose own
\* label is lost, nothing of None, and any other command as it is.
Members(command) ==
    CASE command.inner.variant = "Batch" -> command.inner.commands
      [] command.inner.variant = "None" -> <<>>
      [] OTHER -> <<command>>

\* One command is returned as it is, with its label.
OfFlat(commands) ==
    CASE commands = <<>> -> None
      [] Len(commands) = 1 -> commands[1]
      [] OTHER -> Command([variant |-> "Batch", commands |-> commands])

\* Command::batch.
Batch(commands) ==
    OfFlat(FlattenSeq([i \in 1..Len(commands) |-> Members(commands[i])]))

-----------------------------------------------------------------------------
(* map and scoped.  Both keep the label.                                   *)

\* map_effect: the mapper is applied to the output of the future, if there is one.
MapEffect(effect, lift) == [effect EXCEPT !.output = {Lift(lift, message) : message \in @}]

MapSingle(command, lift) ==
    CASE command.inner.variant = "Emit" -> [command EXCEPT !.inner.message = Lift(lift, @)]
      [] command.inner.variant \in {"Effect", "Keyed"} ->
           [command EXCEPT !.inner.effect = MapEffect(@, lift)]
      [] OTHER -> command

\* Command::map, by the lift of a scope.
MapCommand(command, lift) ==
    IF command.inner.variant = "Batch"
      THEN [command EXCEPT !.inner.commands = [i \in DOMAIN @ |-> MapSingle(@[i], lift)]]
      ELSE MapSingle(command, lift)

\* Mutant of ScopeSingle: cancellations keep the local key.
ScopeSingleUncanceled(command, path) ==
    IF command.inner.variant = "Keyed"
      THEN [command EXCEPT !.inner.key = ScopedKey(@, path)]
      ELSE command

ScopeSingle(command, path) ==
    IF command.inner.variant \in {"Keyed", "Cancel"}
      THEN [command EXCEPT !.inner.key = ScopedKey(@, path)]
      ELSE command

\* Command::scoped.
ScopeCommand(command, path) ==
    IF IsRoot(path) THEN command
    ELSE IF command.inner.variant = "Batch"
      THEN [command EXCEPT !.inner.commands = [i \in DOMAIN @ |-> ScopeSingle(@[i], path)]]
    ELSE ScopeSingle(command, path)

-----------------------------------------------------------------------------

\* The commands that execute_command executes, in order.
Leaves(command) == Members(command)

=============================================================================
