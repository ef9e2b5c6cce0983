----------------------------- MODULE ProgramTurns -----------------------------
(***************************************************************************)
(* Program with what its drains are measured by: history variables that    *)
(* observe every step and constrain none.  With them it can be said what a *)
(* turn of the foreground thread may do at most, what it does at least,    *)
(* and where mounting comes before everything else (drain_queue,           *)
(* enqueue_internal_message and mount_with, program.rs).                   *)
(***************************************************************************)
EXTENDS Program

VARIABLES
    initCommand, \* the command that init returned
    drainedFrom, \* the number of messages handled when the last drain began
    takenAt      \* for every external message the receive task took, the number
                 \* of internal messages enqueued before

turnVars == <<vars, initCommand, drainedFrom, takenAt>>

TurnInit ==
    /\ Init
    /\ initCommand = todo
    /\ drainedFrom = 0
    /\ takenAt = [id \in {} |-> 0]

\* The step begins a drain: a turn of a task, or the one that ends mounting.
DrainBegins == fg \in {"idle", "mount"} /\ fg' = "drain"

\* The step moves the inbox to the pending queue.
InboxTaken == inbox # <<>> /\ inbox' = <<>> /\ receiver' = "running"

Observe ==
    /\ UNCHANGED initCommand
    /\ drainedFrom' = IF DrainBegins THEN Len(handled) ELSE drainedFrom
    /\ takenAt' =
         IF InboxTaken
         THEN [id \in DOMAIN takenAt \cup Elements(inbox) |->
                 IF id \in Elements(inbox) THEN emitted ELSE takenAt[id]]
         ELSE takenAt

TurnNext == Next /\ Observe

TurnSpec == TurnInit /\ [][TurnNext]_turnVars

FairTurnSpec == TurnSpec /\ Fairness

-----------------------------------------------------------------------------
(* Properties.                                                             *)

\* The messages that update handled in the drain under way, or in the last one.
Ran == Len(handled) - drainedFrom

\* However update answers, and whatever is displaced, taken or completed around it, a
\* drain runs update at most budget times, and it leaves messages behind only when it
\* did so as often as its budget allows: displaced messages are skipped and cost
\* nothing, and no drain ends early with work left (the loop of drain_queue).
DrainsUseTheirBudget ==
    /\ Ran <= budget
    /\ fg = "idle" /\ pending # <<>> => Ran = budget

\* "Long emit chains cannot [...] starve external dispatches" (config.rs): an internal
\* message that is enqueued when an external one is already pending is handled after
\* it, in whichever turn and however long the chain of answers that emits it, so each
\* external message waits for those that were ahead of it and for no others
\* (enqueue_internal_message pushes to the back, receive_external extends).
AnswersNeverOvertake ==
    LET queue == handled \o pending
    IN  \A i, j \in 1..Len(queue) :
          i < j /\ queue[i].origin = "Internal" /\ queue[j].origin = "External"
            => queue[i].id <= takenAt[queue[j].id]

\* The init transaction is a unit: until the whole command of init is executed, with
\* each of its messages enqueued and each of its effects started, no message is
\* handled and nobody is subscribed, though its first message could be drained at
\* once (execute_command_transaction suspends the drains of mount_with).
InitComesFirst ==
    handled # <<>> \/ subscribed # "none" =>
        /\ emitted >= CountOf(initCommand, "Emit")
        /\ nextEffectId >= CountOf(initCommand, "Effect")
        /\ nextGeneration >= CountOf(initCommand, "Keyed")

=============================================================================
