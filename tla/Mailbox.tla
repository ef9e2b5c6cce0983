------------------------------- MODULE Mailbox -------------------------------
(***************************************************************************)
(* What QueuePolicy (observability/policy.rs) promises of the external     *)
(* messages of a program: one first-in first-out mailbox with a bound.     *)
(* There is no inbox, no batch and no set of displaced ids here, a message *)
(* that is displaced is gone, and a message is handed back only when the   *)
(* policy says so.                                                         *)
(***************************************************************************)
EXTENDS Naturals, Sequences

CONSTANT Configs  \* queue policies a program may be mounted with

VARIABLES
    policy,    \* the policy it was mounted with
    queue,     \* ids accepted and not processed, oldest first
    delivered, \* ids the model got, in order
    lost,      \* ids displaced, in order
    accepted,  \* the number of messages accepted
    refused,   \* the number of messages handed back
    open       \* the program is mounted

vars == <<policy, queue, delivered, lost, accepted, refused, open>>

Init ==
    /\ policy \in Configs
    /\ queue = <<>>
    /\ delivered = <<>>
    /\ lost = <<>>
    /\ accepted = 0
    /\ refused = 0
    /\ open = TRUE

Full == policy.kind # "Unbounded" /\ Len(queue) >= policy.capacity

\* A message enters a mailbox that has room.
Accept ==
    /\ open /\ ~Full
    /\ accepted' = accepted + 1
    /\ queue' = Append(queue, accepted + 1)
    /\ UNCHANGED <<policy, delivered, lost, refused, open>>

\* A message enters a full mailbox under DropOldest; the oldest one makes room.  An
\* empty mailbox has none to give up and keeps the new message all the same.
AcceptDisplacing ==
    /\ open /\ Full /\ policy.kind = "DropOldest"
    /\ accepted' = accepted + 1
    /\ \/ /\ queue # <<>>
          /\ queue' = Append(Tail(queue), accepted + 1)
          /\ lost' = Append(lost, Head(queue))
       \/ /\ queue = <<>>
          /\ queue' = <<accepted + 1>>
          /\ lost' = lost
    /\ UNCHANGED <<policy, delivered, refused, open>>

\* A message is handed back: nobody is there any more, or the mailbox is full and keeps
\* what it has.  DropOldest never hands back while the program is mounted.
Refuse ==
    /\ ~open \/ (Full /\ policy.kind \in {"RejectNew", "DropNewest"})
    /\ refused' = refused + 1
    /\ UNCHANGED <<policy, queue, delivered, lost, accepted, open>>

\* The model gets the oldest message.
Deliver ==
    /\ open /\ queue # <<>>
    /\ queue' = Tail(queue)
    /\ delivered' = Append(delivered, Head(queue))
    /\ UNCHANGED <<policy, lost, accepted, refused, open>>

\* The program is dropped, with the messages that wait.
Shut ==
    /\ open
    /\ open' = FALSE
    /\ queue' = <<>>
    /\ UNCHANGED <<policy, delivered, lost, accepted, refused>>

Next == Accept \/ AcceptDisplacing \/ Refuse \/ Deliver \/ Shut

Spec == Init /\ [][Next]_vars

=============================================================================
