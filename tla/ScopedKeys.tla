------------------------------ MODULE ScopedKeys ------------------------------
(***************************************************************************)
(* Keys and the scopes that keep the keys of nested models apart (key.rs,  *)
(* scope.rs).                                                              *)
(*                                                                         *)
(* A path is the sequence of its segments.  Key::scoped builds the runtime *)
(* identifier of a key from the segments and the local identifier, each    *)
(* with its length in front, so where one ends is never in doubt: here the *)
(* identifier is the sequence of these parts.                              *)
(***************************************************************************)
EXTENDS Sequences

(* ChildPath. *)

Root == <<>>

IsRoot(path) == path = Root

\* ChildPath::child.
ChildOf(path, segment) == Append(path, segment)

\* ChildPath::new, also the conversion of a segment.
PathOf(segment) == ChildOf(Root, segment)

\* ChildPath::join.
Join(path, suffix) == path \o suffix

-----------------------------------------------------------------------------
(* Key.  child_path is Root, and local_id empty, where the code has None:  *)
(* a key is never scoped to the root.                                      *)

NewKey(id) == [id |-> <<id>>, child_path |-> Root, local_id |-> <<>>]

RuntimePrefix(path) == path \o <<"#">>

\* Mutant of ScopedKey: the path of the last scope wins.
ScopedKeyAgain(key, path) ==
    LET local == IF IsRoot(key.child_path) THEN key.id ELSE key.local_id
    IN  IF IsRoot(path) THEN key
        ELSE [id |-> RuntimePrefix(path) \o local, child_path |-> path, local_id |-> local]

\* Key::scoped: at most once, and never to the root.
ScopedKey(key, path) ==
    IF IsRoot(path) \/ ~IsRoot(key.child_path)
      THEN key
      ELSE [id |-> RuntimePrefix(path) \o key.id, child_path |-> path, local_id |-> key.id]

-----------------------------------------------------------------------------
(* ModelContext is the path of a model; the lift of a ChildScope is the    *)
(* constructor that its parent's message type has for the child's.         *)

RootContext == Root

\* A lift applied to a message, of which the constructors around it are the route.
Lift(lift, message) == [message EXCEPT !.route = <<lift>> \o @]

\* ModelContext::scope.
Scope(context, segment) == Join(context, PathOf(segment))

=============================================================================
