--------------------------- MODULE CompositeDerive ---------------------------
(***************************************************************************)
(* derive(Composite) as far as the parser (gpui_tea_macros/src/parser.rs,  *)
(* spec.rs): which declarations it accepts, with which children, and what  *)
(* it reports of the others.                                               *)
(*                                                                         *)
(* A declaration is what syn hands over: the kind of data, the attributes  *)
(* of the struct and the fields with theirs.  An attribute has a name and  *)
(* metas, unless its arguments do not parse; a meta has a form, a name and *)
(* a value, which is a literal or another expression.  Where an Option of  *)
(* the code is a slot to be filled, it is a set of at most one value here. *)
(* An error is what is wrong and where: 0 for the struct, or the position  *)
(* of a field; spans and wording are left out.                             *)
(***************************************************************************)
EXTENDS Integers, SequencesExt, Subsequences

Literals == {"Str", "Int", "None"}  \* "None" for any other expression
Forms == {"NameValue", "Path", "List"}

Metas == [form : Forms, name : STRING, value : [literal : Literals, text : STRING]]
Attributes == [name : STRING, parses : BOOLEAN, metas : Seq(Metas)]

Error(site, what) == [site |-> site, what |-> what]

\* combine_error on an accumulator.
Report(state, site, what) == [state EXCEPT !.errors = Append(@, Error(site, what))]

-----------------------------------------------------------------------------
(* The struct's attributes.                                                *)

\* The value of message is parsed as a type, which no literal is.
IsType(value) == value.literal = "None"

\* parse_composite_meta.
CompositeMeta(state, meta) ==
    IF ~(meta.form = "NameValue" /\ meta.name = "message")
      THEN Report(state, 0, "unsupported composite attribute")
    ELSE IF state.message # {} THEN Report(state, 0, "duplicate message")
    ELSE IF ~IsType(meta.value) THEN Report(state, 0, "expected type")
    ELSE [state EXCEPT !.message = {meta.value.text}]

StructAttribute(state, attr) ==
    CASE attr.name = "child" -> Report(state, 0, "#[child] on a struct")
      [] attr.name = "composite" ->
           IF ~attr.parses THEN Report(state, 0, "malformed arguments")
           ELSE FoldLeft(CompositeMeta, state, attr.metas)
      [] OTHER -> state

\* parse_message_type.
ParseMessageType(attrs) ==
    LET state == FoldLeft(StructAttribute, [message |-> {}, errors |-> <<>>], attrs)
    IN  IF state.message = {} THEN Report(state, 0, "missing message") ELSE state

-----------------------------------------------------------------------------
(* A field's attributes.                                                   *)

NoChild == [sawChild |-> FALSE, sawPath |-> FALSE, path |-> {}, lift |-> {},
            extract |-> {}, errors |-> <<>>]

\* Mutant of SetChildPath: the empty path is taken.
SetChildPathEmpty(state, site, value) ==
    IF state.path # {} THEN Report(state, site, "duplicate path")
    ELSE IF value.literal # "Str" THEN Report(state, site, "path must be a string literal")
    ELSE [state EXCEPT !.path = {value.text}]

\* set_child_path: a bad value leaves the slot empty.
SetChildPath(state, site, value) ==
    IF state.path # {} THEN Report(state, site, "duplicate path")
    ELSE IF value.literal # "Str" THEN Report(state, site, "path must be a string literal")
    ELSE IF value.text = "" THEN Report(state, site, "path must be non-empty")
    ELSE [state EXCEPT !.path = {value.text}]

\* set_child_expr, for the slots lift and extract.
SetChildExpr(state, site, name, value) ==
    IF state[name] # {}
      THEN Report(state, site, "duplicate lift or extract")
      ELSE [state EXCEPT ![name] = {value.text}]

\* parse_child_meta.
ChildMeta(state, site, meta) ==
    CASE meta.form = "NameValue" /\ meta.name = "path" ->
           SetChildPath([state EXCEPT !.sawPath = TRUE], site, meta.value)
      [] meta.form = "NameValue" /\ meta.name \in {"lift", "extract"} ->
           SetChildExpr(state, site, meta.name, meta.value)
      [] OTHER -> Report(state, site, "unsupported child attribute")

FieldAttribute(state, site, attr) ==
    LET seen == [state EXCEPT !.sawChild = TRUE]
    IN  CASE attr.name = "composite" -> Report(state, site, "#[composite] on a field")
          [] attr.name = "child" ->
               IF ~attr.parses THEN Report(seen, site, "malformed arguments")
               ELSE FoldLeft(LAMBDA s, meta : ChildMeta(s, site, meta), seen, attr.metas)
          [] OTHER -> state

\* The slots of a child that nothing filled; a path with a bad value was seen.
Missing(state, site) ==
    LET unfilled == (IF state.sawPath THEN <<>> ELSE <<Error(site, "missing path")>>)
                    \o (IF state.lift # {} THEN <<>> ELSE <<Error(site, "missing lift")>>)
                    \o (IF state.extract # {} THEN <<>> ELSE <<Error(site, "missing extract")>>)
    IN  IF state.sawChild THEN [state EXCEPT !.errors = @ \o unfilled] ELSE state

\* What a field's attributes come to: errors and at most one ChildSpec.
ChildOrErrors(field, site, state) ==
    [errors |-> state.errors,
     child |-> IF state.errors # <<>> \/ ~state.sawChild THEN <<>>
               ELSE <<[field |-> site, name |-> field.name, type |-> field.type,
                       path |-> CHOOSE p \in state.path : TRUE,
                       lift |-> CHOOSE l \in state.lift : TRUE,
                       extract |-> CHOOSE e \in state.extract : TRUE]>>]

\* parse_child of the field at a position.
ParseChild(field, site) ==
    ChildOrErrors(field, site,
      Missing(FoldLeft(LAMBDA s, attr : FieldAttribute(s, site, attr), NoChild, field.attrs), site))

-----------------------------------------------------------------------------
(* The struct.                                                             *)

\* The positions of values that an earlier position has.
Repeated(values) ==
    Only([i \in 1..Len(values) |-> i],
         {i \in 1..Len(values) : \E j \in 1..(i - 1) : values[j] = values[i]})

\* ChildSpec::view_method_name: r#name and name give the same helper.
ViewMethodName(child) == child.name.text

EnsureUniqueViewMethodNames(children) ==
    LET again == Repeated([i \in 1..Len(children) |-> ViewMethodName(children[i])])
    IN  [i \in 1..Len(again) |-> Error(children[again[i]].field, "duplicate helper name")]

\* Mutant of EnsureUniqueChildPaths: only neighbours are compared.
EnsureUniqueChildPathsNearby(children) ==
    LET again == Only([i \in 1..Len(children) |-> i],
                      {i \in 3..Len(children) : children[i - 1].path = children[i].path})
    IN  [i \in 1..Len(again) |-> Error(children[again[i]].field, "duplicate child path")]

EnsureUniqueChildPaths(children) ==
    LET again == Repeated([i \in 1..Len(children) |-> children[i].path])
    IN  [i \in 1..Len(again) |-> Error(children[again[i]].field, "duplicate child path")]

\* What could be parsed is compared, whether or not another field has errors.
Compared(parsed) ==
    LET children == FlattenSeq([i \in 1..Len(parsed) |-> parsed[i].child])
    IN  [children |-> children,
         errors |-> FlattenSeq([i \in 1..Len(parsed) |-> parsed[i].errors])
                      \o EnsureUniqueViewMethodNames(children)
                      \o EnsureUniqueChildPaths(children)]

\* parse_children: every field is parsed.
ParseChildren(fields) == Compared([i \in 1..Len(fields) |-> ParseChild(fields[i], i)])

\* parse_composite: a struct without a message type is not looked into, and only a
\* struct with named fields has children.
ParseComposite(input) ==
    LET message == ParseMessageType(input.attrs).errors
    IN  IF message # <<>> THEN [children |-> <<>>, errors |-> message]
        ELSE IF input.data # "Named"
          THEN [children |-> <<>>, errors |-> <<Error(0, "unsupported data")>>]
        ELSE ParseChildren(input.fields)

=============================================================================
