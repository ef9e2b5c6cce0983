----------------------------- MODULE MCComposite -----------------------------
(* Instances of Composite for TLC. *)
EXTENDS Composite

Expr(text) == [literal |-> "None", text |-> text]
Str(text) == [literal |-> "Str", text |-> text]
Number == [literal |-> "Int", text |-> "1"]

Meta(form, name, value) == [form |-> form, name |-> name, value |-> value]
Value(name, value) == Meta("NameValue", name, value)
Attr(name, metas) == [name |-> name, parses |-> TRUE, metas |-> metas]
Malformed(name) == [name |-> name, parses |-> FALSE, metas |-> <<>>]

Name(text) == [raw |-> FALSE, text |-> text]
RawName(text) == [raw |-> TRUE, text |-> text]
Field(name, type, attrs) == [name |-> name, type |-> type, attrs |-> attrs]

ChildAttr(path, lift, extract) ==
    Attr("child", <<Value("path", Str(path)), Value("lift", Expr(lift)),
                    Value("extract", Expr(extract))>>)
Child(name, type, path, lift, extract) ==
    Field(Name(name), type, <<ChildAttr(path, lift, extract)>>)

Struct(data, attrs, fields) == [data |-> data, attrs |-> attrs, fields |-> fields]
Message == Attr("composite", <<Value("message", Expr("Msg"))>>)
NamedStruct(fields) == Struct("Named", <<Message>>, fields)

\* A panel has one child, which has the path and the message of a child of the root.
MCPanel == NamedStruct(<<Child("inner", "Leaf", "left", "A", "A")>>)

-----------------------------------------------------------------------------
(* One field in every way, beside a good one.                              *)

Right == Child("second", "Leaf", "right", "B", "B")

ChildMetas ==
    {Value("path", Str("left")), Value("path", Str("right")), Value("path", Str("")),
     Value("path", Number), Value("path", Expr("PATH")), Value("lift", Expr("A")),
     Value("extract", Expr("A")), Value("extract", Expr("B")), Value("name", Expr("A")),
     Meta("Path", "path", Expr("")), Meta("List", "lift", Expr(""))}

Lists == UNION {[1..n -> ChildMetas] : n \in 0..3}

Whole == ChildAttr("left", "A", "A")

FieldAttrs ==
    {<<>>, <<Attr("doc", <<>>)>>, <<Attr("composite", <<>>)>>, <<Malformed("child")>>,
     <<Malformed("composite")>>, <<Whole, Malformed("child")>>, <<Attr("doc", <<>>), Whole>>,
     <<Attr("composite", <<>>), Whole>>}
    \cup {<<Attr("child", list)>> : list \in Lists}
    \cup {<<Whole, Attr("child", <<meta>>)>> : meta \in ChildMetas}
    \cup {<<Attr("child", <<meta>>), Whole>> : meta \in ChildMetas}
    \cup {<<Attr("child", <<Whole.metas[2]>>), Attr("child", <<Whole.metas[3], Whole.metas[1]>>)>>}

OneField == {NamedStruct(<<Field(Name("first"), "Leaf", attrs), Right>>) : attrs \in FieldAttrs}

-----------------------------------------------------------------------------
(* The struct in every way.                                                *)

StructMetas ==
    {Value("message", Expr("Msg")), Value("message", Number), Value("msg", Expr("Msg")),
     Meta("Path", "message", Expr("")), Meta("List", "message", Expr(""))}

StructAttrs ==
    {<<>>, <<Malformed("composite")>>, <<Message, Message>>, <<Attr("child", <<>>), Message>>,
     <<Message, Malformed("composite")>>, <<Attr("doc", <<>>), Message>>, <<Attr("doc", <<>>)>>}
    \cup {<<Attr("composite", list)>> : list \in UNION {[1..n -> StructMetas] : n \in 0..2}}

Structs ==
    {Struct("Named", attrs, <<Right>>) : attrs \in StructAttrs}
    \cup {Struct(data, attrs, <<>>) : data \in {"Named", "Tuple", "Enum", "Union"},
                                     attrs \in {<<>>, <<Message>>}}

-----------------------------------------------------------------------------
(* Several fields that must not agree in a name or a path, that share a    *)
(* constructor, or of which one takes another's messages.                  *)

SeveralFields ==
    {NamedStruct(<<Child("a", "Leaf", "one", "A", "A"), Child("b", "Leaf", path, "B", "B"),
                   Field(name, "Leaf", <<ChildAttr(last, "C", "C")>>)>>) :
       path \in {"one", "two"}, last \in {"one", "two", "three"},
       name \in {Name("c"), RawName("a"), RawName("b")}}
    \cup {NamedStruct(<<Child("a", "Panel", "left", "A", "A"), Child("b", "Panel", "right", "B", "B")>>),
          NamedStruct(<<Child("a", "Leaf", "left", "A", "A"), Child("b", "Leaf", "right", "A", "A")>>),
          NamedStruct(<<Child("a", "Leaf", "left", "A", "A"), Child("b", "Leaf", "right", "B", "A")>>)}

MCInputs == OneField \cup Structs \cup SeveralFields

=============================================================================
