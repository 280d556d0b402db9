------------------------- MODULE MCOpenApiSerializers -------------------------
(* Three serializer classes that list each other, directly and in lists and    *)
(* dictionaries, and one more level than the depth limit lets through.         *)
EXTENDS OpenApiSerializers

CONSTANTS A, B, C

MCClass == {A, B, C}
MCName == {"x", "y"}
MCAttribute == {"serializer_class", "read_serializer_class", "write_serializer_class"}

\* views: none, one for both roles, one per role, and the wrong one second
Holding(s, r, w) ==
    [a \in MCAttribute |-> CASE a = "serializer_class" -> s
                             [] a = "read_serializer_class" -> r
                             [] a = "write_serializer_class" -> w]
MCViews == {Holding(None, None, None), Holding(A, None, None),
            Holding(None, B, A), Holding(A, B, None), Holding(None, None, A)}

Listed ==
    {Typed, Opaque, DictOf(Opaque), ListOf(Typed)}
        \cup {Nested(c) : c \in MCClass}
        \cup {ListOf(Nested(c)) : c \in MCClass}
        \cup {DictOf(Nested(c)) : c \in {A, B}}

MCField == Listed \cup {f.child : f \in {f \in Listed : f.kind \in {"list", "dict"}}}

One(f) == [n \in {"x"} |-> f]
Two(f, g) == [n \in {"x", "y"} |-> IF n = "x" THEN f ELSE g]

ListsOfA ==
    {Lists(Two(f, g), {"x"}, r) : f \in Listed, g \in {Opaque, Nested(B)},
        r \in {None, "AttributeError", "another"}}
ListsOfB ==
    {Lists(One(f), {}, r) : f \in Listed, r \in {None, "AttributeError", "another"}}
ListsOfC ==
    {Lists(One(f), {"x"}, r) : f \in {Typed, Opaque, Nested(A), ListOf(Nested(B)), Nested(C)},
        r \in {None, "another"}}

MCGraphs ==
    {[c \in MCClass |-> CASE c = A -> a [] c = B -> b [] c = C -> d] :
        a \in ListsOfA, b \in ListsOfB, d \in ListsOfC}

=============================================================================
