--------------------------- MODULE OpenApiSerializers ---------------------------
(***************************************************************************)
(* What the inventory knows of the payloads of a view: the serializers its *)
(* attributes name, described field by field (openapi/serializers.py), and *)
(* the warnings that say what could not be described (_route_warnings).    *)
(* Serializers contain serializers, lists and dictionaries of them, and    *)
(* themselves; reading the fields of one runs code of the project, which   *)
(* may raise.  A step describes one field, in the order of the recursion.  *)
(***************************************************************************)
EXTENDS Naturals, Sequences, FiniteSets, SequencesExt

CONSTANTS
    Class,     \* serializer classes
    Name,      \* names of fields
    Field,     \* the fields of the serializers, and what those contain
    Attribute, \* the attributes of a view that may hold a serializer class
    Views,     \* what the attributes of a view may hold
    Graphs,    \* what the classes may list
    MaxDepth,  \* MAX_DEPTH
    MaxLength, \* bound: length of the payload paths the properties follow
    None

VARIABLES
    view,      \* the view: attribute -> class or None
    fields,    \* class -> the fields of its instances
    roles,     \* roles still to describe
    stack,     \* fields still to describe
    described, \* path of a field -> what its descriptor says
    how,       \* role -> "bound", "declared", or None
    outcome    \* running, done, or raised

svars == <<view, fields, roles, stack, described, how, outcome>>

\* A field is of a class that maps to a type, of none that does (or computed by a
\* method), a serializer, or a container of another field.
Typed == [kind |-> "typed"]
Opaque == [kind |-> "opaque"]
Nested(c) == [kind |-> "nested", class |-> c]
ListOf(f) == [kind |-> "list", child |-> f]
DictOf(f) == [kind |-> "dict", child |-> f]

\* What an instance lists, which of it the class body declares, and what reading
\* `fields` raises: nothing, an AttributeError or another exception.
Lists(listed, own, raises) == [listed |-> listed, own |-> own, raises |-> raises]

Instances ==
    [listed : UNION {[names -> Field] : names \in SUBSET Name}, own : SUBSET Name,
     raises : {None, "AttributeError", "another"}]

ASSUME SerializerAssumption ==
    /\ Attribute = {"serializer_class", "read_serializer_class", "write_serializer_class"}
    /\ Views \subseteq [Attribute -> Class \cup {None}]
    /\ Graphs \subseteq [Class -> Instances]
    /\ \A g \in Graphs, c \in Class : g[c].own \subseteq DOMAIN g[c].listed
    /\ \A f \in Field :
          \/ f \in {Typed, Opaque}
          \/ \E c \in Class : f = Nested(c)
          \/ \E g \in Field : f \in {ListOf(g), DictOf(g)}
    /\ IsFiniteSet(Name) /\ MaxDepth \in Nat /\ MaxLength \in Nat
    /\ None \notin Class \cup {"AttributeError", "another", "bound", "declared"}

-----------------------------------------------------------------------------
(* The serializers of a view. *)

Role == {"read", "write"}

\* _SERIALIZER_ATTRS: the first attribute that holds a serializer wins for the role
Serializer(role) ==
    IF role = "write" THEN view["write_serializer_class"]
    ELSE IF view["serializer_class"] # None THEN view["serializer_class"]
    ELSE view["read_serializer_class"]

\* fields to describe, in any fixed order of their names
Task(path, field, depth, seen) == [path |-> path, field |-> field, depth |-> depth, seen |-> seen]

Tasks(path, c, names, depth, seen) ==
    LET order == SetToSeq(names)
    IN  [i \in DOMAIN order |->
            Task(Append(path, order[i]), fields[c].listed[order[i]], depth, seen)]

\* _bound_fields: an instance that cannot list its fields degrades to the declared
Bound(c) == fields[c].raises = None
BoundFields(c) == IF Bound(c) THEN DOMAIN fields[c].listed ELSE fields[c].own

\* describe_serializer, for a role of which a serializer is known
DescribeSerializer ==
    /\ stack = <<>> /\ roles # <<>>
    /\ LET role == Head(roles)
           c == Serializer(role)
       IN  /\ roles' = Tail(roles)
           /\ IF c = None THEN UNCHANGED <<stack, how>>
              ELSE /\ how' = [how EXCEPT ![role] = IF Bound(c) THEN "bound" ELSE "declared"]
                   /\ stack' = Tasks(<<role>>, c, BoundFields(c), 0, <<c>>)
    /\ UNCHANGED <<view, fields, described, outcome>>

-----------------------------------------------------------------------------
(* describe_field *)

Top == Head(stack)
Kind == Top.field.kind

Raises == fields[Top.field.class].raises

\* _is_serializer asks hasattr(field, "fields"), which reads the fields: an
\* AttributeError means it is none, another exception goes through.
IsSerializer == Kind = "nested" /\ Raises = None

Describe(mark, tasks) ==
    /\ described' = [p \in DOMAIN described \cup {Top.path} |->
                        IF p = Top.path THEN mark ELSE described[p]]
    /\ stack' = tasks \o Tail(stack)
    /\ UNCHANGED <<view, fields, roles, how, outcome>>

DescribeTyped == stack # <<>> /\ Kind = "typed" /\ Describe("typed", <<>>)

\* a SerializerMethodField, or no base class of it is known
LeaveUnresolved ==
    /\ stack # <<>>
    /\ \/ Kind = "opaque"
       \/ Kind = "nested" /\ Raises = "AttributeError"
    /\ Describe("unresolved", <<>>)

DescribeContainer ==
    /\ stack # <<>>
    /\ Kind \in {"list", "dict"}
    /\ Describe("container",
                <<Task(Append(Top.path, IF Kind = "list" THEN "[]" ELSE "{}"),
                       Top.field.child, Top.depth + 1, Top.seen)>>)

\* wrong: only the serializer right above counts as seen
TooDeepShort == Top.field.class = Last(Top.seen) \/ Top.depth >= MaxDepth

TooDeep == Contains(Top.seen, Top.field.class) \/ Top.depth >= MaxDepth

\* _describe_nested_serializer
Truncate == stack # <<>> /\ IsSerializer /\ TooDeep /\ Describe("truncated", <<>>)

Expand ==
    /\ stack # <<>> /\ IsSerializer /\ ~TooDeep
    /\ LET c == Top.field.class
       IN  Describe("container",
                    Tasks(Top.path, c, DOMAIN fields[c].listed, Top.depth + 1,
                          Append(Top.seen, c)))

\* Nobody catches it: build_inventory ends, and the command with it.
Raise ==
    /\ stack # <<>> /\ Kind = "nested" /\ Raises = "another"
    /\ outcome' = "raised"
    /\ stack' = <<>> /\ roles' = <<>>
    /\ UNCHANGED <<view, fields, described, how>>

-----------------------------------------------------------------------------
(* _route_warnings *)

\* wrong: does not look into dictionaries
FollowedLists == Name \cup {"[]"}

\* unresolved_field_names walks properties, items and additional_properties
Followed == Name \cup {"[]", "{}"}

unresolved_field_names(role) ==
    {p \in DOMAIN described :
        /\ p[1] = role /\ described[p] = "unresolved"
        /\ \A i \in 2 .. Len(p) : p[i] \in Followed}

\* the warnings of the route, each with the fields it names
Warnings ==
    {<<"no_serializer", {}>> : r \in {r \in {"read"} : \A role \in Role : how[role] = None}}
        \cup {<<"serializer_declared_only", {<<r>>}>> : r \in {r \in Role : how[r] = "declared"}}
        \cup {<<"unresolved_fields", unresolved_field_names(r)>> :
                  r \in {r \in Role : unresolved_field_names(r) # {}}}

Finish ==
    /\ stack = <<>> /\ roles = <<>> /\ outcome = "running"
    /\ outcome' = "done"
    /\ UNCHANGED <<view, fields, roles, stack, described, how>>

SerializersInit ==
    /\ view \in Views
    /\ fields \in Graphs
    /\ roles = <<"read", "write">>
    /\ stack = <<>>
    /\ described = <<>>
    /\ how = [role \in Role |-> None]
    /\ outcome = "running"

SerializersNext ==
    \/ DescribeSerializer
    \/ DescribeTyped \/ LeaveUnresolved \/ DescribeContainer
    \/ Truncate \/ Expand \/ Raise
    \/ Finish

SerializersSpec == SerializersInit /\ [][SerializersNext]_svars

-----------------------------------------------------------------------------
(* Properties. *)

(***************************************************************************)
(* The payloads themselves: every position of at most MaxLength names,     *)
(* reached from the first serializer of a role through whatever the        *)
(* classes list, with no limit of depth and no memory of the way.          *)
(***************************************************************************)
At(path, field) == [path |-> path, field |-> field]

Below(p) ==
    CASE p.field.kind = "list" -> {At(Append(p.path, "[]"), p.field.child)}
      [] p.field.kind = "dict" -> {At(Append(p.path, "{}"), p.field.child)}
      [] p.field.kind = "nested" ->
            LET instance == fields[p.field.class]
            IN  IF instance.raises # None THEN {}
                ELSE {At(Append(p.path, n), instance.listed[n]) : n \in DOMAIN instance.listed}
      [] OTHER -> {}

Payload[n \in 1 .. MaxLength] ==
    IF n = 1
    THEN UNION {Below(At(<<r>>, Nested(Serializer(r)))) :
                    r \in {r \in Role : Serializer(r) # None /\ how[r] = "bound"}}
    ELSE UNION {Below(p) : p \in Payload[n - 1]}

Above(path) == {SubSeq(path, 1, n) : n \in 1 .. Len(path) - 1} \cap DOMAIN described

Said(path) == described[path]

\* what may be said of a position, and what must be said elsewhere for it
RightlyDescribed(p) ==
    CASE Said(p.path) = "typed"      -> p.field.kind = "typed"
      [] Said(p.path) = "container"  -> p.field.kind \in {"list", "dict", "nested"}
      [] Said(p.path) = "truncated"  ->
            /\ p.field.kind = "nested"
            /\ \/ Len(p.path) >= MaxDepth + 2
               \/ p.field.class = Serializer(p.path[1])
               \/ \E n \in 1 .. MaxLength : \E q \in Payload[n] :
                      q.path \in Above(p.path) /\ q.field = p.field
      [] Said(p.path) = "unresolved" ->
            /\ p.field.kind \in {"opaque", "nested"}
            /\ \E w \in Warnings : w[1] = "unresolved_fields" /\ p.path \in w[2]

\* Nothing of a payload is left out in silence, and nothing is guessed: when the
\* inventory is done, every position of a payload whose serializer listed its
\* fields is described as what it is, or named in a warning as unresolved, or lies
\* under a field marked as truncated, which only a repeated class or the depth
\* limit is; a serializer that could not list its fields, and a view without any,
\* have their warning (serializers.py:3-12, inventory.py:409-447).
GapsReported ==
    outcome = "done" =>
        /\ \A n \in 1 .. MaxLength : \A p \in Payload[n] :
              \/ p.path \in DOMAIN described /\ RightlyDescribed(p)
              \/ \E q \in Above(p.path) : Said(q) = "truncated"
        /\ \A r \in Role :
              Serializer(r) # None /\ fields[Serializer(r)].raises # None =>
                  <<"serializer_declared_only", {<<r>>}>> \in Warnings
        /\ <<"no_serializer", {}>> \in Warnings <=> \A a \in Attribute : view[a] = None

\* However serializers contain each other, a branch of the recursion expands no
\* class twice, and is never more than MaxDepth + 1 serializers deep: the command
\* ends on a serializer that contains itself (serializers.py:270-278).
ExpandsOnce ==
    \A i \in DOMAIN stack :
        LET seen == stack[i].seen
        IN  /\ \A j, k \in DOMAIN seen : seen[j] = seen[k] => j = k
            /\ Len(seen) <= MaxDepth + 1

=============================================================================
