----------------------- MODULE OpenApiSerializersProofs -----------------------
(***************************************************************************)
(* The recursion over serializers stays within its limits and leaves no    *)
(* gap unsaid, for any classes and any way they contain each other,        *)
(* checked by TLAPS.                                                       *)
(***************************************************************************)
EXTENDS OpenApiSerializers, FiniteSetTheorems, SequenceTheorems, WellFoundedInduction, TLAPS

Label == Name \cup Role \cup {"[]", "{}"}

\* a field to describe, and what the way down to it has seen: no class twice, and
\* at most one per level
Pending ==
    {t \in [path : Seq(Label), field : Field, depth : Nat, seen : Seq(Class)] :
        /\ \A j, k \in DOMAIN t.seen : t.seen[j] = t.seen[k] => j = k
        /\ Len(t.seen) <= t.depth + 1
        /\ Len(t.seen) <= MaxDepth + 1}

WalkInv ==
    /\ view \in Views /\ fields \in Graphs
    /\ roles \in Seq(Role)
    /\ stack \in Seq(Pending)

-----------------------------------------------------------------------------
\* What the kind of a field says of it.
LEMMA FieldShape ==
    ASSUME NEW f \in Field
    PROVE  /\ f.kind \in {"typed", "opaque", "nested", "list", "dict"}
           /\ f.kind = "nested" => f.class \in Class /\ f = Nested(f.class)
           /\ f.kind \in {"list", "dict"} => f.child \in Field
BY SerializerAssumption DEF Typed, Opaque, Nested, ListOf, DictOf

LEMMA SetToSeqTyped ==
    ASSUME NEW S, IsFiniteSet(S)
    PROVE  SetToSeq(S) \in Seq(S)
<1>1. Cardinality(S) \in Nat /\ ExistsBijection(1 .. Cardinality(S), S)
  BY FS_CardinalityType
<1>2. PICK f \in [1 .. Cardinality(S) -> S] : IsInjective(f)
  BY <1>1 DEF ExistsBijection, Bijection, Injection
<1>3. SetToSeq(S) \in [1 .. Cardinality(S) -> S]
  BY <1>2 DEF SetToSeq
<1> QED
  BY <1>1, <1>3

\* The fields of one serializer, all at one depth and behind one way down.
LEMMA TasksPending ==
    ASSUME fields \in Graphs, NEW path \in Seq(Label), NEW c \in Class,
           NEW names \in SUBSET DOMAIN fields[c].listed,
           NEW depth \in Nat, NEW seen \in Seq(Class),
           \A j, k \in DOMAIN seen : seen[j] = seen[k] => j = k,
           Len(seen) <= depth + 1, Len(seen) <= MaxDepth + 1
    PROVE  Tasks(path, c, names, depth, seen) \in Seq(Pending)
<1> DEFINE order == SetToSeq(names)
<1>1. fields[c] \in Instances
  BY SerializerAssumption
<1>2. /\ fields[c].listed \in [DOMAIN fields[c].listed -> Field]
      /\ DOMAIN fields[c].listed \in SUBSET Name
  BY <1>1 DEF Instances
<1>3. IsFiniteSet(names)
  BY <1>2, FS_Subset, SerializerAssumption
<1>4. order \in Seq(names)
  BY <1>3, SetToSeqTyped
<1>5. ASSUME NEW i \in DOMAIN order
      PROVE  Task(Append(path, order[i]), fields[c].listed[order[i]], depth, seen) \in Pending
  <2>1. order[i] \in names
    BY <1>4
  <2>2. order[i] \in Label /\ fields[c].listed[order[i]] \in Field
    BY <1>2, <2>1 DEF Label
  <2>3. Append(path, order[i]) \in Seq(Label)
    BY <2>2, AppendProperties
  <2> QED
    BY <2>2, <2>3 DEF Task, Pending
<1>6. DOMAIN order = 1 .. Len(order) /\ Len(order) \in Nat
  BY <1>4
<1> HIDE DEF order
<1>7. [i \in DOMAIN order |-> Task(Append(path, order[i]), fields[c].listed[order[i]], depth, seen)]
          \in [1 .. Len(order) -> Pending]
  BY <1>5, <1>6
<1> QED
  BY <1>6, <1>7 DEF Tasks, order

\* A field described leaves those below it in its place.
LEMMA DescribeKeeps ==
    ASSUME WalkInv, stack # <<>>, NEW mark, NEW tasks \in Seq(Pending), Describe(mark, tasks)
    PROVE  WalkInv'
<1>1. Tail(stack) \in Seq(Pending)
  BY DEF WalkInv
<1>2. tasks \o Tail(stack) \in Seq(Pending)
  BY <1>1, ConcatProperties
<1> QED
  BY <1>2 DEF WalkInv, Describe

LEMMA TopPending ==
    ASSUME WalkInv, stack # <<>>
    PROVE  Top \in Pending
BY DEF WalkInv, Top

LEMMA ContainerTask ==
    ASSUME WalkInv, DescribeContainer
    PROVE  <<Task(Append(Top.path, IF Kind = "list" THEN "[]" ELSE "{}"),
                  Top.field.child, Top.depth + 1, Top.seen)>> \in Seq(Pending)
<1> DEFINE below == Task(Append(Top.path, IF Kind = "list" THEN "[]" ELSE "{}"),
                         Top.field.child, Top.depth + 1, Top.seen)
<1>1. Top \in Pending /\ Top.field.child \in Field
  BY TopPending, FieldShape DEF DescribeContainer, Kind, Pending
<1>2. (IF Kind = "list" THEN "[]" ELSE "{}") \in Label
  BY DEF Label
<1>3. Append(Top.path, IF Kind = "list" THEN "[]" ELSE "{}") \in Seq(Label)
  BY <1>1, <1>2, AppendProperties DEF Pending
<1>4. below \in Pending
  <2>1. /\ Top.depth + 1 \in Nat /\ Top.seen \in Seq(Class)
        /\ Len(Top.seen) <= (Top.depth + 1) + 1 /\ Len(Top.seen) <= MaxDepth + 1
        /\ \A j, k \in DOMAIN Top.seen : Top.seen[j] = Top.seen[k] => j = k
    BY <1>1 DEF Pending
  <2> QED
    BY <1>1, <1>3, <2>1 DEF Pending, Task
<1> HIDE DEF below
<1>5. <<below>> \in Seq(Pending)
  BY <1>4
<1> QED
  BY <1>5 DEF below

LEMMA ExpandTasks ==
    ASSUME WalkInv, Expand
    PROVE  Tasks(Top.path, Top.field.class, DOMAIN fields[Top.field.class].listed, Top.depth + 1,
                 Append(Top.seen, Top.field.class)) \in Seq(Pending)
<1> USE SerializerAssumption
<1> DEFINE c == Top.field.class
           seen == Append(Top.seen, c)
<1>1. Top \in Pending /\ c \in Class
  BY TopPending, FieldShape DEF Expand, IsSerializer, Kind, Pending
<1>2. /\ Top.seen \in Seq(Class) /\ Len(Top.seen) \in Nat
      /\ Top.path \in Seq(Label) /\ Top.depth \in Nat
      /\ Len(Top.seen) <= Top.depth + 1 /\ Len(Top.seen) <= MaxDepth + 1
      /\ \A j, k \in DOMAIN Top.seen : Top.seen[j] = Top.seen[k] => j = k
  BY <1>1 DEF Pending
<1>3. /\ \A i \in 1 .. Len(Top.seen) : Top.seen[i] # c
      /\ Top.depth < MaxDepth
  BY <1>2 DEF Expand, TooDeep, Contains
<1>4. /\ seen \in Seq(Class) /\ DOMAIN seen = 1 .. Len(Top.seen) + 1
      /\ DOMAIN Top.seen = 1 .. Len(Top.seen) /\ Len(seen) = Len(Top.seen) + 1
      /\ \A i \in 1 .. Len(Top.seen) : seen[i] = Top.seen[i]
      /\ seen[Len(Top.seen) + 1] = c
  BY <1>1, <1>2, AppendProperties
<1> HIDE DEF seen
<1>5. \A j, k \in DOMAIN seen : seen[j] = seen[k] => j = k
  <2>1. \A j \in DOMAIN seen : j \in 1 .. Len(Top.seen) \/ j = Len(Top.seen) + 1
    BY <1>2, <1>4
  <2> QED
    BY <1>2, <1>3, <1>4, <2>1
<1>6. DOMAIN fields[c].listed \in SUBSET DOMAIN fields[c].listed
  OBVIOUS
<1>7. Len(seen) <= (Top.depth + 1) + 1 /\ Len(seen) <= MaxDepth + 1
  BY <1>2, <1>3, <1>4
<1>8. Tasks(Top.path, c, DOMAIN fields[c].listed, Top.depth + 1, seen) \in Seq(Pending)
  <2>1. fields \in Graphs /\ Top.depth + 1 \in Nat
    BY <1>2 DEF WalkInv
  <2> HIDE DEF c
  <2> QED
    BY <1>1, <1>2, <1>4, <1>5, <1>6, <1>7, <2>1, TasksPending
<1> QED
  BY <1>8 DEF seen

-----------------------------------------------------------------------------
LEMMA WalkInit == SerializersInit => WalkInv
BY DEF SerializersInit, WalkInv, Role

LEMMA WalkNext == WalkInv /\ [SerializersNext]_svars => WalkInv'
<1> SUFFICES ASSUME WalkInv, [SerializersNext]_svars PROVE WalkInv'
  OBVIOUS
<1> USE SerializerAssumption
<1>1. CASE DescribeSerializer
  <2> DEFINE c == Serializer(Head(roles))
  <2>1. Head(roles) \in Role /\ roles' \in Seq(Role)
    BY <1>1 DEF DescribeSerializer, WalkInv
  <2>2. CASE c = None
    BY <1>1, <2>1, <2>2 DEF DescribeSerializer, WalkInv
  <2>3. CASE c # None
    <3>1. c \in Class
      <4>1. view \in [Attribute -> Class \cup {None}]
        BY DEF WalkInv
      <4> QED
        BY <2>3, <4>1 DEF Serializer
    <3>2. BoundFields(c) \in SUBSET DOMAIN fields[c].listed
      BY <3>1 DEF BoundFields, WalkInv
    <3>3. /\ <<Head(roles)>> \in Seq(Label) /\ <<c>> \in Seq(Class)
          /\ Len(<<c>>) = 1 /\ DOMAIN <<c>> = 1 .. 1
      <4>1. Head(roles) \in Label
        BY <2>1 DEF Label
      <4> QED
        BY <3>1, <4>1
    <3>4. /\ \A j, k \in DOMAIN <<c>> : <<c>>[j] = <<c>>[k] => j = k
          /\ Len(<<c>>) <= 0 + 1 /\ Len(<<c>>) <= MaxDepth + 1
      BY <3>3
    <3> HIDE DEF c
    <3>5. fields \in Graphs
      BY DEF WalkInv
    <3>6. Tasks(<<Head(roles)>>, c, BoundFields(c), 0, <<c>>) \in Seq(Pending)
      BY <3>1, <3>2, <3>3, <3>4, <3>5, TasksPending
    <3> QED
      BY <1>1, <2>1, <2>3, <3>6 DEF c, DescribeSerializer, WalkInv
  <2> QED
    BY <2>2, <2>3
<1>2. CASE DescribeTyped
  BY <1>2, <<>> \in Seq(Pending), DescribeKeeps DEF DescribeTyped
<1>3. CASE LeaveUnresolved
  BY <1>3, <<>> \in Seq(Pending), DescribeKeeps DEF LeaveUnresolved
<1>4. CASE DescribeContainer
  <2>1. stack # <<>>
    BY <1>4 DEF DescribeContainer
  <2> QED
    BY <1>4, <2>1, ContainerTask, DescribeKeeps DEF DescribeContainer
<1>5. CASE Truncate
  BY <1>5, <<>> \in Seq(Pending), DescribeKeeps DEF Truncate
<1>6. CASE Expand
  <2>1. stack # <<>>
    BY <1>6 DEF Expand
  <2> QED
    BY <1>6, <2>1, ExpandTasks, DescribeKeeps DEF Expand
<1>7. CASE Raise
  BY <1>7 DEF Raise, WalkInv
<1>8. CASE Finish
  BY <1>8 DEF Finish, WalkInv
<1>9. CASE UNCHANGED svars
  BY <1>9 DEF svars, WalkInv
<1> QED
  BY <1>1, <1>2, <1>3, <1>4, <1>5, <1>6, <1>7, <1>8, <1>9 DEF SerializersNext

\* On no way down is a class expanded twice, nor more than MaxDepth + 1 of them:
\* for any classes, however they contain each other (serializers.py:270-278).
THEOREM WalkIsBounded == SerializersSpec => []ExpandsOnce
<1>1. WalkInv => ExpandsOnce
  BY DEF WalkInv, ExpandsOnce, Pending
<1> QED
  BY WalkInit, WalkNext, <1>1, PTL DEF SerializersSpec

-----------------------------------------------------------------------------
(* Induction over lengths, with sets for predicates.                       *)

LEMMA LeastElement ==
    ASSUME NEW less, IsWellFoundedOn(less, Nat), NEW S, S \subseteq Nat, S # {}
    PROVE  \E x \in S : \A y \in S : ~ (<<y, x>> \in less)
BY WFMin

LEMMA Induction ==
    ASSUME NEW S, 0 \in S, \A n \in Nat : n \in S => n + 1 \in S
    PROVE  Nat \subseteq S
<1> DEFINE less == OpToRel(<, Nat)
           missing == Nat \ S
<1>1. IsWellFoundedOn(less, Nat)
  BY NatLessThanWellFounded
<1>2. \A x, y \in Nat : <<y, x>> \in less <=> y < x
  BY DEF OpToRel
<1> HIDE DEF less
<1>3. SUFFICES ASSUME missing # {} PROVE FALSE
  OBVIOUS
<1>4. PICK n \in missing : \A y \in missing : ~ (<<y, n>> \in less)
  BY <1>1, <1>3, LeastElement
<1>5. n \in Nat \ {0} /\ n - 1 \in Nat /\ n - 1 < n
  OBVIOUS
<1>6. n - 1 \in S
  BY <1>2, <1>4, <1>5
<1>7. n \in S
  BY <1>5, <1>6
<1> QED
  BY <1>7

-----------------------------------------------------------------------------
(* The tasks of a serializer are its fields, each once.                    *)

LEMMA SetToSeqOnce ==
    ASSUME NEW S, IsFiniteSet(S)
    PROVE  /\ \A i, j \in DOMAIN SetToSeq(S) : SetToSeq(S)[i] = SetToSeq(S)[j] => i = j
           /\ \A x \in S : \E i \in DOMAIN SetToSeq(S) : SetToSeq(S)[i] = x
<1> DEFINE n == Cardinality(S)
           f == SetToSeq(S)
<1>1. n \in Nat /\ ExistsBijection(1 .. n, S)
  BY FS_CardinalityType
<1>2. PICK g \in [1 .. n -> S] : IsInjective(g)
  BY <1>1 DEF ExistsBijection, Bijection, Injection
<1>3. f \in [1 .. n -> S] /\ IsInjective(f)
  BY <1>2 DEF SetToSeq
<1> HIDE DEF f
<1>4. f \in Injection(1 .. n, S)
  BY <1>3 DEF Injection
<1>5. Cardinality(1 .. n) = n
  BY <1>1, FS_Interval
<1>6. f \in Surjection(1 .. n, S)
  BY <1>4, <1>5, FS_Injection
<1>7. \A i, j \in DOMAIN f : f[i] = f[j] => i = j
  BY <1>3 DEF IsInjective
<1>8. \A x \in S : \E i \in DOMAIN f : f[i] = x
  BY <1>3, <1>6 DEF Surjection
<1> QED
  BY <1>7, <1>8 DEF f

\* No two names lead to one path.
LEMMA PathsApart ==
    ASSUME NEW p \in Seq(Label), NEW q \in Seq(Label), NEW x \in Label, NEW y \in Label,
           Append(p, x) = Append(q, y)
    PROVE  p = q /\ x = y
<1>1. Len(p) = Len(q)
  <2>1. Len(Append(p, x)) = Len(p) + 1 /\ Len(Append(q, y)) = Len(q) + 1
    BY AppendProperties
  <2> QED
    BY <2>1
<1>2. \A i \in 1 .. Len(p) : p[i] = q[i]
  BY <1>1, AppendProperties
<1>3. x = y
  BY <1>1, AppendProperties
<1> QED
  BY <1>1, <1>2, <1>3, SeqEqual

LEMMA TasksAreFields ==
    ASSUME fields \in Graphs, NEW path \in Seq(Label), NEW c \in Class,
           NEW names \in SUBSET DOMAIN fields[c].listed, NEW depth, NEW seen
    PROVE  LET tasks == Tasks(path, c, names, depth, seen)
           IN  /\ names \subseteq Name
               /\ \A i \in DOMAIN tasks : \E n \in names :
                     tasks[i] = Task(Append(path, n), fields[c].listed[n], depth, seen)
               /\ \A n \in names : \E i \in DOMAIN tasks :
                     tasks[i] = Task(Append(path, n), fields[c].listed[n], depth, seen)
               /\ \A i, j \in DOMAIN tasks : tasks[i].path = tasks[j].path => i = j
<1> DEFINE order == SetToSeq(names)
           tasks == Tasks(path, c, names, depth, seen)
<1>1. fields[c] \in Instances
  BY SerializerAssumption
<1>2. names \subseteq Name
  BY <1>1 DEF Instances
<1>3. IsFiniteSet(names)
  BY <1>2, FS_Subset, SerializerAssumption
<1>4. /\ order \in Seq(names)
      /\ \A i, j \in DOMAIN order : order[i] = order[j] => i = j
      /\ \A n \in names : \E i \in DOMAIN order : order[i] = n
  BY <1>3, SetToSeqTyped, SetToSeqOnce
<1> HIDE DEF order
<1>5. DOMAIN tasks = DOMAIN order
  BY DEF Tasks, order
<1>6. \A i \in DOMAIN order :
          tasks[i] = Task(Append(path, order[i]), fields[c].listed[order[i]], depth, seen)
  BY DEF Tasks, order
<1>7. \A i \in DOMAIN order : order[i] \in names
  BY <1>4
<1> HIDE DEF tasks
<1>8. \A i \in DOMAIN order : order[i] \in Label
  BY <1>2, <1>7 DEF Label
<1>9. ASSUME NEW i \in DOMAIN tasks, NEW j \in DOMAIN tasks, tasks[i].path = tasks[j].path
      PROVE  i = j
  <2>1. Append(path, order[i]) = Append(path, order[j])
    BY <1>5, <1>6, <1>9 DEF Task
  <2>2. order[i] = order[j]
    BY <1>5, <1>8, <2>1, PathsApart
  <2> QED
    BY <1>4, <1>5, <2>2
<1> QED
  BY <1>2, <1>4, <1>5, <1>6, <1>7, <1>9 DEF tasks

-----------------------------------------------------------------------------
(* The payloads, level by level: that the recursion has a solution.        *)

FirstLevel ==
    UNION {Below(At(<<r>>, Nested(Serializer(r)))) :
              r \in {r \in Role : Serializer(r) # None /\ how[r] = "bound"}}

NextLevel(level) == UNION {Below(p) : p \in level}

LEMMA LevelsExist ==
    \A m \in Nat : \E f :
        \A n \in 1 .. m : f[n] = IF n = 1 THEN FirstLevel ELSE NextLevel(f[n - 1])
<1> DEFINE Solves(f, m) ==
               \A n \in 1 .. m : f[n] = IF n = 1 THEN FirstLevel ELSE NextLevel(f[n - 1])
           solved == {m \in Nat : \E f : Solves(f, m)}
<1>1. 0 \in solved
  OBVIOUS
<1>2. ASSUME NEW m \in Nat, m \in solved PROVE m + 1 \in solved
  <2>1. PICK f : Solves(f, m)
    BY <1>2
  <2> DEFINE top == IF m = 0 THEN FirstLevel ELSE NextLevel(f[m])
             g == [n \in 1 .. m + 1 |-> IF n = m + 1 THEN top ELSE f[n]]
  <2>2. ASSUME NEW n \in 1 .. m + 1
        PROVE  g[n] = IF n = 1 THEN FirstLevel ELSE NextLevel(g[n - 1])
    <3> HIDE DEF top
    <3>1. CASE n = m + 1
      <4>1. g[n] = top
        BY <3>1
      <4>2. m # 0 => g[n - 1] = f[m]
        BY <3>1
      <4> HIDE DEF g
      <4> QED
        BY <3>1, <4>1, <4>2 DEF top
    <3>2. CASE n # m + 1
      <4>1. n \in 1 .. m
        BY <3>2
      <4>2. g[n] = f[n] /\ (n # 1 => g[n - 1] = f[n - 1])
        BY <4>1
      <4>3. f[n] = IF n = 1 THEN FirstLevel ELSE NextLevel(f[n - 1])
        BY <2>1, <4>1
      <4> HIDE DEF g
      <4> QED
        BY <4>2, <4>3
    <3> QED
      BY <3>1, <3>2
  <2> HIDE DEF g
  <2>3. Solves(g, m + 1)
    BY <2>2
  <2> QED
    BY <2>3
<1> HIDE DEF Solves
<1>3. Nat \subseteq solved
  <2> HIDE DEF solved
  <2> QED
    BY <1>1, <1>2, Induction
<1> QED
  BY <1>3 DEF Solves

LEMMA PayloadLevels ==
    \A n \in 1 .. MaxLength :
        Payload[n] = IF n = 1 THEN FirstLevel ELSE NextLevel(Payload[n - 1])
<1> DEFINE Level(f, n) == IF n = 1 THEN FirstLevel ELSE NextLevel(f[n - 1])
<1>1. PICK f : \A n \in 1 .. MaxLength : f[n] = Level(f, n)
  BY LevelsExist, SerializerAssumption
<1> DEFINE g == [n \in 1 .. MaxLength |-> f[n]]
<1>2. \A n \in 1 .. MaxLength : g[n] = Level(g, n)
  <2>1. \A n \in 1 .. MaxLength : n # 1 => n - 1 \in 1 .. MaxLength
    BY SerializerAssumption
  <2> HIDE DEF Level
  <2>2. \A n \in 1 .. MaxLength : Level(g, n) = Level(f, n)
    BY <2>1 DEF Level
  <2> QED
    BY <1>1, <2>2
<1>3. g = [n \in 1 .. MaxLength |-> Level(g, n)]
  <2> HIDE DEF Level
  <2> QED
    BY <1>2
<1> HIDE DEF g
<1>4. \E h : h = [n \in 1 .. MaxLength |-> Level(h, n)]
  BY <1>3
<1>5. Payload = [n \in 1 .. MaxLength |-> Level(Payload, n)]
  BY <1>4 DEF Payload, FirstLevel, NextLevel
<1> QED
  BY <1>5


-----------------------------------------------------------------------------
(***************************************************************************)
(* What is described and what still waits, as positions of the payloads:   *)
(* `at' is the field that was described at each path.                      *)
(***************************************************************************)
Mark == {"typed", "container", "truncated", "unresolved"}

Paths ==
    {p \in Seq(Label) :
        /\ Len(p) >= 2 /\ p[1] \in Role
        /\ \A i \in 2 .. Len(p) : p[i] \in Followed}

Root(r) == At(<<r>>, Nested(Serializer(r)))

Waiting(q) == \E i \in DOMAIN stack : stack[i].path = q.path /\ stack[i].field = q.field

Handled(at, q) == (q.path \in DOMAIN described /\ at[q.path] = q.field) \/ Waiting(q)

\* what waits is not described yet, each of it waits once, at the depth of its path
Placed ==
    /\ \A p \in DOMAIN described : p \in Paths /\ described[p] \in Mark
    /\ \A i \in DOMAIN stack :
          /\ stack[i].path \in Paths \ DOMAIN described
          /\ stack[i].depth + 2 = Len(stack[i].path)
    /\ \A i, j \in DOMAIN stack : stack[i].path = stack[j].path => i = j

\* the first level belongs to the serializer of a role, the others to what is described
Origin(at, p, f) ==
    \/ Len(p) = 2 /\ (how[p[1]] = "bound" => At(p, f) \in Below(Root(p[1])))
    \/ \E q \in DOMAIN described : At(p, f) \in Below(At(q, at[q]))

Origins(at) ==
    /\ \A p \in DOMAIN described : Origin(at, p, at[p])
    /\ \A i \in DOMAIN stack : Origin(at, stack[i].path, stack[i].field)

\* a class is seen only where it is the serializer of the role or stands above
SeenAbove(at, path, c) ==
    c = Serializer(path[1]) \/ \E q \in Above(path) : at[q] = Nested(c)

Remembered(at) ==
    \A i \in DOMAIN stack : \A j \in DOMAIN stack[i].seen :
        SeenAbove(at, stack[i].path, stack[i].seen[j])

\* a role is described once, and until then nothing is known of it
RolesKept ==
    /\ \A i, j \in DOMAIN roles : roles[i] = roles[j] => i = j
    /\ how \in [Role -> {None, "bound", "declared"}]
    /\ \A r \in Role :
          IF \E i \in DOMAIN roles : roles[i] = r
          THEN /\ how[r] = None
               /\ \A p \in DOMAIN described : p[1] # r
               /\ \A i \in DOMAIN stack : stack[i].path[1] # r
          ELSE how[r] = IF Serializer(r) = None THEN None
                        ELSE IF Bound(Serializer(r)) THEN "bound" ELSE "declared"

Rooted(at) ==
    \A r \in Role : how[r] = "bound" => \A q \in Below(Root(r)) : Handled(at, q)

Contained(at) ==
    \A p \in DOMAIN described : described[p] = "container" =>
        \A q \in Below(At(p, at[p])) : Handled(at, q)

\* a mark says what the field is
MarkOf(at, p, f, mark) ==
    CASE mark = "typed"      -> f.kind = "typed"
      [] mark = "container"  -> f.kind \in {"list", "dict", "nested"}
      [] mark = "unresolved" -> f.kind = "opaque" \/ (f.kind = "nested" /\ fields[f.class].raises # None)
      [] mark = "truncated"  ->
            /\ f.kind = "nested"
            /\ Len(p) >= MaxDepth + 2 \/ SeenAbove(at, p, f.class)

Marked(at) == \A p \in DOMAIN described : MarkOf(at, p, at[p], described[p])

Account(at) ==
    /\ Placed /\ RolesKept
    /\ Origins(at) /\ Remembered(at)
    /\ Rooted(at) /\ Contained(at) /\ Marked(at)
    /\ outcome = "done" => stack = <<>> /\ roles = <<>>

GapInv ==
    /\ WalkInv
    /\ outcome # "raised" => \E at \in [DOMAIN described -> Field] : Account(at)

-----------------------------------------------------------------------------
(* Paths, and what stands above and below them.                            *)

LEMMA AppendPath ==
    ASSUME NEW p \in Seq(Label), NEW x \in Followed, p[1] \in Role,
           Len(p) = 1 \/ p \in Paths
    PROVE  /\ Append(p, x) \in Paths
           /\ Len(Append(p, x)) = Len(p) + 1
           /\ Append(p, x)[1] = p[1]
<1>1. x \in Label /\ Len(p) \in Nat /\ Len(p) >= 1
  <2>1. x \in Label
    BY DEF Followed, Label
  <2>2. Len(p) \in Nat
    BY LenProperties
  <2> QED
    BY <2>1, <2>2 DEF Paths
<1>2. /\ Append(p, x) \in Seq(Label) /\ Len(Append(p, x)) = Len(p) + 1
      /\ \A i \in 1 .. Len(p) : Append(p, x)[i] = p[i]
      /\ Append(p, x)[Len(p) + 1] = x
  BY <1>1, AppendProperties
<1>3. \A i \in 2 .. Len(p) : p[i] \in Followed
  BY DEF Paths
<1>4. \A i \in 2 .. Len(p) + 1 : i \in 2 .. Len(p) \/ i = Len(p) + 1
  BY <1>1
<1>5. \A i \in 2 .. Len(p) + 1 : Append(p, x)[i] \in Followed
  BY <1>2, <1>3, <1>4
<1>6. Append(p, x)[1] = p[1]
  BY <1>1, <1>2
<1> DEFINE below == Append(p, x)
<1>7. /\ below \in Seq(Label) /\ Len(below) >= 2 /\ below[1] \in Role
      /\ \A i \in 2 .. Len(below) : below[i] \in Followed
  BY <1>1, <1>2, <1>5, <1>6
<1> HIDE DEF below
<1>8. below \in Paths
  BY <1>7 DEF Paths
<1> QED
  BY <1>2, <1>6, <1>8 DEF below

LEMMA PathType ==
    ASSUME NEW p \in Paths
    PROVE  p \in Seq(Label) /\ Len(p) \in Nat /\ Len(p) >= 2 /\ p[1] \in Role
BY DEF Paths

LEMMA BelowShape ==
    ASSUME fields \in Graphs, NEW p, NEW f \in Field, NEW q \in Below(At(p, f))
    PROVE  \E x \in Followed : \E g \in Field : q = At(Append(p, x), g)
<1>1. f.kind \in {"typed", "opaque", "nested", "list", "dict"}
  BY FieldShape
<1>2. CASE f.kind = "list"
  BY <1>2, FieldShape DEF Below, At, Followed
<1>3. CASE f.kind = "dict"
  BY <1>3, FieldShape DEF Below, At, Followed
<1>4. CASE f.kind = "nested"
  <2>1. fields[f.class] \in Instances
    BY <1>4, FieldShape, SerializerAssumption
  <2>2. PICK n \in DOMAIN fields[f.class].listed : q = At(Append(p, n), fields[f.class].listed[n])
    BY <1>4 DEF Below, At
  <2>3. n \in Name /\ fields[f.class].listed[n] \in Field
    BY <2>1 DEF Instances
  <2> QED
    BY <2>2, <2>3 DEF Followed
<1>5. CASE f.kind \in {"typed", "opaque"}
  BY <1>5 DEF Below, At
<1> QED
  BY <1>1, <1>2, <1>3, <1>4, <1>5

\* What starts a path starts those below it, and so does the path.
LEMMA PrefixesGrow ==
    ASSUME NEW q \in Seq(Label), Len(q) >= 1, NEW x \in Label
    PROVE  LET p == Append(q, x)
           IN  /\ {SubSeq(q, 1, n) : n \in 1 .. Len(q) - 1} \subseteq {SubSeq(p, 1, n) : n \in 1 .. Len(p) - 1}
               /\ q \in {SubSeq(p, 1, n) : n \in 1 .. Len(p) - 1}
<1> DEFINE p == Append(q, x)
<1>1. p \in Seq(Label) /\ Len(p) = Len(q) + 1 /\ \A i \in 1 .. Len(q) : p[i] = q[i]
  BY AppendProperties
<1> HIDE DEF p
<1>2. \A n \in 1 .. Len(q) : SubSeq(q, 1, n) = SubSeq(p, 1, n)
  BY <1>1
<1>3. SubSeq(q, 1, Len(q)) = q
  OBVIOUS
<1>4. \A n \in 1 .. Len(q) : n \in 1 .. Len(p) - 1
  BY <1>1
<1>5. \A n \in 1 .. Len(q) : SubSeq(q, 1, n) \in {SubSeq(p, 1, m) : m \in 1 .. Len(p) - 1}
  BY <1>2, <1>4
<1>6. Len(q) \in 1 .. Len(q) /\ \A n \in 1 .. Len(q) - 1 : n \in 1 .. Len(q)
  OBVIOUS
<1> QED
  BY <1>3, <1>5, <1>6 DEF p

\* What is above a path starts as the path does.
LEMMA AboveStarts ==
    ASSUME NEW p \in Seq(Label), NEW q \in Above(p)
    PROVE  q \in DOMAIN described /\ q[1] = p[1] /\ Len(q) < Len(p)
<1>1. PICK n \in 1 .. Len(p) - 1 : q = SubSeq(p, 1, n)
  BY DEF Above
<1>2. Len(q) = n /\ q[1] = p[1]
  BY <1>1
<1> QED
  BY <1>1, <1>2 DEF Above

-----------------------------------------------------------------------------
(* Describing a field keeps the account.                                   *)

LEMMA StackAfter ==
    ASSUME stack \in Seq(Pending), stack # <<>>,
           NEW tasks \in Seq(Pending), stack' = tasks \o Tail(stack)
    PROVE  /\ \A i \in DOMAIN tasks : i \in DOMAIN stack' /\ stack'[i] = tasks[i]
           /\ \A j \in DOMAIN stack : j # 1 =>
                 Len(tasks) + j - 1 \in DOMAIN stack' /\ stack'[Len(tasks) + j - 1] = stack[j]
           /\ \A i \in DOMAIN stack' :
                 \/ i \in DOMAIN tasks /\ stack'[i] = tasks[i]
                 \/ \E j \in DOMAIN stack : j # 1 /\ i = Len(tasks) + j - 1 /\ stack'[i] = stack[j]
<1>1. /\ Len(stack) \in Nat /\ Len(stack) >= 1 /\ DOMAIN stack = 1 .. Len(stack)
      /\ Len(tasks) \in Nat /\ DOMAIN tasks = 1 .. Len(tasks)
  OBVIOUS
<1>2. /\ Tail(stack) \in Seq(Pending) /\ Len(Tail(stack)) = Len(stack) - 1
      /\ \A k \in 1 .. Len(stack) - 1 : Tail(stack)[k] = stack[k + 1]
  OBVIOUS
<1>3. /\ Len(stack') = Len(tasks) + Len(stack) - 1 /\ DOMAIN stack' = 1 .. Len(tasks) + Len(stack) - 1
      /\ \A i \in 1 .. Len(tasks) : stack'[i] = tasks[i]
      /\ \A i \in Len(tasks) + 1 .. Len(tasks) + Len(stack) - 1 : stack'[i] = Tail(stack)[i - Len(tasks)]
  BY <1>1, <1>2, ConcatProperties
<1>4. ASSUME NEW j \in DOMAIN stack, j # 1
      PROVE  Len(tasks) + j - 1 \in DOMAIN stack' /\ stack'[Len(tasks) + j - 1] = stack[j]
  BY <1>1, <1>2, <1>3, <1>4
<1>5. ASSUME NEW i \in DOMAIN stack'
      PROVE  \/ i \in DOMAIN tasks /\ stack'[i] = tasks[i]
             \/ \E j \in DOMAIN stack : j # 1 /\ i = Len(tasks) + j - 1 /\ stack'[i] = stack[j]
  <2>1. CASE i <= Len(tasks)
    BY <1>1, <1>3, <2>1
  <2>2. CASE i > Len(tasks)
    <3>1. i + 1 - Len(tasks) \in DOMAIN stack /\ i + 1 - Len(tasks) # 1
      BY <1>1, <1>3, <2>2
    <3>2. i = Len(tasks) + (i + 1 - Len(tasks)) - 1
      BY <1>1, <1>3
    <3> QED
      BY <1>4, <3>1, <3>2
  <2> QED
    BY <1>1, <1>3, <2>1, <2>2
<1> QED
  BY <1>1, <1>3, <1>4, <1>5

\* tasks that describing the field on top may leave: positions below it, each once,
\* that remember no more than it does and its own class
Replaces(tasks) ==
    /\ \A i \in DOMAIN tasks :
          /\ At(tasks[i].path, tasks[i].field) \in Below(At(Top.path, Top.field))
          /\ tasks[i].depth = Top.depth + 1
          /\ \A j \in DOMAIN tasks[i].seen :
                \/ Top.field = Nested(tasks[i].seen[j])
                \/ \E k \in DOMAIN Top.seen : tasks[i].seen[j] = Top.seen[k]
    /\ \A i, j \in DOMAIN tasks : tasks[i].path = tasks[j].path => i = j

Covers(tasks, positions) ==
    \A q \in positions : \E i \in DOMAIN tasks : tasks[i].path = q.path /\ tasks[i].field = q.field

LEMMA DescribeAccounts ==
    ASSUME WalkInv, stack # <<>>, NEW at \in [DOMAIN described -> Field], Account(at),
           NEW mark \in Mark, NEW tasks \in Seq(Pending), Describe(mark, tasks),
           MarkOf(at, Top.path, Top.field, mark), Replaces(tasks),
           mark = "container" => Covers(tasks, Below(At(Top.path, Top.field)))
    PROVE  \E later \in [DOMAIN described' -> Field] : Account(later)'
<1>1. /\ stack \in Seq(Pending) /\ Top = stack[1] /\ 1 \in DOMAIN stack
      /\ fields \in Graphs /\ Top \in Pending
  BY TopPending DEF WalkInv, Top
<1>2. PICK top, f : top = Top.path /\ f = Top.field
  OBVIOUS
<1>3. /\ top \in Paths /\ top \notin DOMAIN described /\ f \in Field
      /\ top \in Seq(Label) /\ Len(top) >= 2 /\ Len(top) \in Nat /\ top[1] \in Role
      /\ Top.depth + 2 = Len(top) /\ Top.depth \in Nat
  BY <1>1, <1>2, PathType DEF Account, Placed, Pending
<1>4. /\ DOMAIN described' = DOMAIN described \cup {top}
      /\ described'[top] = mark
      /\ \A p \in DOMAIN described : described'[p] = described[p]
      /\ stack' = tasks \o Tail(stack)
      /\ UNCHANGED <<view, fields, roles, how, outcome>>
  BY <1>2, <1>3 DEF Describe
<1>5. PICK later : later = [p \in DOMAIN described \cup {top} |-> IF p = top THEN f ELSE at[p]]
  OBVIOUS
<1>6. /\ later \in [DOMAIN described' -> Field] /\ later[top] = f
      /\ \A p \in DOMAIN described : later[p] = at[p]
  BY <1>3, <1>4, <1>5
<1>7. /\ \A i \in DOMAIN tasks : i \in DOMAIN stack' /\ stack'[i] = tasks[i]
      /\ \A j \in DOMAIN stack : j # 1 =>
            Len(tasks) + j - 1 \in DOMAIN stack' /\ stack'[Len(tasks) + j - 1] = stack[j]
      /\ \A i \in DOMAIN stack' :
            \/ i \in DOMAIN tasks /\ stack'[i] = tasks[i]
            \/ \E j \in DOMAIN stack : j # 1 /\ i = Len(tasks) + j - 1 /\ stack'[i] = stack[j]
  BY <1>1, <1>4, StackAfter
\* the tasks stand right below the field
<1>8. ASSUME NEW i \in DOMAIN tasks
      PROVE  \E x \in Followed :
                 /\ tasks[i].path = Append(top, x)
                 /\ tasks[i].path \in Paths
                 /\ Len(tasks[i].path) = Len(top) + 1
                 /\ tasks[i].path[1] = top[1]
  <2>1. PICK q \in Below(At(top, f)) : q = At(tasks[i].path, tasks[i].field)
    BY <1>2 DEF Replaces
  <2>2. PICK x \in Followed, g \in Field : q = At(Append(top, x), g)
    BY <1>1, <1>3, <2>1, BelowShape
  <2>3. tasks[i].path = Append(top, x)
    BY <2>1, <2>2 DEF At
  <2> QED
    BY <1>3, <2>3, AppendPath
\* nothing that stands below it is known yet
<1>9. ASSUME NEW p, NEW g, Origin(at, p, g), NEW x \in Followed
      PROVE  p # Append(top, x)
  <2>1. x \in Label
    BY DEF Followed, Label
  <2>2. Len(Append(top, x)) = Len(top) + 1
    BY <1>3, <2>1, AppendProperties
  <2>3. CASE Len(p) = 2
    <3> DEFINE below == Append(top, x)
    <3> HIDE DEF below
    <3>1. Len(below) # 2
      BY <1>3, <2>2 DEF below
    <3>2. p # below
      BY <2>3, <3>1
    <3> QED
      BY <3>2 DEF below
  <2>4. CASE \E q \in DOMAIN described : At(p, g) \in Below(At(q, at[q]))
    <3>1. PICK q \in DOMAIN described : At(p, g) \in Below(At(q, at[q]))
      BY <2>4
    <3>2. q \in Seq(Label) /\ at[q] \in Field
      BY PathType DEF Account, Placed
    <3>3. PICK y \in Followed : p = Append(q, y)
      BY <1>1, <3>1, <3>2, BelowShape DEF At
    <3>4. y \in Label
      BY DEF Followed, Label
    <3> QED
      BY <1>3, <2>1, <3>2, <3>3, <3>4, PathsApart
  <2> QED
    BY <1>9, <2>3, <2>4 DEF Origin
<1>10. Placed'
  <2>1. ASSUME NEW p \in DOMAIN described' PROVE p \in Paths /\ described'[p] \in Mark
    BY <1>3, <1>4, <2>1 DEF Account, Placed
  <2>2. ASSUME NEW i \in DOMAIN tasks
        PROVE  /\ tasks[i].path \in Paths /\ tasks[i].path \notin DOMAIN described'
               /\ tasks[i].depth + 2 = Len(tasks[i].path)
               /\ \A j \in DOMAIN stack : stack[j].path # tasks[i].path
    <3>1. PICK x \in Followed : /\ tasks[i].path = Append(top, x)
                                /\ tasks[i].path \in Paths
                                /\ Len(tasks[i].path) = Len(top) + 1
      BY <1>8
    <3>2. tasks[i].path \notin DOMAIN described
      BY <1>9, <3>1 DEF Account, Origins
    <3>3. \A j \in DOMAIN stack : stack[j].path # tasks[i].path
      BY <1>9, <3>1 DEF Account, Origins
    <3>4. tasks[i].path # top
      BY <1>3, <3>1
    <3>5. tasks[i].depth = Top.depth + 1
      BY DEF Replaces
    <3> QED
      BY <1>3, <1>4, <3>1, <3>2, <3>3, <3>4, <3>5
  <2>3. ASSUME NEW j \in DOMAIN stack, j # 1
        PROVE  /\ stack[j].path \in Paths \ DOMAIN described'
               /\ stack[j].depth + 2 = Len(stack[j].path)
    <3>1. /\ stack[j].path \in Paths \ DOMAIN described
          /\ stack[j].depth + 2 = Len(stack[j].path)
          /\ stack[j].path # stack[1].path
      BY <1>1, <2>3 DEF Account, Placed
    <3> QED
      BY <1>1, <1>2, <1>4, <3>1
  <2>4. ASSUME NEW i \in DOMAIN stack'
        PROVE  /\ stack'[i].path \in Paths \ DOMAIN described'
               /\ stack'[i].depth + 2 = Len(stack'[i].path)
    BY <1>7, <2>2, <2>3
  <2>5. ASSUME NEW i \in DOMAIN stack', NEW j \in DOMAIN stack', stack'[i].path = stack'[j].path
        PROVE  i = j
    <3>1. CASE i \in DOMAIN tasks /\ stack'[i] = tasks[i]
      <4>1. j \in DOMAIN tasks /\ stack'[j] = tasks[j]
        BY <1>7, <2>2, <2>5, <3>1
      <4> QED
        BY <2>5, <3>1, <4>1 DEF Replaces
    <3>2. CASE \E k \in DOMAIN stack : k # 1 /\ i = Len(tasks) + k - 1 /\ stack'[i] = stack[k]
      <4>1. \E k \in DOMAIN stack : k # 1 /\ j = Len(tasks) + k - 1 /\ stack'[j] = stack[k]
        BY <1>7, <2>2, <2>5, <3>2
      <4>2. \A k, l \in DOMAIN stack : stack[k].path = stack[l].path => k = l
        BY DEF Account, Placed
      <4> QED
        BY <2>5, <3>2, <4>1, <4>2
    <3> QED
      BY <1>7, <3>1, <3>2
  <2> QED
    BY <2>1, <2>4, <2>5 DEF Placed
\* what stands above a path still does, with the same field
<1>11. ASSUME NEW p, NEW c, SeenAbove(at, p, c) PROVE SeenAbove(later, p, c)'
  BY <1>4, <1>6, <1>11 DEF SeenAbove, Above, Serializer
<1>12. RolesKept'
  <2>1. \A p \in DOMAIN described' :
            p \in DOMAIN described \/ p = top
    BY <1>4
  <2>2. \A i \in DOMAIN stack' :
            \/ stack'[i].path[1] = top[1]
            \/ \E j \in DOMAIN stack : stack'[i].path[1] = stack[j].path[1]
    BY <1>7, <1>8
  <2>3. \A r \in Role : (\E i \in DOMAIN roles : roles[i] = r) => top[1] # r
    BY <1>1, <1>2 DEF Account, RolesKept
  <2>4. \A r \in Role : (\E i \in DOMAIN roles : roles[i] = r) =>
            /\ \A p \in DOMAIN described' : p[1] # r
            /\ \A i \in DOMAIN stack' : stack'[i].path[1] # r
    BY <2>1, <2>2, <2>3 DEF Account, RolesKept
  <2>5. \A r : Serializer(r)' = Serializer(r) /\ \A c : Bound(c)' = Bound(c)
    BY <1>4 DEF Serializer, Bound
  <2> QED
    BY <1>4, <2>4, <2>5 DEF Account, RolesKept
<1>13. \A q : Below(q)' = Below(q)
  BY <1>4 DEF Below
<1>14. \A r : Root(r)' = Root(r)
  BY <1>4 DEF Root, Serializer
<1>15. ASSUME NEW p, NEW g, Origin(at, p, g) PROVE Origin(later, p, g)'
  BY <1>4, <1>6, <1>13, <1>14, <1>15 DEF Origin
<1>16. Origins(later)'
  <2>1. \A p \in DOMAIN described : Origin(later, p, later[p])'
    BY <1>6, <1>15 DEF Account, Origins
  <2>2. \A j \in DOMAIN stack : \A p, g : p = stack[j].path /\ g = stack[j].field =>
            Origin(later, p, g)'
    BY <1>15 DEF Account, Origins
  <2>3. Origin(later, top, later[top])'
    BY <1>1, <1>2, <1>6, <2>2
  <2>4. \A i \in DOMAIN tasks : \A p, g : p = tasks[i].path /\ g = tasks[i].field =>
            Origin(later, p, g)'
    <3>1. \A i \in DOMAIN tasks : At(tasks[i].path, tasks[i].field) \in Below(At(top, f))
      BY <1>2 DEF Replaces
    <3> QED
      BY <1>4, <1>6, <1>13, <3>1 DEF Origin
  <2>5. \A i \in DOMAIN stack' : Origin(later, stack[i].path, stack[i].field)'
    BY <1>7, <2>2, <2>4 DEF Origin
  <2> QED
    BY <1>4, <2>1, <2>3, <2>5 DEF Origins
<1>17. Remembered(later)'
  <2>1. \A j \in DOMAIN stack : \A k \in DOMAIN stack[j].seen : \A p, c :
            p = stack[j].path /\ c = stack[j].seen[k] => SeenAbove(later, p, c)'
    BY <1>11 DEF Account, Remembered
  <2>2. \A i \in DOMAIN tasks : \A k \in DOMAIN tasks[i].seen : \A p, c :
            p = tasks[i].path /\ c = tasks[i].seen[k] => SeenAbove(later, p, c)'
    <3> SUFFICES ASSUME NEW i \in DOMAIN tasks, NEW k \in DOMAIN tasks[i].seen,
                        NEW p, NEW c, p = tasks[i].path, c = tasks[i].seen[k]
                 PROVE  SeenAbove(later, p, c)'
      OBVIOUS
    <3>1. PICK x \in Followed : p = Append(top, x) /\ p[1] = top[1]
      BY <1>8
    <3>2. x \in Label
      BY DEF Followed, Label
    <3>3. Above(top)' \subseteq Above(p)' /\ top \in Above(p)'
      BY <1>3, <1>4, <3>1, <3>2, PrefixesGrow DEF Above
    <3>4. CASE Top.field = Nested(c)
      BY <1>2, <1>6, <3>3, <3>4 DEF SeenAbove
    <3>5. CASE \E l \in DOMAIN Top.seen : c = Top.seen[l]
      <4>1. SeenAbove(later, top, c)'
        BY <1>1, <1>2, <2>1, <3>5
      <4>2. Serializer(p[1])' = Serializer(top[1])'
        BY <3>1
      <4> QED
        BY <3>1, <3>3, <4>1, <4>2 DEF SeenAbove
    <3> QED
      BY <3>4, <3>5 DEF Replaces
  <2>3. \A i \in DOMAIN stack' : \A k \in DOMAIN stack'[i].seen :
            SeenAbove(later, stack[i].path, stack[i].seen[k])'
    BY <1>7, <2>1, <2>2 DEF SeenAbove
  <2> QED
    BY <2>3 DEF Remembered
<1>18. ASSUME NEW q, Handled(at, q) PROVE Handled(later, q)'
  <2>1. CASE q.path \in DOMAIN described /\ at[q.path] = q.field
    BY <1>4, <1>6, <2>1 DEF Handled
  <2>2. CASE Waiting(q)
    <3>1. PICK j \in DOMAIN stack : stack[j].path = q.path /\ stack[j].field = q.field
      BY <2>2 DEF Waiting
    <3>2. CASE j = 1
      BY <1>1, <1>2, <1>4, <1>6, <3>1, <3>2 DEF Handled
    <3>3. CASE j # 1
      BY <1>7, <3>1, <3>3 DEF Handled, Waiting
    <3> QED
      BY <3>2, <3>3
  <2> QED
    BY <1>18, <2>1, <2>2 DEF Handled
<1>19. Rooted(later)'
  BY <1>4, <1>13, <1>14, <1>18 DEF Account, Rooted
<1>20. Contained(later)'
  <2>1. ASSUME NEW p \in DOMAIN described, described[p] = "container"
        PROVE  \A q \in Below(At(p, later[p])) : Handled(later, q)'
    BY <1>6, <1>18, <2>1 DEF Account, Contained
  <2>2. ASSUME mark = "container"
        PROVE  \A q \in Below(At(top, f)) : Handled(later, q)'
    BY <1>2, <1>7, <2>2 DEF Covers, Handled, Waiting
  <2> QED
    BY <1>4, <1>6, <1>13, <2>1, <2>2 DEF Contained
<1>21. Marked(later)'
  <2>1. ASSUME NEW m \in Mark, NEW p, NEW g, MarkOf(at, p, g, m)
        PROVE  MarkOf(later, p, g, m)'
    <3>1. CASE m = "typed"
      BY <2>1, <3>1 DEF MarkOf
    <3>2. CASE m = "container"
      BY <2>1, <3>2 DEF MarkOf
    <3>3. CASE m = "unresolved"
      BY <1>4, <2>1, <3>3 DEF MarkOf
    <3>4. CASE m = "truncated"
      <4>1. g.kind = "nested" /\ (Len(p) >= MaxDepth + 2 \/ SeenAbove(at, p, g.class))
        BY <2>1, <3>4 DEF MarkOf
      <4>2. SeenAbove(at, p, g.class) => SeenAbove(later, p, g.class)'
        BY <1>11
      <4> QED
        BY <3>4, <4>1, <4>2 DEF MarkOf
    <3> QED
      BY <3>1, <3>2, <3>3, <3>4 DEF Mark
  <2>3. \A p \in DOMAIN described : MarkOf(later, p, later[p], described[p])'
    <3>1. \A p \in DOMAIN described :
              described[p] \in Mark /\ MarkOf(at, p, later[p], described[p])
      BY <1>6 DEF Account, Marked, Placed
    <3>2. \A p \in DOMAIN described : described'[p] = described[p]
      BY <1>4
    <3> QED
      BY <2>1, <3>1, <3>2
  <2>2. MarkOf(later, top, f, mark)'
    BY <1>2, <2>1
  <2> QED
    BY <1>4, <1>6, <2>2, <2>3 DEF Marked
<1>22. outcome' # "done"
  <2>1. outcome # "done"
    BY DEF Account
  <2> QED
    BY <1>4, <2>1
<1>23. Account(later)'
  BY <1>10, <1>12, <1>16, <1>17, <1>19, <1>20, <1>21, <1>22 DEF Account
<1> QED
  BY <1>6, <1>23

-----------------------------------------------------------------------------
(* The first level of a role keeps the account.                            *)

LEMMA SerializerType ==
    ASSUME WalkInv, NEW r \in Role
    PROVE  Serializer(r) \in Class \cup {None}
<1>1. view \in [Attribute -> Class \cup {None}]
  BY SerializerAssumption DEF WalkInv
<1> QED
  BY <1>1, SerializerAssumption DEF Serializer, Role

LEMMA DescribeSerializerAccounts ==
    ASSUME WalkInv, NEW at \in [DOMAIN described -> Field], Account(at), DescribeSerializer
    PROVE  Account(at)'
<1>1. /\ fields \in Graphs /\ roles \in Seq(Role) /\ stack = <<>> /\ roles # <<>>
      /\ roles' = Tail(roles) /\ UNCHANGED <<view, fields, described, outcome>>
  BY DEF WalkInv, DescribeSerializer
<1>2. PICK r, c : r = Head(roles) /\ c = Serializer(r)
  OBVIOUS
<1>3. /\ r \in Role /\ c \in Class \cup {None} /\ 1 \in DOMAIN roles /\ roles[1] = r
  BY <1>1, <1>2, SerializerType
<1>4. /\ \A i \in DOMAIN roles' : i + 1 \in DOMAIN roles /\ roles'[i] = roles[i + 1]
      /\ \A i \in DOMAIN roles : i # 1 => i - 1 \in DOMAIN roles' /\ roles'[i - 1] = roles[i]
      /\ DOMAIN roles \subseteq Nat /\ DOMAIN roles' \subseteq Nat \ {0}
  BY <1>1
<1>5. \A i \in DOMAIN roles' : roles'[i] # r
  <2>1. \A i \in DOMAIN roles' : i + 1 # 1
    BY <1>4
  <2>2. \A i, j \in DOMAIN roles : roles[i] = roles[j] => i = j
    BY DEF Account, RolesKept
  <2> QED
    BY <1>3, <1>4, <2>1, <2>2
<1>6. \A i, j \in DOMAIN roles' : roles'[i] = roles'[j] => i = j
  <2>1. \A i, j \in DOMAIN roles' : roles'[i] = roles'[j] => i + 1 = j + 1
    BY <1>4 DEF Account, RolesKept
  <2> QED
    BY <1>4, <2>1
<1>7. ASSUME NEW s \in Role, s # r
      PROVE  (\E i \in DOMAIN roles' : roles'[i] = s) <=> (\E i \in DOMAIN roles : roles[i] = s)
  BY <1>3, <1>4, <1>7
<1>8. /\ how[r] = None /\ \A p \in DOMAIN described : p[1] # r
      /\ how \in [Role -> {None, "bound", "declared"}]
  BY <1>3 DEF Account, RolesKept
<1>9. \A s : Serializer(s)' = Serializer(s) /\ \A d : Bound(d)' = Bound(d)
  BY <1>1 DEF Serializer, Bound
<1>10. (\A q : Below(q)' = Below(q)) /\ (\A s : Root(s)' = Root(s))
  BY <1>1, <1>9 DEF Below, Root
<1>11. \A p, d : SeenAbove(at, p, d)' <=> SeenAbove(at, p, d)
  BY <1>1, <1>9 DEF SeenAbove, Above
<1>12. Marked(at)'
  <2>1. ASSUME NEW m \in Mark, NEW p, NEW g, MarkOf(at, p, g, m)
        PROVE  MarkOf(at, p, g, m)'
    <3>1. CASE m = "typed"
      BY <2>1, <3>1 DEF MarkOf
    <3>2. CASE m = "container"
      BY <2>1, <3>2 DEF MarkOf
    <3>3. CASE m = "unresolved"
      BY <1>1, <2>1, <3>3 DEF MarkOf
    <3>4. CASE m = "truncated"
      BY <1>11, <2>1, <3>4 DEF MarkOf
    <3> QED
      BY <3>1, <3>2, <3>3, <3>4 DEF Mark
  <2>2. \A p \in DOMAIN described : described[p] \in Mark /\ MarkOf(at, p, at[p], described[p])
    BY DEF Account, Marked, Placed
  <2>3. \A p \in DOMAIN described : MarkOf(at, p, at[p], described[p])'
    BY <1>1, <2>1, <2>2
  <2> QED
    BY <1>1, <2>3 DEF Marked
\* nothing was waiting
<1>13. \A q : Handled(at, q) => q.path \in DOMAIN described /\ at[q.path] = q.field
  BY <1>1 DEF Handled, Waiting
<1>14. Contained(at)'
  <2>1. \A p \in DOMAIN described : described[p] = "container" =>
            \A q \in Below(At(p, at[p])) : q.path \in DOMAIN described /\ at[q.path] = q.field
    BY <1>13 DEF Account, Contained
  <2> QED
    BY <1>1, <1>10, <2>1 DEF Contained, Handled
<1>15. /\ \A p \in DOMAIN described : p \in Paths /\ described[p] \in Mark
       /\ \A p \in DOMAIN described : p[1] \in Role
  BY PathType DEF Account, Placed
<1>16. (outcome = "done" => stack = <<>> /\ roles = <<>>)'
  BY <1>1 DEF Account
<1>17. CASE c = None
  <2>1. stack' = <<>> /\ how' = how
    BY <1>1, <1>2, <1>17 DEF DescribeSerializer
  <2>2. Placed'
    BY <1>1, <1>15, <2>1 DEF Placed
  <2>3. RolesKept'
    <3>1. \A s \in Role : IF \E i \in DOMAIN roles' : roles'[i] = s
                          THEN how[s] = None /\ \A p \in DOMAIN described : p[1] # s
                          ELSE how[s] = IF Serializer(s) = None THEN None
                                        ELSE IF Bound(Serializer(s)) THEN "bound" ELSE "declared"
      <4>1. CASE TRUE
        <5>1. how[r] = None /\ Serializer(r) = None
          BY <1>2, <1>8, <1>17
        <5> QED
          BY <1>5, <1>7, <5>1 DEF Account, RolesKept
      <4> QED
        BY <4>1
    <3> QED
      BY <1>1, <1>6, <1>8, <1>9, <2>1, <3>1 DEF RolesKept
  <2>4. Origins(at)'
    <3>1. \A p \in DOMAIN described : Origin(at, p, at[p])'
      BY <1>1, <1>10, <2>1 DEF Account, Origins, Origin
    <3> QED
      BY <1>1, <2>1, <3>1 DEF Origins
  <2>5. Remembered(at)'
    BY <2>1 DEF Remembered
  <2>6. Rooted(at)'
    BY <1>1, <1>10, <1>13, <2>1 DEF Account, Rooted, Handled
  <2> QED
    BY <1>12, <1>14, <1>16, <2>2, <2>3, <2>4, <2>5, <2>6 DEF Account
<1>18. CASE c # None
  <2> DEFINE tasks == Tasks(<<r>>, c, BoundFields(c), 0, <<c>>)
  <2>1. c \in Class
    BY <1>3, <1>18
  <2>2. BoundFields(c) \in SUBSET DOMAIN fields[c].listed
    BY <1>1, <2>1, SerializerAssumption DEF BoundFields
  <2>3. /\ <<r>> \in Seq(Label) /\ Len(<<r>>) = 1 /\ <<r>>[1] = r
    <3>1. r \in Label
      BY <1>3 DEF Label
    <3> QED
      BY <3>1
  <2>4. /\ BoundFields(c) \subseteq Name
        /\ \A i \in DOMAIN tasks : \E n \in BoundFields(c) :
              tasks[i] = Task(Append(<<r>>, n), fields[c].listed[n], 0, <<c>>)
        /\ \A n \in BoundFields(c) : \E i \in DOMAIN tasks :
              tasks[i] = Task(Append(<<r>>, n), fields[c].listed[n], 0, <<c>>)
        /\ \A i, j \in DOMAIN tasks : tasks[i].path = tasks[j].path => i = j
    BY <1>1, <2>1, <2>2, <2>3, TasksAreFields
  <2>5. stack' = tasks /\ how' = [how EXCEPT ![r] = IF Bound(c) THEN "bound" ELSE "declared"]
    BY <1>2, <1>18 DEF DescribeSerializer
  <2> HIDE DEF tasks
  <2>6. \A n \in BoundFields(c) :
            /\ Append(<<r>>, n) \in Paths /\ Len(Append(<<r>>, n)) = 2
            /\ Append(<<r>>, n)[1] = r
    <3>1. \A n \in BoundFields(c) : n \in Followed
      BY <2>4 DEF Followed
    <3>2. <<r>>[1] \in Role
      BY <1>3, <2>3
    <3> DEFINE single == <<r>>
    <3>3. single \in Seq(Label) /\ Len(single) = 1 /\ single[1] = r /\ single[1] \in Role
      BY <2>3, <3>2
    <3> HIDE DEF single
    <3>4. ASSUME NEW x \in Followed
          PROVE  /\ Append(single, x) \in Paths /\ Len(Append(single, x)) = 2
                 /\ Append(single, x)[1] = r
      <4>1. /\ Append(single, x) \in Paths /\ Len(Append(single, x)) = Len(single) + 1
            /\ Append(single, x)[1] = single[1]
        BY <3>3, AppendPath
      <4> DEFINE below == Append(single, x)
      <4> HIDE DEF below
      <4>2. below \in Paths /\ Len(below) = Len(single) + 1 /\ below[1] = single[1]
        BY <4>1 DEF below
      <4>3. below \in Paths /\ Len(below) = 2 /\ below[1] = r
        BY <3>3, <4>2
      <4> QED
        BY <4>3 DEF below
    <3> QED
      BY <3>1, <3>4 DEF single
  <2>7. \A i \in DOMAIN tasks :
            /\ tasks[i].path \in Paths /\ Len(tasks[i].path) = 2 /\ tasks[i].path[1] = r
            /\ tasks[i].depth = 0 /\ tasks[i].seen = <<c>>
    <3> SUFFICES ASSUME NEW i \in DOMAIN tasks
                 PROVE  /\ tasks[i].path \in Paths /\ Len(tasks[i].path) = 2
                        /\ tasks[i].path[1] = r
                        /\ tasks[i].depth = 0 /\ tasks[i].seen = <<c>>
      OBVIOUS
    <3>1. PICK n \in BoundFields(c) :
              tasks[i] = Task(Append(<<r>>, n), fields[c].listed[n], 0, <<c>>)
      BY <2>4
    <3>2. PICK p : p = Append(<<r>>, n)
      OBVIOUS
    <3>3. p \in Paths /\ Len(p) = 2 /\ p[1] = r
      BY <2>6, <3>2
    <3>4. tasks[i].path = p /\ tasks[i].depth = 0 /\ tasks[i].seen = <<c>>
      BY <3>1, <3>2 DEF Task
    <3> QED
      BY <3>3, <3>4
  <2>8. Placed'
    <3>1. \A i \in DOMAIN tasks : tasks[i].path \notin DOMAIN described
      BY <1>8, <2>7
    <3>2. \A i \in DOMAIN tasks : /\ tasks[i].path \in Paths \ DOMAIN described
                                  /\ tasks[i].depth + 2 = Len(tasks[i].path)
      <4> SUFFICES ASSUME NEW i \in DOMAIN tasks
                   PROVE  /\ tasks[i].path \in Paths \ DOMAIN described
                          /\ tasks[i].depth + 2 = Len(tasks[i].path)
        OBVIOUS
      <4>1. tasks[i].path \in Paths /\ Len(tasks[i].path) = 2 /\ tasks[i].depth = 0
        BY <2>7
      <4> QED
        BY <3>1, <4>1
    <3> QED
      BY <1>1, <1>15, <2>4, <2>5, <3>2 DEF Placed
  <2>9. /\ how'[r] = IF Bound(c) THEN "bound" ELSE "declared"
        /\ \A s \in Role : s # r => how'[s] = how[s]
        /\ how' \in [Role -> {None, "bound", "declared"}]
    BY <1>3, <1>8, <2>5
  <2>10. RolesKept'
    <3>1. ASSUME NEW s \in Role
          PROVE  IF \E i \in DOMAIN roles' : roles'[i] = s
                 THEN /\ how'[s] = None
                      /\ \A p \in DOMAIN described : p[1] # s
                      /\ \A i \in DOMAIN tasks : tasks[i].path[1] # s
                 ELSE how'[s] = IF Serializer(s) = None THEN None
                                ELSE IF Bound(Serializer(s)) THEN "bound" ELSE "declared"
      <4>1. CASE s = r
        BY <1>2, <1>5, <1>18, <2>9, <4>1
      <4>2. CASE s # r
        <5>1. \A i \in DOMAIN tasks : tasks[i].path[1] # s
          BY <2>7, <4>2
        <5> QED
          BY <1>7, <2>9, <4>2, <5>1 DEF Account, RolesKept
      <4> QED
        BY <4>1, <4>2
    <3> QED
      BY <1>1, <1>6, <1>9, <2>5, <2>9, <3>1 DEF RolesKept
  <2>11. Below(Root(r)) =
            IF Bound(c) THEN {At(Append(<<r>>, n), fields[c].listed[n]) : n \in BoundFields(c)}
            ELSE {}
    BY <1>2 DEF Root, Below, At, Nested, Bound, BoundFields
  <2>12. Origins(at)'
    <3>1. \A p \in DOMAIN described : Origin(at, p, at[p])'
      BY <1>1, <1>8, <1>10, <1>15, <2>9 DEF Account, Origins, Origin
    <3>2. \A i \in DOMAIN tasks : \A p, g : p = tasks[i].path /\ g = tasks[i].field =>
              Origin(at, p, g)'
      <4> SUFFICES ASSUME NEW i \in DOMAIN tasks, NEW p, NEW g, p = tasks[i].path, g = tasks[i].field
                   PROVE  Origin(at, p, g)'
        OBVIOUS
      <4>1. Len(p) = 2 /\ p[1] = r
        BY <2>7
      <4>2. PICK n \in BoundFields(c) : p = Append(<<r>>, n) /\ g = fields[c].listed[n]
        BY <2>4 DEF Task
      <4>3. how'[r] = "bound" => At(p, g) \in Below(Root(r))
        BY <2>9, <2>11, <4>2
      <4> QED
        BY <1>10, <4>1, <4>3 DEF Origin
    <3> QED
      BY <1>1, <2>5, <3>1, <3>2 DEF Origins, Origin
  <2>13. Remembered(at)'
    <3>1. DOMAIN <<c>> = {1} /\ <<c>>[1] = c
      OBVIOUS
    <3>2. Serializer(r)' = c
      BY <1>2, <1>9
    <3> QED
      BY <2>5, <2>7, <3>1, <3>2 DEF Remembered, SeenAbove
  <2>14. Rooted(at)'
    <3>1. ASSUME NEW s \in Role, s # r, how'[s] = "bound", NEW q \in Below(Root(s))
          PROVE  Handled(at, q)'
      BY <1>1, <1>13, <2>9, <3>1 DEF Account, Rooted, Handled
    <3>2. ASSUME how'[r] = "bound", NEW q \in Below(Root(r)) PROVE Handled(at, q)'
      <4>1. PICK n \in BoundFields(c) : q = At(Append(<<r>>, n), fields[c].listed[n])
        BY <2>9, <2>11, <3>2
      <4>2. PICK i \in DOMAIN tasks : tasks[i] = Task(Append(<<r>>, n), fields[c].listed[n], 0, <<c>>)
        BY <2>4
      <4> QED
        BY <2>5, <4>1, <4>2 DEF Handled, Waiting, At, Task
    <3> QED
      BY <1>10, <3>1, <3>2 DEF Rooted
  <2> QED
    BY <1>12, <1>14, <1>16, <2>8, <2>10, <2>12, <2>13, <2>14 DEF Account
<1> QED
  BY <1>17, <1>18

-----------------------------------------------------------------------------
LEMMA GapInit == SerializersInit => GapInv
<1> SUFFICES ASSUME SerializersInit PROVE GapInv
  OBVIOUS
<1>1. /\ DOMAIN described = {} /\ stack = <<>> /\ outcome = "running"
      /\ roles = <<"read", "write">> /\ how = [role \in Role |-> None]
  BY DEF SerializersInit
<1>2. PICK at : at = [p \in DOMAIN described |-> Typed]
  OBVIOUS
<1>3. at \in [DOMAIN described -> Field]
  BY <1>1, <1>2
<1>4. Placed
  BY <1>1 DEF Placed
<1>5. RolesKept
  <2>1. DOMAIN roles = {1, 2} /\ roles[1] = "read" /\ roles[2] = "write"
    BY <1>1
  <2>2. \A r \in Role : \E i \in DOMAIN roles : roles[i] = r
    BY <2>1 DEF Role
  <2> QED
    BY <1>1, <2>1, <2>2 DEF RolesKept
<1>6. Origins(at) /\ Remembered(at) /\ Contained(at) /\ Marked(at)
  BY <1>1 DEF Origins, Remembered, Contained, Marked
<1>7. Rooted(at)
  BY <1>1, SerializerAssumption DEF Rooted
<1>8. Account(at)
  BY <1>1, <1>4, <1>5, <1>6, <1>7 DEF Account
<1> QED
  BY <1>3, <1>8, WalkInit DEF GapInv

\* A field without tasks below it.
LEMMA LeafAccounts ==
    ASSUME WalkInv, stack # <<>>, NEW at \in [DOMAIN described -> Field], Account(at),
           NEW mark \in Mark \ {"container"}, Describe(mark, <<>>),
           MarkOf(at, Top.path, Top.field, mark)
    PROVE  \E later \in [DOMAIN described' -> Field] : Account(later)'
<1>1. <<>> \in Seq(Pending) /\ Replaces(<<>>)
  BY DEF Replaces
<1> QED
  BY <1>1, DescribeAccounts

\* Nothing of the account but its last part depends on the outcome.
LEMMA AccountStays ==
    ASSUME UNCHANGED <<view, fields, roles, stack, described, how>>, NEW at, Account(at),
           outcome' = "done" => stack = <<>> /\ roles = <<>>
    PROVE  Account(at)'
<1>1. \A r : Serializer(r)' = Serializer(r) /\ \A c : Bound(c)' = Bound(c)
  BY DEF Serializer, Bound
<1>2. (\A q : Below(q)' = Below(q)) /\ (\A r : Root(r)' = Root(r))
  BY <1>1 DEF Below, Root
<1>3. Placed' /\ RolesKept'
  BY <1>1 DEF Account, Placed, RolesKept
<1>4. Origins(at)'
  BY <1>2 DEF Account, Origins, Origin
<1>5. \A p, c : SeenAbove(at, p, c)' <=> SeenAbove(at, p, c)
  BY <1>1 DEF SeenAbove, Above
<1>6. Remembered(at)'
  BY <1>5 DEF Account, Remembered, SeenAbove
<1>7. \A q : Handled(at, q)' <=> Handled(at, q)
  BY DEF Handled, Waiting
<1>8. Rooted(at)' /\ Contained(at)'
  BY <1>2, <1>7 DEF Account, Rooted, Contained
<1>9. \A p, f, m : MarkOf(at, p, f, m)' = MarkOf(at, p, f, m)
  BY <1>5 DEF MarkOf
<1>10. Marked(at)'
  BY <1>9 DEF Account, Marked
<1> QED
  BY <1>3, <1>4, <1>6, <1>8, <1>10 DEF Account

LEMMA GapNext == GapInv /\ [SerializersNext]_svars => GapInv'
<1> SUFFICES ASSUME GapInv, [SerializersNext]_svars, outcome' # "raised"
             PROVE  \E later \in [DOMAIN described' -> Field] : Account(later)'
  BY WalkNext DEF GapInv
<1>1. WalkInv /\ fields \in Graphs
  BY DEF GapInv, WalkInv
<1>2. outcome # "raised"
  BY DEF SerializersNext, svars, DescribeSerializer, DescribeTyped, LeaveUnresolved,
         DescribeContainer, Truncate, Expand, Describe, Raise, Finish
<1>3. PICK at \in [DOMAIN described -> Field] : Account(at)
  BY <1>2 DEF GapInv
<1>4. ASSUME stack # <<>> PROVE Top \in Pending /\ Top = stack[1] /\ 1 \in DOMAIN stack
  BY <1>1, <1>4, TopPending DEF Top, WalkInv
<1>5. CASE DescribeSerializer
  <2>1. Account(at)' /\ described' = described
    BY <1>1, <1>3, <1>5, DescribeSerializerAccounts DEF DescribeSerializer
  <2> QED
    BY <1>3, <2>1
<1>6. CASE DescribeTyped
  <2>1. stack # <<>> /\ Describe("typed", <<>>) /\ MarkOf(at, Top.path, Top.field, "typed")
    BY <1>6 DEF DescribeTyped, MarkOf, Kind
  <2> QED
    BY <1>1, <1>3, <2>1, LeafAccounts DEF Mark
<1>7. CASE LeaveUnresolved
  <2>1. stack # <<>> /\ Describe("unresolved", <<>>)
    BY <1>7 DEF LeaveUnresolved
  <2>2. Top.field.kind = "opaque" \/ (Top.field.kind = "nested" /\ fields[Top.field.class].raises # None)
    BY <1>7, SerializerAssumption DEF LeaveUnresolved, Kind, Raises
  <2>3. MarkOf(at, Top.path, Top.field, "unresolved")
    BY <2>2 DEF MarkOf
  <2> QED
    BY <1>1, <1>3, <2>1, <2>3, LeafAccounts DEF Mark
<1>8. CASE Truncate
  <2>1. stack # <<>> /\ Describe("truncated", <<>>) /\ Top.field.kind = "nested"
    BY <1>8 DEF Truncate, IsSerializer, Kind
  <2>2. Top \in Pending /\ Top = stack[1] /\ 1 \in DOMAIN stack /\ Top.seen \in Seq(Class)
    BY <1>4, <2>1 DEF Pending
  <2>3. CASE Contains(Top.seen, Top.field.class)
    <3>1. PICK j \in DOMAIN Top.seen : Top.seen[j] = Top.field.class
      BY <2>2, <2>3 DEF Contains
    <3>2. SeenAbove(at, Top.path, Top.field.class)
      BY <1>3, <2>2, <3>1 DEF Account, Remembered
    <3>3. MarkOf(at, Top.path, Top.field, "truncated")
      BY <2>1, <3>2 DEF MarkOf
    <3> QED
      BY <1>1, <1>3, <2>1, <3>3, LeafAccounts DEF Mark
  <2>4. CASE Top.depth >= MaxDepth
    <3>1. Top.depth + 2 = Len(Top.path) /\ Top.depth \in Nat
      BY <1>3, <2>2 DEF Account, Placed, Pending
    <3>2. Len(Top.path) >= MaxDepth + 2
      BY <2>4, <3>1, SerializerAssumption
    <3>3. MarkOf(at, Top.path, Top.field, "truncated")
      BY <2>1, <3>2 DEF MarkOf
    <3> QED
      BY <1>1, <1>3, <2>1, <3>3, LeafAccounts DEF Mark
  <2> QED
    BY <1>8, <2>3, <2>4 DEF Truncate, TooDeep
<1>9. CASE DescribeContainer
  <2> DEFINE below == Task(Append(Top.path, IF Kind = "list" THEN "[]" ELSE "{}"),
                           Top.field.child, Top.depth + 1, Top.seen)
  <2>1. /\ stack # <<>> /\ Top.field.kind \in {"list", "dict"}
        /\ Describe("container", <<below>>)
    BY <1>9 DEF DescribeContainer, Kind
  <2>2. <<below>> \in Seq(Pending)
    BY <1>1, <1>9, ContainerTask
  <2>3. Below(At(Top.path, Top.field)) = {At(below.path, below.field)}
    BY <2>1 DEF Below, At, Kind, Task
  <2>4. below.depth = Top.depth + 1 /\ below.seen = Top.seen
    BY DEF Task
  <2>5. DOMAIN <<below>> = {1} /\ <<below>>[1] = below
    OBVIOUS
  <2> HIDE DEF below
  <2>6. Replaces(<<below>>)
    BY <2>3, <2>4, <2>5 DEF Replaces
  <2>7. Covers(<<below>>, Below(At(Top.path, Top.field)))
    BY <2>3, <2>5 DEF Covers, At
  <2>8. MarkOf(at, Top.path, Top.field, "container") /\ "container" \in Mark
    BY <2>1 DEF MarkOf, Mark
  <2> QED
    BY <1>1, <1>3, <2>1, <2>2, <2>6, <2>7, <2>8, DescribeAccounts
<1>10. CASE Expand
  <2> DEFINE c == Top.field.class
             seen == Append(Top.seen, c)
             tasks == Tasks(Top.path, c, DOMAIN fields[c].listed, Top.depth + 1, seen)
  <2>1. /\ stack # <<>> /\ Top.field.kind = "nested" /\ fields[c].raises = None
        /\ Describe("container", tasks)
    BY <1>10 DEF Expand, IsSerializer, Kind, Raises
  <2>2. tasks \in Seq(Pending)
    BY <1>1, <1>10, ExpandTasks
  <2>3. Top \in Pending
    BY <1>4, <2>1
  <2>4. c \in Class /\ Top.path \in Seq(Label) /\ Top.seen \in Seq(Class) /\ Top.field = Nested(c)
    BY <2>1, <2>3, FieldShape DEF Pending
  <2>5. /\ \A i \in DOMAIN tasks : \E n \in DOMAIN fields[c].listed :
              tasks[i] = Task(Append(Top.path, n), fields[c].listed[n], Top.depth + 1, seen)
        /\ \A n \in DOMAIN fields[c].listed : \E i \in DOMAIN tasks :
              tasks[i] = Task(Append(Top.path, n), fields[c].listed[n], Top.depth + 1, seen)
        /\ \A i, j \in DOMAIN tasks : tasks[i].path = tasks[j].path => i = j
    <3>1. PICK path, d, names, depth, way :
              /\ path = Top.path /\ d = c /\ names = DOMAIN fields[c].listed
              /\ depth = Top.depth + 1 /\ way = seen
      OBVIOUS
    <3>2. path \in Seq(Label) /\ d \in Class /\ names \in SUBSET DOMAIN fields[d].listed
      BY <2>4, <3>1
    <3> DEFINE these == Tasks(path, d, names, depth, way)
    <3>3. tasks = these
      BY <3>1
    <3> HIDE DEF tasks, c, seen
    <3>4. /\ \A i \in DOMAIN these : \E n \in names :
                these[i] = Task(Append(path, n), fields[d].listed[n], depth, way)
          /\ \A n \in names : \E i \in DOMAIN these :
                these[i] = Task(Append(path, n), fields[d].listed[n], depth, way)
          /\ \A i, j \in DOMAIN these : these[i].path = these[j].path => i = j
      BY <1>1, <3>2, TasksAreFields
    <3> HIDE DEF these
    <3> QED
      BY <3>1, <3>3, <3>4
  <2>6. Below(At(Top.path, Top.field)) =
            {At(Append(Top.path, n), fields[c].listed[n]) : n \in DOMAIN fields[c].listed}
    BY <2>1 DEF Below, At
  <2>7. \A j \in DOMAIN seen : seen[j] = c \/ \E k \in DOMAIN Top.seen : seen[j] = Top.seen[k]
    BY <2>4
  <2> HIDE DEF tasks, seen, c
  <2>8. Replaces(tasks)
    <3> SUFFICES ASSUME NEW i \in DOMAIN tasks
                 PROVE  /\ At(tasks[i].path, tasks[i].field) \in Below(At(Top.path, Top.field))
                        /\ tasks[i].depth = Top.depth + 1
                        /\ \A j \in DOMAIN tasks[i].seen :
                              \/ Top.field = Nested(tasks[i].seen[j])
                              \/ \E k \in DOMAIN Top.seen : tasks[i].seen[j] = Top.seen[k]
      BY <2>5 DEF Replaces
    <3>1. PICK n \in DOMAIN fields[c].listed :
              tasks[i] = Task(Append(Top.path, n), fields[c].listed[n], Top.depth + 1, seen)
      BY <2>5
    <3>2. /\ tasks[i].path = Append(Top.path, n) /\ tasks[i].field = fields[c].listed[n]
          /\ tasks[i].depth = Top.depth + 1 /\ tasks[i].seen = seen
      BY <3>1 DEF Task
    <3>3. \A j \in DOMAIN seen : \/ Top.field = Nested(seen[j])
                                 \/ \E k \in DOMAIN Top.seen : seen[j] = Top.seen[k]
      BY <2>4, <2>7
    <3> QED
      BY <2>6, <3>2, <3>3
  <2>9. Covers(tasks, Below(At(Top.path, Top.field)))
    <3> SUFFICES ASSUME NEW n \in DOMAIN fields[c].listed,
                        NEW q, q = At(Append(Top.path, n), fields[c].listed[n])
                 PROVE  \E i \in DOMAIN tasks : tasks[i].path = q.path /\ tasks[i].field = q.field
      BY <2>6 DEF Covers
    <3>1. PICK i \in DOMAIN tasks :
              tasks[i] = Task(Append(Top.path, n), fields[c].listed[n], Top.depth + 1, seen)
      BY <2>5
    <3> QED
      BY <3>1 DEF At, Task
  <2>10. MarkOf(at, Top.path, Top.field, "container") /\ "container" \in Mark
    BY <2>1 DEF MarkOf, Mark
  <2> QED
    BY <1>1, <1>3, <2>1, <2>2, <2>8, <2>9, <2>10, DescribeAccounts
<1>11. CASE Raise
  BY <1>11 DEF Raise
<1>12. CASE Finish
  <2>1. /\ UNCHANGED <<view, fields, roles, stack, described, how>>
        /\ stack = <<>> /\ roles = <<>>
    BY <1>12 DEF Finish
  <2>2. Account(at)'
    BY <1>3, <2>1, AccountStays DEF Account
  <2> QED
    BY <1>3, <2>1, <2>2
<1>13. CASE UNCHANGED svars
  <2>1. UNCHANGED <<view, fields, roles, stack, described, how, outcome>>
    BY <1>13 DEF svars
  <2>2. Account(at)'
    BY <1>3, <2>1, AccountStays DEF Account
  <2> QED
    BY <1>3, <2>1, <2>2
<1> QED
  BY <1>5, <1>6, <1>7, <1>8, <1>9, <1>10, <1>11, <1>12, <1>13 DEF SerializersNext

-----------------------------------------------------------------------------
(* From the account to the payloads.                                       *)

\* Under a complete account nothing waits and every role is settled.
LEMMA Settled ==
    ASSUME NEW at, Account(at), outcome = "done"
    PROVE  /\ \A q : Handled(at, q) <=> q.path \in DOMAIN described /\ at[q.path] = q.field
           /\ \A r \in Role : how[r] = IF Serializer(r) = None THEN None
                                       ELSE IF Bound(Serializer(r)) THEN "bound" ELSE "declared"
<1>1. stack = <<>> /\ roles = <<>> /\ DOMAIN stack = {} /\ DOMAIN roles = {}
  BY DEF Account
<1> QED
  BY <1>1 DEF Handled, Waiting, Account, RolesKept

\* What is described of a role whose serializer listed its fields is part of a payload.
LEMMA DescribedInPayload ==
    ASSUME WalkInv, NEW at \in [DOMAIN described -> Field], Account(at), outcome = "done",
           NEW p \in DOMAIN described, how[p[1]] = "bound", Len(p) - 1 <= MaxLength
    PROVE  At(p, at[p]) \in Payload[Len(p) - 1]
<1> DEFINE reached ==
               {n \in Nat : \A q \in DOMAIN described :
                   how[q[1]] = "bound" /\ Len(q) = n + 1 /\ n <= MaxLength
                       => At(q, at[q]) \in Payload[n]}
<1>1. \A q \in DOMAIN described : q \in Paths /\ q \in Seq(Label) /\ Len(q) \in Nat /\ Len(q) >= 2 /\ q[1] \in Role
  BY PathType DEF Account, Placed
<1>2. 0 \in reached
  <2>1. \A q \in DOMAIN described : Len(q) # 0 + 1
    <3> SUFFICES ASSUME NEW q \in DOMAIN described PROVE Len(q) # 0 + 1
      OBVIOUS
    <3>1. PICK length : length = Len(q)
      OBVIOUS
    <3>2. length \in Nat /\ length >= 2
      BY <1>1, <3>1
    <3> QED
      BY <3>1, <3>2
  <2> QED
    BY <2>1
<1>3. ASSUME NEW n \in Nat, n \in reached PROVE n + 1 \in reached
  <2> SUFFICES ASSUME NEW q \in DOMAIN described, how[q[1]] = "bound", Len(q) = n + 2,
                      n + 1 <= MaxLength
               PROVE  At(q, at[q]) \in Payload[n + 1]
    OBVIOUS
  <2>1. n + 1 \in 1 .. MaxLength
    BY SerializerAssumption
  <2>2. CASE Len(q) = 2 /\ At(q, at[q]) \in Below(Root(q[1]))
    <3>1. Serializer(q[1]) # None
      BY <1>1, Settled, SerializerAssumption
    <3>2. At(q, at[q]) \in FirstLevel
      BY <1>1, <2>2, <3>1 DEF FirstLevel, Root
    <3>3. n + 1 = 1
      <4>1. PICK length : length = Len(q)
        OBVIOUS
      <4>2. length = n + 2 /\ length = 2
        BY <2>2, <4>1
      <4> QED
        BY <4>2
    <3> QED
      BY <2>1, <3>2, <3>3, PayloadLevels
  <2>3. CASE \E o \in DOMAIN described : At(q, at[q]) \in Below(At(o, at[o]))
    <3>1. PICK o \in DOMAIN described : At(q, at[q]) \in Below(At(o, at[o]))
      BY <2>3
    <3>2. PICK x \in Followed : q = Append(o, x)
      BY <1>1, <3>1, BelowShape DEF At, WalkInv
    <3>3. Len(q) = Len(o) + 1 /\ q[1] = o[1]
      BY <1>1, <3>2, AppendPath
    <3>4. At(o, at[o]) \in Payload[n]
      <4>1. Len(o) = n + 1 /\ n <= MaxLength /\ how[o[1]] = "bound"
        <5>1. PICK length : length = Len(o)
          OBVIOUS
        <5>2. length \in Nat /\ length + 1 = n + 2
          BY <1>1, <3>3, <5>1
        <5>3. n \in Nat /\ MaxLength \in Nat /\ n + 1 <= MaxLength
          BY SerializerAssumption
        <5> QED
          BY <3>3, <5>1, <5>2, <5>3
      <4> QED
        BY <1>3, <4>1
    <3>5. n + 1 # 1 /\ (n + 1) - 1 = n
      BY <1>1, <3>3
    <3>6. Payload[n + 1] = NextLevel(Payload[n])
      BY <2>1, <3>5, PayloadLevels
    <3> QED
      BY <3>1, <3>4, <3>6 DEF NextLevel
  <2>4. Origin(at, q, at[q])
    BY DEF Account, Origins
  <2> QED
    BY <2>2, <2>3, <2>4 DEF Origin
<1> HIDE DEF reached
<1>4. Nat \subseteq reached
  BY <1>2, <1>3, Induction
<1>5. Len(p) - 1 \in Nat /\ Len(p) = (Len(p) - 1) + 1
  BY <1>1
<1> QED
  BY <1>4, <1>5 DEF reached

\* a position of a payload, n names down, is described or stands under a truncated field
Covered(at, n, p) ==
    /\ p.path \in Paths /\ Len(p.path) = n + 1 /\ p.field \in Field /\ p = At(p.path, p.field)
    /\ how[p.path[1]] = "bound"
    /\ \/ p.path \in DOMAIN described /\ at[p.path] = p.field
       \/ \E q \in Above(p.path) : described[q] = "truncated"

LEMMA FirstLevelCovered ==
    ASSUME WalkInv, NEW at, Account(at), outcome = "done", NEW p \in FirstLevel
    PROVE  Covered(at, 1, p)
<1>1. PICK r \in Role : Serializer(r) # None /\ how[r] = "bound" /\ p \in Below(Root(r))
  BY DEF FirstLevel, Root
<1>2. fields \in Graphs /\ Serializer(r) \in Class
  BY <1>1, SerializerType DEF WalkInv
<1>3. fields[Serializer(r)].raises = None
  BY <1>1, Settled, SerializerAssumption DEF Bound
<1>4. PICK n \in DOMAIN fields[Serializer(r)].listed :
          p = At(Append(<<r>>, n), fields[Serializer(r)].listed[n])
  BY <1>1, <1>3 DEF Root, Below, At, Nested
<1>5. n \in Name /\ fields[Serializer(r)].listed[n] \in Field
  BY <1>2, SerializerAssumption DEF Instances
<1>6. PICK single : single = <<r>>
  OBVIOUS
<1>7. single \in Seq(Label) /\ Len(single) = 1 /\ single[1] = r /\ n \in Followed
  <2>1. r \in Label
    BY DEF Label
  <2>2. <<r>> \in Seq(Label) /\ Len(<<r>>) = 1 /\ <<r>>[1] = r
    BY <2>1
  <2> QED
    BY <1>5, <1>6, <2>2 DEF Followed
<1>8. PICK path : path = Append(single, n)
  OBVIOUS
<1>9. path \in Paths /\ Len(path) = 2 /\ path[1] = r
  <2>1. path \in Paths /\ Len(path) = Len(single) + 1 /\ path[1] = single[1]
    BY <1>7, <1>8, AppendPath
  <2> QED
    BY <1>7, <2>1
<1>10. p.path = path /\ p.field = fields[Serializer(r)].listed[n] /\ p = At(p.path, p.field)
  BY <1>4, <1>6, <1>8 DEF At
<1>11. p.path \in DOMAIN described /\ at[p.path] = p.field
  BY <1>1, Settled DEF Account, Rooted
<1> QED
  BY <1>1, <1>5, <1>9, <1>10, <1>11 DEF Covered

LEMMA NextLevelCovered ==
    ASSUME WalkInv, NEW at \in [DOMAIN described -> Field], Account(at), outcome = "done",
           NEW n \in Nat, NEW p, Covered(at, n, p), NEW q \in Below(p)
    PROVE  Covered(at, n + 1, q)
<1>1. /\ p.path \in Paths /\ p.path \in Seq(Label) /\ Len(p.path) = n + 1 /\ p.field \in Field
      /\ p = At(p.path, p.field) /\ Len(p.path) >= 1 /\ p.path[1] \in Role
      /\ how[p.path[1]] = "bound"
  BY PathType DEF Covered
<1>2. PICK x \in Followed, g \in Field : q = At(Append(p.path, x), g)
  BY <1>1, BelowShape DEF WalkInv
<1>3. PICK path : path = Append(p.path, x)
  OBVIOUS
<1>4. path \in Paths /\ Len(path) = n + 2 /\ path[1] = p.path[1]
  BY <1>1, <1>3, AppendPath
<1>5. q.path = path /\ q.field = g /\ q = At(q.path, q.field)
  BY <1>2, <1>3 DEF At
<1>6. /\ Above(p.path) \subseteq Above(path)
      /\ p.path \in DOMAIN described => p.path \in Above(path)
  <2>1. x \in Label
    BY DEF Followed, Label
  <2> QED
    BY <1>1, <1>3, <2>1, PrefixesGrow DEF Above
<1>7. \/ q.path \in DOMAIN described /\ at[q.path] = q.field
      \/ \E o \in Above(path) : described[o] = "truncated"
  <2>1. CASE \E o \in Above(p.path) : described[o] = "truncated"
    BY <1>6, <2>1
  <2>2. CASE p.path \in DOMAIN described /\ at[p.path] = p.field
    <3>1. described[p.path] \in Mark /\ MarkOf(at, p.path, p.field, described[p.path])
      BY <2>2 DEF Account, Placed, Marked
    <3>2. CASE described[p.path] = "truncated"
      BY <1>6, <2>2, <3>2
    <3>3. CASE described[p.path] = "container"
      BY <1>1, <2>2, <3>3, Settled DEF Account, Contained
    <3>4. CASE described[p.path] = "typed"
      <4>1. p.field.kind = "typed"
        BY <3>1, <3>4 DEF MarkOf
      <4> QED
        BY <4>1 DEF Below
    <3>5. CASE described[p.path] = "unresolved"
      <4>1. p.field.kind = "opaque" \/ (p.field.kind = "nested" /\ fields[p.field.class].raises # None)
        BY <3>1, <3>5 DEF MarkOf
      <4>2. Below(p) = {}
        BY <4>1 DEF Below
      <4> QED
        BY <4>2
    <3> QED
      BY <3>1, <3>2, <3>3, <3>4, <3>5 DEF Mark
  <2> QED
    BY <2>1, <2>2 DEF Covered
<1> QED
  BY <1>1, <1>4, <1>5, <1>7 DEF Covered

LEMMA PayloadCovered ==
    ASSUME WalkInv, NEW at \in [DOMAIN described -> Field], Account(at), outcome = "done"
    PROVE  \A n \in 1 .. MaxLength : \A p \in Payload[n] : Covered(at, n, p)
<1> DEFINE covered == {n \in Nat : n \in 1 .. MaxLength => \A p \in Payload[n] : Covered(at, n, p)}
<1>1. 0 \in covered
  OBVIOUS
<1>2. ASSUME NEW n \in Nat, n \in covered PROVE n + 1 \in covered
  <2> SUFFICES ASSUME n + 1 \in 1 .. MaxLength, NEW q \in Payload[n + 1]
               PROVE  Covered(at, n + 1, q)
    OBVIOUS
  <2>1. CASE n = 0
    <3>1. q \in FirstLevel /\ n + 1 = 1
      BY <2>1, PayloadLevels
    <3> QED
      BY <3>1, FirstLevelCovered
  <2>2. CASE n # 0
    <3>1. n \in 1 .. MaxLength /\ n + 1 # 1 /\ (n + 1) - 1 = n
      BY <2>2, SerializerAssumption
    <3>2. Payload[n + 1] = NextLevel(Payload[n])
      BY <3>1, PayloadLevels
    <3>3. PICK p \in Payload[n] : q \in Below(p)
      BY <3>2 DEF NextLevel
    <3>4. Covered(at, n, p)
      BY <1>2, <3>1
    <3> QED
      BY <3>3, <3>4, NextLevelCovered
  <2> QED
    BY <2>1, <2>2
<1> HIDE DEF covered
<1>3. Nat \subseteq covered
  BY <1>1, <1>2, Induction
<1> QED
  BY <1>3, SerializerAssumption DEF covered

-----------------------------------------------------------------------------
LEMMA RightMarks ==
    ASSUME WalkInv, NEW at \in [DOMAIN described -> Field], Account(at), outcome = "done",
           NEW n \in 1 .. MaxLength, NEW p, Covered(at, n, p), p.path \in DOMAIN described,
           at[p.path] = p.field
    PROVE  RightlyDescribed(p)
<1>1. /\ described[p.path] \in Mark /\ MarkOf(at, p.path, p.field, described[p.path])
      /\ p.path \in Paths /\ p.path \in Seq(Label) /\ p.path[1] \in Role /\ Len(p.path) = n + 1
      /\ how[p.path[1]] = "bound"
  BY PathType DEF Account, Placed, Marked, Covered
<1>2. CASE described[p.path] = "typed"
  BY <1>1, <1>2 DEF RightlyDescribed, Said, MarkOf
<1>3. CASE described[p.path] = "container"
  BY <1>1, <1>3 DEF RightlyDescribed, Said, MarkOf
<1>4. CASE described[p.path] = "unresolved"
  <2>1. p.field.kind \in {"opaque", "nested"}
    BY <1>1, <1>4 DEF MarkOf
  <2>2. p.path \in unresolved_field_names(p.path[1])
    BY <1>1, <1>4 DEF unresolved_field_names, Paths
  <2>3. <<"unresolved_fields", unresolved_field_names(p.path[1])>> \in Warnings
    BY <1>1, <2>2 DEF Warnings
  <2>4. \E w \in Warnings : w[1] = "unresolved_fields" /\ p.path \in w[2]
    BY <2>2, <2>3
  <2> QED
    BY <1>4, <2>1, <2>4 DEF RightlyDescribed, Said
<1>5. CASE described[p.path] = "truncated"
  <2>1. /\ p.field.kind = "nested" /\ p.field \in Field
        /\ Len(p.path) >= MaxDepth + 2 \/ SeenAbove(at, p.path, p.field.class)
    BY <1>1, <1>5 DEF MarkOf, Covered
  <2>2. p.field = Nested(p.field.class)
    BY <2>1, FieldShape
  <2>3. ASSUME NEW q \in Above(p.path), at[q] = Nested(p.field.class)
        PROVE  \E m \in 1 .. MaxLength : \E o \in Payload[m] :
                   o.path \in Above(p.path) /\ o.field = p.field
    <3>1. q \in DOMAIN described /\ q[1] = p.path[1] /\ Len(q) < Len(p.path)
      BY <1>1, AboveStarts
    <3>2. Len(q) \in Nat /\ Len(q) >= 2
      BY <3>1, PathType DEF Account, Placed
    <3>3. Len(q) - 1 \in 1 .. MaxLength
      BY <1>1, <3>1, <3>2, SerializerAssumption
    <3>4. At(q, at[q]) \in Payload[Len(q) - 1]
      BY <1>1, <3>1, <3>3, DescribedInPayload, SerializerAssumption
    <3>5. At(q, at[q]).path = q /\ At(q, at[q]).field = p.field
      BY <2>2, <2>3 DEF At
    <3> QED
      BY <3>3, <3>4, <3>5
  <2>4. \/ Len(p.path) >= MaxDepth + 2
        \/ p.field.class = Serializer(p.path[1])
        \/ \E m \in 1 .. MaxLength : \E o \in Payload[m] :
               o.path \in Above(p.path) /\ o.field = p.field
    BY <2>1, <2>3 DEF SeenAbove
  <2> QED
    BY <1>5, <2>1, <2>4 DEF RightlyDescribed, Said
<1> QED
  BY <1>1, <1>2, <1>3, <1>4, <1>5 DEF Mark

LEMMA SerializerWarnings ==
    ASSUME WalkInv, NEW at, Account(at), outcome = "done"
    PROVE  /\ \A r \in Role :
                Serializer(r) # None /\ fields[Serializer(r)].raises # None =>
                    <<"serializer_declared_only", {<<r>>}>> \in Warnings
           /\ <<"no_serializer", {}>> \in Warnings <=> \A a \in Attribute : view[a] = None
<1>1. \A r \in Role : how[r] = IF Serializer(r) = None THEN None
                               ELSE IF Bound(Serializer(r)) THEN "bound" ELSE "declared"
  BY Settled
<1>2. ASSUME NEW r \in Role, Serializer(r) # None, fields[Serializer(r)].raises # None
      PROVE  <<"serializer_declared_only", {<<r>>}>> \in Warnings
  <2>1. how[r] = "declared"
    BY <1>1, <1>2 DEF Bound
  <2> QED
    BY <2>1 DEF Warnings
<1>3. <<"no_serializer", {}>> \in Warnings <=> \A role \in Role : how[role] = None
  BY DEF Warnings
<1>4. \A role \in Role : how[role] = None <=> Serializer(role) = None
  BY <1>1, SerializerAssumption
<1>5. (\A role \in Role : Serializer(role) = None) <=> \A a \in Attribute : view[a] = None
  BY SerializerAssumption DEF Serializer, Role
<1> QED
  BY <1>2, <1>3, <1>4, <1>5

\* Nothing of a payload is left out in silence, and nothing is guessed: for any
\* classes, any fields and any way they contain each other, to any length of path
\* (serializers.py:3-12, inventory.py:409-447).
THEOREM DescriptionIsComplete == SerializersSpec => []GapsReported
<1>1. ASSUME GapInv PROVE GapsReported
  <2> SUFFICES ASSUME outcome = "done"
               PROVE  /\ \A n \in 1 .. MaxLength : \A p \in Payload[n] :
                            \/ p.path \in DOMAIN described /\ RightlyDescribed(p)
                            \/ \E q \in Above(p.path) : Said(q) = "truncated"
                      /\ \A r \in Role :
                            Serializer(r) # None /\ fields[Serializer(r)].raises # None =>
                                <<"serializer_declared_only", {<<r>>}>> \in Warnings
                      /\ <<"no_serializer", {}>> \in Warnings <=> \A a \in Attribute : view[a] = None
    BY DEF GapsReported
  <2>1. WalkInv
    BY <1>1 DEF GapInv
  <2>2. PICK at \in [DOMAIN described -> Field] : Account(at)
    BY <1>1 DEF GapInv
  <2>3. ASSUME NEW n \in 1 .. MaxLength, NEW p \in Payload[n]
        PROVE  \/ p.path \in DOMAIN described /\ RightlyDescribed(p)
               \/ \E q \in Above(p.path) : Said(q) = "truncated"
    <3>1. Covered(at, n, p)
      BY <2>1, <2>2, PayloadCovered
    <3>2. CASE p.path \in DOMAIN described /\ at[p.path] = p.field
      BY <2>1, <2>2, <3>1, <3>2, RightMarks
    <3>3. CASE \E q \in Above(p.path) : described[q] = "truncated"
      BY <3>3 DEF Said
    <3> QED
      BY <3>1, <3>2, <3>3 DEF Covered
  <2> QED
    BY <2>1, <2>2, <2>3, SerializerWarnings
<1> QED
  BY GapInit, GapNext, <1>1, PTL DEF SerializersSpec
=============================================================================
