-------------------------- MODULE KongDiscoveryProofs --------------------------
(***************************************************************************)
(* Theorems about KongDiscovery for any resolver, decorators, prefix and   *)
(* services, checked by TLAPS.                                             *)
(***************************************************************************)
EXTENDS KongDiscovery, WellFoundedInduction, TLAPS

-----------------------------------------------------------------------------
(* What one pattern declares. *)

LEMMA LeastElement ==
    ASSUME NEW less, IsWellFoundedOn(less, Nat), NEW S, S \subseteq Nat, S # {}
    PROVE  \E x \in S : \A y \in S : ~ (<<y, x>> \in less)
BY WFMin

LEMMA MinAttained ==
    ASSUME NEW S, S \subseteq Nat, S # {}
    PROVE  Min(S) \in S
<1> DEFINE less == OpToRel(<, Nat)
<1>1. IsWellFoundedOn(less, Nat)
  BY NatLessThanWellFounded
<1>2. \A x, y \in Nat : <<y, x>> \in less <=> y < x
  BY DEF OpToRel
<1> HIDE DEF less
<1>3. PICK x \in S : \A y \in S : ~ (<<y, x>> \in less)
  BY <1>1, LeastElement
<1>4. ASSUME NEW y \in S PROVE x <= y
  <2>1. x \in Nat /\ y \in Nat
    OBVIOUS
  <2>2. ~(y < x)
    BY <1>2, <1>3, <2>1
  <2> QED
    BY <2>1, <2>2
<1> QED
  BY <1>3, <1>4 DEF Min

LEMMA MethodTyped ==
    ASSUME NEW s \in Seq(ActionOf), NEW i \in DOMAIN s
    PROVE  s[i].method \in STRING
<1>1. s[i] \in ActionOf
  OBVIOUS
<1> QED
  BY <1>1 DEF ActionOf

\* An exposed pattern has the mark of a decorator.
LEMMA ExposureTyped ==
    ASSUME NEW p \in Pattern, exposure_for_pattern(p) # None
    PROVE  exposure_for_pattern(p) \in Mark
<1> USE DiscoveryAssumption
<1>1. \A I \in SUBSET DOMAIN p.actions : MethodsAt(p, I) \in SUBSET STRING
  <2>1. p.actions \in Seq(ActionOf)
    OBVIOUS
  <2> QED
    BY <2>1, MethodTyped DEF MethodsAt
<1>2. CASE Marked(p) # {}
  <2>1. Marked(p) \subseteq Nat
    BY DEF Marked
  <2>2. Min(Marked(p)) \in Marked(p)
    BY <1>2, <2>1, MinAttained
  <2>3. MarkOf(p, Min(Marked(p))) \in Mark
    BY <2>2 DEF Marked, MarkOf
  <2>4. MethodsAt(p, Marked(p)) \in SUBSET STRING
    BY <1>1 DEF Marked
  <2> QED
    BY <1>2, <2>3, <2>4 DEF exposure_for_pattern, Mark
<1>3. CASE Marked(p) = {}
  <2>1. ClassMark[p.view] \in Mark
    BY <1>3 DEF exposure_for_pattern
  <2>2. MethodsAt(p, DOMAIN p.actions) \in SUBSET STRING
    BY <1>1
  <2> QED
    BY <1>3, <2>1, <2>2 DEF exposure_for_pattern, Mark
<1> QED
  BY <1>2, <1>3

LEMMA UpstreamTyped ==
    ASSUME NEW p \in Pattern
    PROVE  django_path_template(p) \in Template
BY DiscoveryAssumption DEF django_path_template, Template

\* The gateway paths of a route are its path under the prefix alone exactly
\* when it publishes no alias.
LEMMA AliasAddsPaths ==
    ASSUME NEW t \in Template, NEW alias \in Template \cup {None}
    PROVE  _gateway_paths(t, alias) = {join_prefix(t)} <=> alias = None
<1>1. None \notin Template
  BY DiscoveryAssumption
<1>2. ASSUME alias \in Template PROVE alias # join_prefix(alias)
  <2>1. Len(<<Prefix>> \o alias.segs) = Len(alias.segs) + 1
    BY <1>2, DiscoveryAssumption DEF Template
  <2>2. Len(alias.segs) \in Nat
    BY <1>2 DEF Template
  <2>3. join_prefix(alias).segs = <<Prefix>> \o alias.segs
    BY <1>2 DEF join_prefix, Template
  <2> QED
    BY <2>1, <2>2, <2>3
<1> QED
  BY <1>1, <1>2 DEF _gateway_paths

\* The sync and the inventory read one pattern alike.
LEMMA ReadAlike ==
    ASSUME NEW p \in Pattern, exposure_for_pattern(p) # None,
           default \in {None, PrefixService}
    PROVE  Matches(Entry(p), Route(p))
<1> DEFINE exposed == exposure_for_pattern(p)
           upstream == django_path_template(p)
           rewrite == rewrite_mode_for(upstream, exposed.alias)
<1>1. exposed.alias \in Template \cup {None} /\ upstream \in Template
  BY ExposureTyped, UpstreamTyped DEF Mark
<1>2. rewrite.alias \in Template \cup {None}
  BY <1>1 DEF rewrite_mode_for
<1>3. /\ Entry(p).public =
           (IF rewrite.alias = None THEN join_prefix(upstream) ELSE rewrite.alias)
      /\ Entry(p).compat =
           (IF rewrite.alias = None THEN {} ELSE {join_prefix(rewrite.alias), join_prefix(upstream)})
      /\ Route(p).paths = _gateway_paths(upstream, rewrite.alias)
      /\ Route(p).upstream = upstream
  BY DEF Entry, Route
<1> HIDE DEF rewrite, upstream, exposed
<1>4. {Entry(p).public} \cup Entry(p).compat = Route(p).paths
  BY <1>3 DEF _gateway_paths
<1>5. "missing_alias" \in Warnings(Entry(p)) <=> Entry(p).compat = {}
  BY DEF Warnings
<1>6. "missing_alias" \in Warnings(Entry(p)) <=> Route(p).paths = {join_prefix(Route(p).upstream)}
  BY <1>1, <1>2, <1>3, <1>5, AliasAddsPaths
<1>7. "method_mismatch" \in Warnings(Entry(p)) <=> ~(Entry(p).implemented \subseteq Entry(p).methods)
  BY DEF Warnings
<1>8. Entry(p).service = Route(p).service
  BY DEF Entry, Route, resolved_kong_service
<1>9. Entry(p).methods = Route(p).methods /\ Entry(p).upstream = Route(p).upstream
      /\ Entry(p).mode = Route(p).mode
  BY DEF Entry, Route
<1> QED
  BY <1>4, <1>6, <1>7, <1>8, <1>9 DEF Matches

LEMMA NamedAlike ==
    ASSUME NEW p
    PROVE  Entry(p).name = Route(p).name
BY DEF Entry, Route, EntryName, RouteName

-----------------------------------------------------------------------------
(* The dictionaries hold what walked patterns declare. *)

LEMMA ExposedGrows ==
    ASSUME walked \in Seq(Pattern), NEW p \in Pattern, Walk(p)
    PROVE  /\ walked' \in Seq(Pattern)
           /\ Exposed \subseteq Pattern
           /\ Exposed' = Exposed \cup {q \in {p} : exposure_for_pattern(q) # None}
<1>1. walked' = Append(walked, p) /\ walked' \in Seq(Pattern)
  BY DEF Walk
<1>2. /\ DOMAIN walked' = 1 .. Len(walked) + 1
      /\ DOMAIN walked = 1 .. Len(walked)
      /\ Len(walked) \in Nat
  BY <1>1
<1>3. /\ \A i \in DOMAIN walked : walked'[i] = walked[i]
      /\ walked'[Len(walked) + 1] = p
  BY <1>1, <1>2
<1>4. {walked'[i] : i \in DOMAIN walked'} = {walked[i] : i \in DOMAIN walked} \cup {p}
  BY <1>2, <1>3
<1> QED
  BY <1>1, <1>4 DEF Exposed

LEMMA InputKept ==
    ASSUME UNCHANGED input
    PROVE  /\ \A q : Route(q)' = Route(q)
           /\ \A e : Filtered(e)' = Filtered(e)
BY DEF input, Route, Filtered

LEMMA TypeInitially == DiscoveryInit => DiscoveryTypeOK
BY DEF DiscoveryInit, DiscoveryTypeOK

LEMMA TypeKept == DiscoveryTypeOK /\ [DiscoveryNext]_dvars => DiscoveryTypeOK'
<1> SUFFICES ASSUME DiscoveryTypeOK, [DiscoveryNext]_dvars PROVE DiscoveryTypeOK'
  OBVIOUS
<1>1. CASE UNCHANGED dvars
  BY <1>1 DEF dvars, input, DiscoveryTypeOK, Exposed, Route
<1>2. ASSUME NEW p \in Pattern, Pass(p) PROVE DiscoveryTypeOK'
  <2>1. Exposed \subseteq Exposed' /\ walked' \in Seq(Pattern)
    BY <1>2, ExposedGrows DEF Pass, DiscoveryTypeOK
  <2>2. \A q : Route(q)' = Route(q)
    BY <1>2, InputKept DEF Pass, Walk
  <2> QED
    BY <1>2, <2>1, <2>2 DEF Pass, Walk, input, DiscoveryTypeOK
<1>3. ASSUME NEW p \in Pattern, Publish(p)
      PROVE  /\ default' \in Service \cup {None} /\ filter' \in Service \cup {None}
             /\ walked' \in Seq(Pattern)
             /\ p \in Exposed' /\ Exposed \subseteq Exposed'
             /\ \A n \in DOMAIN routes' :
                   \E q \in Exposed' : routes'[n] = Route(q)' /\ n = Route(q)'.name
  <2>1. /\ walked' \in Seq(Pattern) /\ p \in Exposed' /\ Exposed \subseteq Exposed'
    BY <1>3, ExposedGrows DEF Publish, DiscoveryTypeOK
  <2>2. \A q : Route(q)' = Route(q)
    BY <1>3, InputKept DEF Publish, Walk
  <2>3. ASSUME NEW n \in DOMAIN routes'
        PROVE  \E q \in Exposed' : routes'[n] = Route(q) /\ n = Route(q).name
    <3>1. CASE n = Route(p).name
      BY <1>3, <2>1, <3>1, NamedAlike DEF Publish, With
    <3>2. CASE n # Route(p).name
      <4>1. n \in DOMAIN routes /\ routes'[n] = routes[n]
        BY <1>3, <3>2, NamedAlike DEF Publish, With
      <4> QED
        BY <2>1, <4>1 DEF DiscoveryTypeOK
    <3> QED
      BY <3>1, <3>2
  <2> QED
    BY <1>3, <2>1, <2>2, <2>3 DEF Publish, Walk, input, DiscoveryTypeOK
<1>4. ASSUME NEW p \in Pattern, Omit(p) PROVE DiscoveryTypeOK'
  <2>1. Publish(p) /\ UNCHANGED <<inventory, conflicts>>
    BY <1>4 DEF Omit
  <2> QED
    BY <1>3, <2>1 DEF DiscoveryTypeOK
<1>5. ASSUME NEW p \in Pattern, Document(p) PROVE DiscoveryTypeOK'
  <2>1. /\ Publish(p)
        /\ inventory' = With(inventory, Entry(p))
        /\ conflicts' \subseteq conflicts \cup {Entry(p).name}
    BY <1>5 DEF Document
  <2>2. ASSUME NEW n \in DOMAIN inventory'
        PROVE  \E q \in Exposed' : inventory'[n] = Entry(q) /\ n = Entry(q).name
    <3>1. CASE n = Entry(p).name
      BY <1>3, <2>1, <3>1 DEF With
    <3>2. CASE n # Entry(p).name
      <4>1. n \in DOMAIN inventory /\ inventory'[n] = inventory[n]
        BY <2>1, <3>2 DEF With
      <4> QED
        BY <1>3, <2>1, <4>1 DEF DiscoveryTypeOK
    <3> QED
      BY <3>1, <3>2
  <2>3. conflicts' \subseteq DOMAIN inventory'
    BY <2>1 DEF DiscoveryTypeOK, With
  <2> QED
    BY <1>3, <2>1, <2>2, <2>3 DEF DiscoveryTypeOK
<1> QED
  BY <1>1, <1>2, <1>4, <1>5 DEF DiscoveryNext

\* Whatever a resolver holds, both dictionaries are keyed by the names of what
\* they hold, and hold what a pattern of the resolver declares.
THEOREM DiscoveryTypeCorrect == DiscoverySpec => []DiscoveryTypeOK
BY TypeInitially, TypeKept, PTL DEF DiscoverySpec

-----------------------------------------------------------------------------
(* Nothing is overwritten silently. *)

\* Every endpoint the inventory is asked for has its name there; unless a
\* conflict is reported for the name, it is the endpoint the inventory has.
ReportInv ==
    \A p \in Exposed : ~Filtered(Entry(p)) =>
        /\ Entry(p).name \in DOMAIN inventory
        /\ \/ Entry(p).name \in conflicts
           \/ _is_same_endpoint(inventory[Entry(p).name], Entry(p))

LEMMA ReportKept ==
    DiscoveryTypeOK /\ ReportInv /\ [DiscoveryNext]_dvars => ReportInv'
<1> SUFFICES ASSUME DiscoveryTypeOK, ReportInv, [DiscoveryNext]_dvars PROVE ReportInv'
  OBVIOUS
<1>1. CASE UNCHANGED dvars
  BY <1>1 DEF dvars, input, ReportInv, Exposed, Filtered
<1>2. ASSUME NEW p \in Pattern, Pass(p) PROVE ReportInv'
  <2>1. Exposed' = Exposed
    BY <1>2, ExposedGrows DEF Pass, DiscoveryTypeOK
  <2>2. \A e : Filtered(e)' = Filtered(e)
    BY <1>2, InputKept DEF Pass, Walk
  <2> QED
    BY <1>2, <2>1, <2>2 DEF Pass, ReportInv
<1>3. ASSUME NEW p \in Pattern, Publish(p)
      PROVE  Exposed' = Exposed \cup {p} /\ \A e : Filtered(e)' = Filtered(e)
  BY <1>3, ExposedGrows, InputKept DEF Publish, Walk, DiscoveryTypeOK
<1>4. ASSUME NEW p \in Pattern, Omit(p) PROVE ReportInv'
  <2>1. Publish(p) /\ UNCHANGED <<inventory, conflicts>>
    BY <1>4 DEF Omit
  <2>2. ~Filtered(Entry(p)) =>
            /\ Entry(p).name \in DOMAIN inventory
            /\ _is_same_endpoint(inventory[Entry(p).name], Entry(p))
    BY <1>4 DEF Omit
  <2> QED
    BY <1>3, <2>1, <2>2 DEF ReportInv
<1>5. ASSUME NEW p \in Pattern, Document(p) PROVE ReportInv'
  <2> DEFINE n == Entry(p).name
  <2>1. /\ Publish(p)
        /\ inventory' = With(inventory, Entry(p))
        /\ conflicts' = conflicts \cup (IF n \in DOMAIN inventory THEN {n} ELSE {})
    BY <1>5 DEF Document
  <2>2. SUFFICES ASSUME NEW q \in Exposed \cup {p}, ~Filtered(Entry(q))
                 PROVE  /\ Entry(q).name \in DOMAIN inventory'
                        /\ \/ Entry(q).name \in conflicts'
                           \/ _is_same_endpoint(inventory'[Entry(q).name], Entry(q))
    BY <1>3, <2>1 DEF ReportInv
  <2>3. CASE q = p
    BY <2>1, <2>3 DEF With, _is_same_endpoint
  <2>4. CASE q # p
    <3>1. /\ Entry(q).name \in DOMAIN inventory
          /\ \/ Entry(q).name \in conflicts
             \/ _is_same_endpoint(inventory[Entry(q).name], Entry(q))
      BY <2>2, <2>4 DEF ReportInv
    <3>2. CASE Entry(q).name = n
      BY <2>1, <3>1, <3>2 DEF With
    <3>3. CASE Entry(q).name # n
      <4>1. inventory'[Entry(q).name] = inventory[Entry(q).name]
        BY <2>1, <3>1, <3>3 DEF With
      <4> QED
        BY <2>1, <3>1, <4>1 DEF With
    <3> QED
      BY <3>2, <3>3
  <2> QED
    BY <2>3, <2>4
<1> QED
  BY <1>1, <1>2, <1>4, <1>5 DEF DiscoveryNext

\* However views, aliases and services collide, an endpoint that loses its name
\* to another is reported.
THEOREM NothingLostSilently == DiscoverySpec => []OverwritesReported
<1>1. DiscoveryInit => ReportInv
  BY DEF DiscoveryInit, ReportInv, Exposed
<1>2. ReportInv => OverwritesReported
  BY DEF ReportInv, OverwritesReported, _is_same_endpoint
<1> QED
  BY <1>1, <1>2, DiscoveryTypeCorrect, ReportKept, PTL DEF DiscoverySpec

-----------------------------------------------------------------------------
(* The inventory agrees with the gateway. *)

LEMMA AgreementKept ==
    DiscoveryTypeOK /\ InventoryAgrees /\ [DiscoveryNext]_dvars => InventoryAgrees'
<1> SUFFICES ASSUME DiscoveryTypeOK, InventoryAgrees, [DiscoveryNext]_dvars, Undisputed'
             PROVE  Describes'
  BY DEF InventoryAgrees
<1>1. CASE UNCHANGED dvars
  <2>1. Undisputed
    BY <1>1 DEF dvars, input, Undisputed, Exposed, Route
  <2> QED
    BY <1>1, <2>1 DEF InventoryAgrees, Describes, dvars, input, Filtered
<1>2. ASSUME NEW p \in Pattern, Walk(p)
      PROVE  /\ Undisputed
             /\ Describes
             /\ \A e : Filtered(e)' = Filtered(e)
             /\ default \in {None, PrefixService}
  <2>1. /\ Exposed \subseteq Exposed'
        /\ \A q : Route(q)' = Route(q)
        /\ \A e : Filtered(e)' = Filtered(e)
        /\ default' = default /\ filter' = filter
    BY <1>2, ExposedGrows, InputKept DEF DiscoveryTypeOK, Walk, input
  <2>2. Undisputed
    BY <2>1 DEF Undisputed
  <2> QED
    BY <2>1, <2>2 DEF InventoryAgrees, Undisputed
<1>3. ASSUME NEW p \in Pattern, Pass(p) PROVE Describes'
  BY <1>2, <1>3 DEF Pass, Describes
<1>4. ASSUME NEW p \in Pattern, Publish(p)
      PROVE  /\ p \in Pattern /\ exposure_for_pattern(p) # None
             /\ Matches(Entry(p), Route(p))
             /\ \A q \in Exposed : Route(q).name = Route(p).name =>
                   /\ _is_same_endpoint(Entry(q), Entry(p)) => Route(q) = Route(p)
                   /\ filter # None => Route(q).service = Route(p).service
  <2>1. Walk(p) /\ exposure_for_pattern(p) # None
    BY <1>4 DEF Publish
  <2>2. Matches(Entry(p), Route(p))
    BY <1>2, <2>1, ReadAlike
  <2>3. /\ Exposed' = Exposed \cup {p}
        /\ \A q : Route(q)' = Route(q)
        /\ filter' = filter
    BY <2>1, ExposedGrows, InputKept DEF DiscoveryTypeOK, Walk, input
  <2> QED
    BY <2>1, <2>2, <2>3 DEF Undisputed
<1>5. ASSUME NEW p \in Pattern, Omit(p) PROVE Describes'
  <2> DEFINE n == Entry(p).name
  <2>1. /\ Publish(p) /\ Walk(p)
        /\ routes' = With(routes, Route(p))
        /\ inventory' = inventory
        /\ Route(p).name = n
    BY <1>5, NamedAlike DEF Omit, Publish
  <2>2. Entry(p).service = Route(p).service
    BY <1>4, <2>1 DEF Matches
  <2>3. CASE Filtered(Entry(p))
    <3>1. Filtered(Route(p))
      BY <2>2, <2>3 DEF Filtered
    <3>2. ASSUME n \in DOMAIN routes PROVE Filtered(routes[n])
      <4>1. PICK q \in Exposed : routes[n] = Route(q) /\ n = Route(q).name
        BY <3>2 DEF DiscoveryTypeOK
      <4> QED
        BY <1>4, <2>1, <3>1, <4>1 DEF Filtered
    <3>3. n \notin DOMAIN inventory
      BY <1>2, <2>1, <3>2 DEF Describes
    <3> QED
      BY <1>2, <2>1, <3>1, <3>3 DEF Describes, With
  <2>4. CASE ~Filtered(Entry(p))
    <3>1. n \in DOMAIN inventory /\ _is_same_endpoint(inventory[n], Entry(p))
      BY <1>5, <2>4 DEF Omit
    <3>2. PICK q \in Exposed : inventory[n] = Entry(q) /\ n = Entry(q).name
      BY <3>1 DEF DiscoveryTypeOK
    <3>3. Route(q) = Route(p)
      BY <1>4, <2>1, <3>1, <3>2, NamedAlike
    <3>4. Matches(inventory[n], Route(p))
      <4>1. q \in Pattern /\ exposure_for_pattern(q) # None
        BY DEF Exposed, DiscoveryTypeOK
      <4> QED
        BY <1>2, <2>1, <3>2, <3>3, <4>1, ReadAlike
    <3>5. ~Filtered(Route(p))
      BY <2>2, <2>4 DEF Filtered
    <3> QED
      BY <1>2, <2>1, <3>1, <3>4, <3>5 DEF Describes, With
  <2> QED
    BY <2>3, <2>4
<1>6. ASSUME NEW p \in Pattern, Document(p) PROVE Describes'
  <2>1. /\ Publish(p) /\ Walk(p)
        /\ routes' = With(routes, Route(p))
        /\ inventory' = With(inventory, Entry(p))
        /\ Route(p).name = Entry(p).name
        /\ ~Filtered(Entry(p))
    BY <1>6, NamedAlike DEF Document, Publish
  <2>2. ~Filtered(Route(p)) /\ Matches(Entry(p), Route(p))
    BY <1>4, <2>1 DEF Matches, Filtered
  <2> QED
    BY <1>2, <2>1, <2>2 DEF Describes, With
<1> QED
  BY <1>1, <1>3, <1>5, <1>6 DEF DiscoveryNext, Pass

\* Where nothing is disputed the documentation and the gateway never disagree,
\* whatever names collide.
THEOREM InventoryAgreesWithSync == DiscoverySpec => []InventoryAgrees
<1>1. DiscoveryInit => InventoryAgrees
  BY DEF DiscoveryInit, InventoryAgrees, Describes
<1> QED
  BY <1>1, DiscoveryTypeCorrect, AgreementKept, PTL DEF DiscoverySpec

-----------------------------------------------------------------------------
(* Requests reach the view, and the documented url is one route's alone.   *)

\* The prefix can be taken off again.
LEMMA PrefixComesOff ==
    ASSUME NEW t \in Template
    PROVE  /\ Head(join_prefix(t).segs) = Prefix
           /\ [join_prefix(t) EXCEPT !.segs = Tail(@)] = t
<1>1. PICK segs \in Seq(Segment) : t.segs = segs
  BY DEF Template
<1>2. t = [segs |-> segs, ext |-> t.ext]
  BY <1>1 DEF Template
<1>3. join_prefix(t) = [segs |-> <<Prefix>> \o segs, ext |-> t.ext]
  <2>1. join_prefix(t) = [t EXCEPT !.segs = <<Prefix>> \o segs]
    BY <1>1 DEF join_prefix
  <2>2. join_prefix(t) \in [segs : {<<Prefix>> \o segs}, ext : {t.ext}]
    BY <2>1 DEF Template
  <2> QED
    BY <2>2
<1>4. /\ <<Prefix>> \o segs \in Seq(Segment)
      /\ Len(<<Prefix>> \o segs) = 1 + Len(segs)
      /\ (<<Prefix>> \o segs)[1] = Prefix
      /\ \A i \in 1 .. Len(segs) : (<<Prefix>> \o segs)[i + 1] = segs[i]
  BY DiscoveryAssumption
<1>5. Tail(<<Prefix>> \o segs) = segs
  BY <1>4
<1>6. Head(<<Prefix>> \o segs) = Prefix
  BY <1>4
<1> QED
  BY <1>2, <1>3, <1>5, <1>6

\* What a route publishes as its alias is what is declared, or nothing.
LEMMA RouteShape ==
    ASSUME NEW p \in Pattern, exposure_for_pattern(p) # None
    PROVE  LET declared == exposure_for_pattern(p).alias
               upstream == django_path_template(p)
               alias == rewrite_mode_for(upstream, declared).alias
           IN  /\ upstream \in Template
               /\ alias \in {None, declared} /\ alias \in Template \cup {None}
               /\ Route(p).upstream = upstream
               /\ Route(p).name = kong_route_name(upstream, alias)
               /\ Route(p).paths = _gateway_paths(upstream, alias)
               /\ Route(p).mode = rewrite_mode_for(upstream, declared).mode
               /\ Entry(p).public = IF alias = None THEN join_prefix(upstream) ELSE alias
<1>1. exposure_for_pattern(p).alias \in Template \cup {None}
  BY ExposureTyped DEF Mark
<1> QED
  BY <1>1, UpstreamTyped DEF Route, Entry, RouteName, rewrite_mode_for

\* A parameter that is captured under a name Lua reads is substituted.
LEMMA CapturedAreSubstituted ==
    ASSUME NEW t \in Template, NEW g,
           \A seg \in Params(t) : seg \in Params(g) /\ seg.text \in LuaName
    PROVE  [t EXCEPT !.segs = [i \in DOMAIN @ |-> Substituted(@[i], g)]] = t
<1>1. t.segs \in Seq(Segment) /\ t = [segs |-> t.segs, ext |-> t.ext]
  BY DEF Template
<1>2. ASSUME NEW i \in DOMAIN t.segs PROVE Substituted(t.segs[i], g) = t.segs[i]
  <2>1. t.segs[i] \in Segment
    BY <1>1
  <2>2. t.segs[i].param \in BOOLEAN
    BY <2>1 DEF Segment
  <2>3. t.segs[i].param => t.segs[i] \in Params(t)
    BY DEF Params
  <2> QED
    BY <2>2, <2>3 DEF Substituted
<1>3. [i \in DOMAIN t.segs |-> Substituted(t.segs[i], g)] = t.segs
  BY <1>1, <1>2
<1> QED
  BY <1>1, <1>3

LEMMA PatternReaches ==
    ASSUME NEW p \in Pattern, exposure_for_pattern(p) # None, NEW g \in Route(p).paths,
           Route(p).mode = "alias_captures" =>
               \A seg \in Params(Route(p).upstream) : seg \in Params(g) /\ seg.text \in LuaName
    PROVE  Rewritten(Route(p), g) = Route(p).upstream
<1> DEFINE r == Route(p)
           upstream == django_path_template(p)
           declared == exposure_for_pattern(p).alias
           rewrite == rewrite_mode_for(upstream, declared)
<1>1. /\ upstream \in Template /\ r.upstream = upstream /\ r.mode = rewrite.mode
      /\ r.paths = _gateway_paths(upstream, rewrite.alias)
  BY RouteShape
<1>2. /\ rewrite.mode \in {"alias_captures", "strip_prefix", "static_uri"}
      /\ rewrite.mode = "strip_prefix" => rewrite.alias = None
      /\ rewrite.mode = "static_uri" => ~HasParams(upstream)
  BY DEF rewrite_mode_for
<1> HIDE DEF r, upstream, declared, rewrite
<1>3. CASE r.mode = "static_uri"
  BY <1>1, <1>2, <1>3 DEF Rewritten, Rewriting, r
<1>4. CASE r.mode = "strip_prefix"
  <2>1. g = join_prefix(upstream)
    BY <1>1, <1>2, <1>4 DEF _gateway_paths, r
  <2>2. Head(g.segs) = Prefix /\ [g EXCEPT !.segs = Tail(@)] = upstream
    BY <1>1, <2>1, PrefixComesOff
  <2> QED
    BY <1>1, <1>4, <2>2 DEF Rewritten, Rewriting, r
<1>5. CASE r.mode = "alias_captures"
  <2>1. [upstream EXCEPT !.segs = [i \in DOMAIN @ |-> Substituted(@[i], g)]] = upstream
    BY <1>1, <1>5, CapturedAreSubstituted DEF r
  <2> QED
    BY <1>1, <1>5, <2>1 DEF Rewritten, Rewriting, r
<1> QED
  BY <1>1, <1>2, <1>3, <1>4, <1>5

\* Whatever path of a route a request matches, the rewriter of the route asks
\* Django for the view's own path, if the alias captures its parameters
\* (_desired_rewrite_plugin and the Lua it configures).
THEOREM RequestsReach == DiscoverySpec => []RewriteReaches
<1>1. DiscoveryTypeOK => RewriteReaches
  <2> SUFFICES ASSUME DiscoveryTypeOK, NEW n \in DOMAIN routes, NEW g \in routes[n].paths,
                      routes[n].mode = "alias_captures" =>
                        \A seg \in Params(routes[n].upstream) : seg \in Params(g) /\ seg.text \in LuaName
               PROVE  Rewritten(routes[n], g) = routes[n].upstream
    BY DEF RewriteReaches
  <2>1. PICK p \in Exposed : routes[n] = Route(p)
    BY DEF DiscoveryTypeOK
  <2>2. p \in Pattern /\ exposure_for_pattern(p) # None
    BY DEF Exposed, DiscoveryTypeOK
  <2> QED
    BY <2>1, <2>2, PatternReaches
<1> QED
  BY <1>1, DiscoveryTypeCorrect, PTL

\* The url the inventory promises for one pattern is a path of another one's route
\* only where the two have one name.
LEMMA PublicPathNames ==
    ASSUME NEW p \in Pattern, exposure_for_pattern(p) # None,
           NEW q \in Pattern, exposure_for_pattern(q) # None,
           \A x \in {p, q} : LET alias == exposure_for_pattern(x).alias
                             IN  alias # None => Head(alias.segs) # Prefix,
           LET alias == exposure_for_pattern(q).alias
           IN  alias # None /\ alias.ext # None /\ alias = Route(p).upstream => q = p,
           Route(p).upstream = Route(q).upstream => Route(p).name = Route(q).name,
           Entry(p).public \in Route(q).paths
    PROVE  Route(p).name = Route(q).name
<1> DEFINE up == django_path_template(p)
           uq == django_path_template(q)
           ap == rewrite_mode_for(up, exposure_for_pattern(p).alias).alias
           aq == rewrite_mode_for(uq, exposure_for_pattern(q).alias).alias
<1>1. /\ up \in Template /\ ap \in {None, exposure_for_pattern(p).alias} /\ ap \in Template \cup {None}
      /\ Route(p).upstream = up /\ Route(p).name = kong_route_name(up, ap)
      /\ Entry(p).public = IF ap = None THEN join_prefix(up) ELSE ap
  BY RouteShape
<1>2. /\ uq \in Template /\ aq \in {None, exposure_for_pattern(q).alias} /\ aq \in Template \cup {None}
      /\ Route(q).upstream = uq /\ Route(q).name = kong_route_name(uq, aq)
      /\ Route(q).paths = _gateway_paths(uq, aq)
  BY RouteShape
<1>3. /\ ap # None => Head(ap.segs) # Prefix
      /\ aq # None => Head(aq.segs) # Prefix
      /\ aq # None /\ aq.ext # None /\ aq = up => q = p
      /\ q = p => aq = ap
  BY <1>1, <1>2
<1> HIDE DEF up, uq, ap, aq
<1>4. /\ \A t \in Template : Head(join_prefix(t).segs) = Prefix
      /\ \A t, u \in Template : join_prefix(t) = join_prefix(u) => t = u
  BY PrefixComesOff
<1>5. Entry(p).public \in
          {join_prefix(uq)} \cup (IF aq = None THEN {} ELSE {aq, join_prefix(aq)})
  BY <1>2 DEF _gateway_paths
<1>6. CASE ap # None
  <2>1. aq # None /\ ap = aq
    BY <1>1, <1>2, <1>3, <1>4, <1>5, <1>6
  <2> QED
    BY <1>1, <1>2, <2>1 DEF kong_route_name
<1>7. CASE ap = None
  <2>1. \/ up = uq
        \/ aq # None /\ up = aq
    BY <1>1, <1>2, <1>3, <1>4, <1>5, <1>7
  <2>2. CASE aq # None /\ up = aq
    <3>1. aq.ext = None
      BY <1>3, <1>7, <2>2
    <3> QED
      BY <1>1, <1>2, <1>7, <2>2, <3>1 DEF kong_route_name
  <2> QED
    BY <1>1, <1>2, <2>1, <2>2
<1> QED
  BY <1>6, <1>7

\* Unless an alias begins with the prefix, an alias with an extension is the path
\* of another view, or views share a path, no route of the gateway has the url
\* that is documented for another (_gateway_paths, kong_route_name, _public_paths).
THEOREM DocumentedPathsAreOwn == DiscoverySpec => []PublicPathIsOwn
<1>1. DiscoveryTypeOK => PublicPathIsOwn
  <2> SUFFICES ASSUME DiscoveryTypeOK, Spaced, NEW n \in DOMAIN inventory, NEW m \in DOMAIN routes,
                      inventory[n].public \in routes[m].paths
               PROVE  m = n
    BY DEF PublicPathIsOwn
  <2>1. PICK p \in Exposed : inventory[n] = Entry(p) /\ n = Entry(p).name
    BY DEF DiscoveryTypeOK
  <2>2. PICK q \in Exposed : routes[m] = Route(q) /\ m = Route(q).name
    BY DEF DiscoveryTypeOK
  <2>3. /\ p \in Pattern /\ exposure_for_pattern(p) # None
        /\ q \in Pattern /\ exposure_for_pattern(q) # None
    BY DEF Exposed, DiscoveryTypeOK
  <2>4. /\ \A x \in {p, q} : LET alias == exposure_for_pattern(x).alias
                             IN  alias # None => Head(alias.segs) # Prefix
        /\ Route(p).upstream = Route(q).upstream => Route(p).name = Route(q).name
        /\ LET alias == exposure_for_pattern(q).alias
           IN  alias # None /\ alias.ext # None /\ alias = Route(p).upstream => q = p
    BY DEF Spaced
  <2> QED
    BY <2>1, <2>2, <2>3, <2>4, PublicPathNames, NamedAlike
<1> QED
  BY <1>1, DiscoveryTypeCorrect, PTL
=============================================================================
