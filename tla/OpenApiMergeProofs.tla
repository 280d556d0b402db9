--------------------------- MODULE OpenApiMergeProofs ---------------------------
(***************************************************************************)
(* Theorems about OpenApiMerge for any aliases, paths, fragments, runs,    *)
(* deaths and edits, checked by TLAPS.                                     *)
(***************************************************************************)
EXTENDS OpenApiMerge, SequenceTheorems, TLAPS

-----------------------------------------------------------------------------
(* What a command makes of a document and a manifest. *)

Tagged(doc) == Referenced(doc.paths) \subseteq doc.tags

GoodDoc(doc) == doc \in Doc /\ Tagged(doc)

Unique(manifest) ==
    \A a, b \in Some(manifest) : manifest[a].path = manifest[b].path => a = b

GoodManifest(manifest) == manifest \in Manifests /\ Unique(manifest)

\* the paths a command may change
OwnPaths(c, manifest) ==
    {manifest[a].path : a \in {c.alias} \cap Some(manifest)}
        \cup (IF c.kind = "merge" THEN {c.fragment.path} ELSE {})

Kept(old, doc, own) ==
    /\ \A p \in Path \ own : doc.paths[p] = old.paths[p]
    /\ \A n \in Some(old.parts) : doc.parts[n] = old.parts[n]

Resolves(doc, m) ==
    \A wanted \in {Shared, m.parts} : \A n \in Some(wanted) : doc.parts[n] = wanted[n]

LEMMA IndexTyped ==
    ASSUME NEW paths \in [Path -> Item \cup {None}]
    PROVE  IndexOf(paths) \in [Path -> {Headline[i] : i \in Item} \cup {None}]
BY DEF IndexOf

LEMMA ReferencedTyped ==
    ASSUME NEW paths \in [Path -> Item \cup {None}]
    PROVE  Referenced(paths) \subseteq Tag
BY MergeAssumption DEF Referenced, Some

LEMMA EmptyDocGood == GoodDoc(EmptyDoc)
BY DEF GoodDoc, Doc, Tagged, Referenced, Some, EmptyDoc

LEMMA MergedDocGood ==
    ASSUME NEW m \in Fragments, NEW doc, GoodDoc(doc), NEW manifest
    PROVE  GoodDoc(MergedDoc(m, doc, manifest))
<1> DEFINE moved == Moved(m, doc, manifest)
           paths == [p \in Path |-> CASE p = m.path -> m.item
                                      [] p \in moved -> None
                                      [] OTHER -> doc.paths[p]]
           tags  == doc.tags \cup TagsOf[m.item]
           new1  == MergedDoc(m, doc, manifest)
<1>1. /\ doc.paths \in [Path -> Item \cup {None}] /\ doc.tags \in SUBSET Tag
      /\ doc.parts \in [Part -> Value \cup {None}]
      /\ m.item \in Item /\ m.path \in Path /\ m.parts \in [Part -> Value \cup {None}]
      /\ TagsOf[m.item] \in SUBSET Tag
  BY MergeAssumption DEF GoodDoc, Doc
<1>2. /\ new1.paths = paths /\ new1.index = IndexOf(paths)
      /\ new1.tags = IF moved = {} THEN tags ELSE PruneTags(tags, paths)
      /\ new1 = [paths |-> new1.paths, tags |-> new1.tags, index |-> new1.index, parts |-> new1.parts]
  BY DEF MergedDoc
<1>3. paths \in [Path -> Item \cup {None}]
  BY <1>1
<1>4. new1.parts \in [Part -> Value \cup {None}]
  BY <1>1, MergeAssumption DEF MergedDoc, Joined
<1>5. new1.tags \in SUBSET Tag
  BY <1>1, <1>2 DEF PruneTags
<1>6. Referenced(paths) \subseteq new1.tags
  <2>1. Referenced(doc.paths) \subseteq doc.tags
    BY DEF GoodDoc, Tagged
  <2>2. \A p \in Some(paths) : TagsOf[paths[p]] \subseteq tags
    BY <1>1, <2>1 DEF Referenced, Some
  <2>3. Referenced(paths) \subseteq tags
    BY <2>2 DEF Referenced
  <2> HIDE DEF paths, tags, moved
  <2> QED
    BY <1>2, <2>3 DEF PruneTags
<1> HIDE DEF paths, tags, moved, new1
<1>7. new1.index \in [Path -> {Headline[i] : i \in Item} \cup {None}]
  BY <1>2, <1>3, IndexTyped
<1>8. new1 \in Doc
  BY <1>2, <1>3, <1>4, <1>5, <1>7 DEF Doc
<1> QED
  BY <1>2, <1>6, <1>8 DEF GoodDoc, Tagged, new1

LEMMA RemovedDocGood ==
    ASSUME NEW a, NEW doc, GoodDoc(doc), NEW manifest
    PROVE  GoodDoc(RemovedDoc(a, doc, manifest))
<1> DEFINE paths == [doc.paths EXCEPT ![manifest[a].path] = None]
           new1  == RemovedDoc(a, doc, manifest)
<1>1. doc \in Doc /\ paths \in [Path -> Item \cup {None}]
  BY DEF GoodDoc, Doc
<1>2. new1 = [doc EXCEPT !.paths = paths, !.tags = PruneTags(doc.tags, paths),
                         !.index = IndexOf(paths)]
  BY DEF RemovedDoc
<1>3. IndexOf(paths) \in [Path -> {Headline[i] : i \in Item} \cup {None}]
  BY <1>1, IndexTyped
<1>4. PruneTags(doc.tags, paths) \in SUBSET Tag
  BY <1>1 DEF PruneTags, Doc
<1>5. Referenced(paths) \subseteq PruneTags(doc.tags, paths)
  <2>1. \A p \in Some(paths) : p \in Some(doc.paths) /\ paths[p] = doc.paths[p]
    BY <1>1 DEF Some, Doc
  <2> HIDE DEF paths
  <2> QED
    BY <2>1 DEF PruneTags, GoodDoc, Tagged, Referenced
<1> HIDE DEF paths, new1
<1>6. new1 \in Doc /\ new1.paths = paths /\ new1.tags = PruneTags(doc.tags, paths)
  BY <1>1, <1>2, <1>3, <1>4 DEF Doc
<1> QED
  BY <1>5, <1>6 DEF GoodDoc, Tagged, new1

Reindexed(doc) == [doc EXCEPT !.index = IndexOf(doc.paths)]

LEMMA ReindexedGood ==
    ASSUME NEW doc, GoodDoc(doc)
    PROVE  GoodDoc(Reindexed(doc))
<1>1. doc \in Doc /\ IndexOf(doc.paths) \in [Path -> {Headline[i] : i \in Item} \cup {None}]
  BY IndexTyped DEF GoodDoc, Doc
<1> DEFINE index == IndexOf(doc.paths)
<1> HIDE DEF index
<1>2. [doc EXCEPT !.index = index] \in Doc /\ [doc EXCEPT !.index = index].paths = doc.paths
      /\ [doc EXCEPT !.index = index].tags = doc.tags
  BY <1>1 DEF Doc, index
<1> QED
  BY <1>2 DEF GoodDoc, Tagged, Reindexed, index

-----------------------------------------------------------------------------
(* ... and of the manifest. *)

LEMMA StampTyped ==
    ASSUME NEW m \in Fragments, NEW doc, NEW manifest \in Manifests,
           clock \in 0 .. MaxRuns, clock < MaxRuns
    PROVE  [path |-> m.path, stamp |-> Stamp(m, doc, manifest)] \in Entry
<1>1. m.alias \in Alias /\ m.path \in Path /\ clock + 1 \in 1 .. MaxRuns
  BY MergeAssumption
<1>2. Stamp(m, doc, manifest) \in 1 .. MaxRuns
  BY <1>1 DEF Stamp, Manifests, Entry
<1> QED
  BY <1>1, <1>2 DEF Entry

LEMMA MergedManifestGood ==
    ASSUME NEW m \in Fragments, NEW doc, NEW manifest, GoodManifest(manifest),
           Owner(m, manifest) = {}, clock \in 0 .. MaxRuns, clock < MaxRuns
    PROVE  GoodManifest(MergedManifest(m, doc, manifest))
<1> DEFINE stamp == Stamp(m, doc, manifest)
           entry == [path |-> m.path, stamp |-> stamp]
           new1  == [manifest EXCEPT ![m.alias] = entry]
<1>1. m.alias \in Alias /\ m.path \in Path /\ manifest \in Manifests
  BY MergeAssumption DEF GoodManifest
<1>4. entry \in Entry
  BY <1>1, StampTyped
<1> HIDE DEF stamp
<1>5. entry.path = m.path
  OBVIOUS
<1> HIDE DEF entry
<1>6. new1 \in Manifests
  BY <1>1, <1>4 DEF Manifests
<1>7. \A a \in Some(new1) \ {m.alias} : a \in Some(manifest) /\ new1[a] = manifest[a]
                                          /\ manifest[a].path # m.path
  BY <1>1 DEF Some, Manifests, Owner
<1>8. new1[m.alias].path = m.path
  BY <1>1, <1>5 DEF Manifests
<1>9. Unique(new1)
  <2>1. SUFFICES ASSUME NEW a \in Some(new1), NEW b \in Some(new1),
                        new1[a].path = new1[b].path
                 PROVE  a = b
    BY DEF Unique
  <2> HIDE DEF new1
  <2> QED
    BY <1>7, <1>8, <2>1 DEF GoodManifest, Unique
<1> QED
  BY <1>6, <1>9 DEF GoodManifest, MergedManifest, entry, stamp

LEMMA RemovedManifestGood ==
    ASSUME NEW a \in Alias, NEW manifest, GoodManifest(manifest)
    PROVE  GoodManifest([manifest EXCEPT ![a] = None])
BY DEF GoodManifest, Manifests, Unique, Some

-----------------------------------------------------------------------------
(* What a command leaves alone, and what it settles. *)

LEMMA MergedDocKeeps ==
    ASSUME NEW m \in Fragments, NEW doc \in Doc, NEW manifest \in Manifests
    PROVE  Kept(doc, MergedDoc(m, doc, manifest), OwnPaths(Command("merge", m.alias, m), manifest))
<1> DEFINE new1 == MergedDoc(m, doc, manifest)
           own  == OwnPaths(Command("merge", m.alias, m), manifest)
<1>1. /\ doc.paths \in [Path -> Item \cup {None}] /\ doc.parts \in [Part -> Value \cup {None}]
      /\ m.path \in Path /\ m.alias \in Alias /\ m.parts \in [Part -> Value \cup {None}]
  BY MergeAssumption DEF Doc
<1>2. m.path \in own /\ \A p \in Moved(m, doc, manifest) : p \in own
  BY DEF OwnPaths, Command, Moved
<1> HIDE DEF own
<1>3. \A p \in Path \ own : new1.paths[p] = doc.paths[p]
  BY <1>1, <1>2 DEF MergedDoc
<1>4. \A n \in Some(doc.parts) : new1.parts[n] = doc.parts[n]
  BY <1>1 DEF MergedDoc, Joined, Some
<1> QED
  BY <1>3, <1>4 DEF Kept, own

LEMMA MergedDocResolves ==
    ASSUME NEW m \in Fragments, NEW doc \in Doc, NEW manifest, ~Forks(m, doc)
    PROVE  Resolves(MergedDoc(m, doc, manifest), m)
<1> DEFINE shared == Joined(doc.parts, Shared)
<1>1. /\ doc.parts \in [Part -> Value \cup {None}] /\ m.parts \in [Part -> Value \cup {None}]
      /\ Shared \in [Part -> Value \cup {None}]
  BY MergeAssumption DEF Doc
<1>2. /\ \A n \in Some(doc.parts) \cap Some(Shared) : doc.parts[n] = Shared[n]
      /\ \A n \in Some(shared) \cap Some(m.parts) : shared[n] = m.parts[n]
  BY DEF Forks, Agree
<1>3. shared \in [Part -> Value \cup {None}] /\ \A n \in Some(Shared) : shared[n] = Shared[n]
  BY <1>1, <1>2 DEF Joined, Some
<1>4. MergedDoc(m, doc, manifest).parts = Joined(shared, m.parts)
  BY DEF MergedDoc
<1> HIDE DEF shared
<1>5. \A n \in Some(Shared) : Joined(shared, m.parts)[n] = Shared[n]
  BY <1>1, <1>3 DEF Joined, Some
<1>6. \A n \in Some(m.parts) : Joined(shared, m.parts)[n] = m.parts[n]
  BY <1>1, <1>2, <1>3 DEF Joined, Some
<1> QED
  BY <1>4, <1>5, <1>6 DEF Resolves

LEMMA RemovedDocKeeps ==
    ASSUME NEW a \in Alias, NEW doc \in Doc, NEW manifest \in Manifests, manifest[a] # None
    PROVE  Kept(doc, RemovedDoc(a, doc, manifest), OwnPaths(Command("remove", a, None), manifest))
<1>1. manifest[a].path \in OwnPaths(Command("remove", a, None), manifest)
  BY DEF OwnPaths, Command, Some, Manifests
<1>2. RemovedDoc(a, doc, manifest).paths = [doc.paths EXCEPT ![manifest[a].path] = None]
      /\ RemovedDoc(a, doc, manifest).parts = doc.parts
  BY DEF RemovedDoc, Doc
<1> QED
  BY <1>1, <1>2 DEF Kept, Doc

LEMMA ReindexedKeeps ==
    ASSUME NEW doc \in Doc, NEW own
    PROVE  Kept(doc, Reindexed(doc), own)
BY DEF Kept, Reindexed, Doc

\* a document and a manifest that the command would not change
Settles(c, doc, manifest) ==
    /\ doc.index = IndexOf(doc.paths)
    /\ c.kind = "merge" =>
          /\ doc.paths[c.fragment.path] = c.fragment.item
          /\ manifest[c.alias] # None /\ manifest[c.alias].path = c.fragment.path
          /\ \A n \in Part : doc.parts[n] = None => Shared[n] = None /\ c.fragment.parts[n] = None
    /\ c.kind = "remove" => manifest[c.alias] = None

LEMMA MergedDocSettled ==
    ASSUME NEW m \in Fragments, NEW doc \in Doc, NEW manifest
    PROVE  LET new1 == MergedDoc(m, doc, manifest)
           IN  /\ new1.index = IndexOf(new1.paths) /\ new1.paths[m.path] = m.item
               /\ \A n \in Part : new1.parts[n] = None => Shared[n] = None /\ m.parts[n] = None
               /\ Moved(m, new1, manifest) = {}
<1> DEFINE new1 == MergedDoc(m, doc, manifest)
<1>1. /\ doc.parts \in [Part -> Value \cup {None}] /\ m.parts \in [Part -> Value \cup {None}]
      /\ doc.paths \in [Path -> Item \cup {None}]
      /\ Shared \in [Part -> Value \cup {None}] /\ m.path \in Path
  BY MergeAssumption DEF Doc
<1>2. /\ new1.paths = [p \in Path |-> CASE p = m.path -> m.item
                                         [] p \in Moved(m, doc, manifest) -> None
                                         [] OTHER -> doc.paths[p]]
      /\ new1.index = IndexOf(new1.paths) /\ m.path \notin Moved(m, doc, manifest)
  BY DEF MergedDoc, Moved
<1>3. \A n \in Part : new1.parts[n] = None => Shared[n] = None /\ m.parts[n] = None
  BY <1>1 DEF MergedDoc, Joined
<1> HIDE DEF new1
<1>4. new1.paths[m.path] = m.item
  BY <1>1, <1>2
<1>5. \A p \in Path \ {m.path} :
          new1.paths[p] = IF p \in Moved(m, doc, manifest) THEN None ELSE doc.paths[p]
  BY <1>2
<1>6. DOMAIN new1.paths = Path /\ DOMAIN doc.paths = Path
  BY <1>1, <1>2
<1>7. Moved(m, new1, manifest) = {}
  BY <1>5, <1>6 DEF Moved, Some
<1> QED
  BY <1>2, <1>3, <1>4, <1>7 DEF new1

LEMMA MergedSettles ==
    ASSUME NEW m \in Fragments, NEW doc \in Doc, NEW manifest \in Manifests,
           clock \in 0 .. MaxRuns, clock < MaxRuns
    PROVE  Settles(Command("merge", m.alias, m), MergedDoc(m, doc, manifest),
                   MergedManifest(m, doc, manifest))
<1> DEFINE entry == [path |-> m.path, stamp |-> Stamp(m, doc, manifest)]
<1>1. m.alias \in Alias
  BY MergeAssumption
<1>2. MergedManifest(m, doc, manifest)[m.alias] = entry
  BY <1>1 DEF MergedManifest, Manifests
<1>3. entry.path = m.path /\ entry # None
  BY StampTyped, MergeAssumption
<1> QED
  BY <1>2, <1>3, MergedDocSettled DEF Settles, Command

LEMMA RemovedSettles ==
    ASSUME NEW a \in Alias, NEW doc \in Doc, NEW manifest \in Manifests
    PROVE  Settles(Command("remove", a, None), RemovedDoc(a, doc, manifest),
                   [manifest EXCEPT ![a] = None])
BY DEF Settles, Command, RemovedDoc, Doc, Manifests

LEMMA ReindexedSettles ==
    ASSUME NEW doc \in Doc, NEW manifest
    PROVE  Settles(Command("reindex", None, None), Reindexed(doc), manifest)
BY DEF Settles, Command, Reindexed, Doc

\* A merge into a document that has what it brings changes nothing.
LEMMA MergeIntoSettled ==
    ASSUME NEW m \in Fragments, NEW doc \in Doc, NEW manifest, Tagged(doc),
           doc.index = IndexOf(doc.paths), doc.paths[m.path] = m.item,
           \A n \in Part : doc.parts[n] = None => Shared[n] = None /\ m.parts[n] = None,
           Moved(m, doc, manifest) = {}
    PROVE  MergedDoc(m, doc, manifest) = doc
<1>1. /\ doc.paths \in [Path -> Item \cup {None}] /\ doc.parts \in [Part -> Value \cup {None}]
      /\ doc.tags \in SUBSET Tag
      /\ doc = [paths |-> doc.paths, tags |-> doc.tags, index |-> doc.index, parts |-> doc.parts]
      /\ m.parts \in [Part -> Value \cup {None}] /\ Shared \in [Part -> Value \cup {None}]
      /\ m.path \in Path /\ m.item \in Item
  BY MergeAssumption DEF Doc
<1>2. [p \in Path |-> CASE p = m.path -> m.item
                        [] p \in Moved(m, doc, manifest) -> None
                        [] OTHER -> doc.paths[p]] = doc.paths
  BY <1>1
<1>3. doc.tags \cup TagsOf[m.item] = doc.tags
  <2>1. m.path \in Some(doc.paths)
    BY <1>1, MergeAssumption DEF Some
  <2> QED
    BY <2>1 DEF Tagged, Referenced
<1>4. Joined(Joined(doc.parts, Shared), m.parts) = doc.parts
  BY <1>1 DEF Joined
<1> QED
  BY <1>1, <1>2, <1>3, <1>4 DEF MergedDoc

\* The same merge again changes nothing, not even the timestamp.
LEMMA MergeOfSettled ==
    ASSUME NEW m \in Fragments, NEW doc \in Doc, NEW manifest \in Manifests,
           Settles(Command("merge", m.alias, m), doc, manifest), Tagged(doc)
    PROVE  MergedDoc(m, doc, manifest) = doc /\ MergedManifest(m, doc, manifest) = manifest
<1>1. m.path \in Path /\ m.alias \in Alias
  BY MergeAssumption
<1>2. /\ doc.index = IndexOf(doc.paths) /\ doc.paths[m.path] = m.item
      /\ manifest[m.alias] # None /\ manifest[m.alias].path = m.path
      /\ \A n \in Part : doc.parts[n] = None => Shared[n] = None /\ m.parts[n] = None
  BY DEF Settles, Command
<1>3. Moved(m, doc, manifest) = {}
  BY <1>2 DEF Moved
<1>4. MergedDoc(m, doc, manifest) = doc
  BY <1>2, <1>3, MergeIntoSettled
<1>5. Stamp(m, doc, manifest) = manifest[m.alias].stamp
  BY <1>2, <1>3 DEF Stamp, Unchanged
<1>6. manifest[m.alias] = [path |-> m.path, stamp |-> manifest[m.alias].stamp]
  BY <1>1, <1>2 DEF Manifests, Entry
<1>7. MergedManifest(m, doc, manifest) = manifest
  BY <1>1, <1>5, <1>6 DEF MergedManifest, Manifests
<1> QED
  BY <1>4, <1>7

LEMMA ReindexOfSettled ==
    ASSUME NEW doc \in Doc, doc.index = IndexOf(doc.paths)
    PROVE  Reindexed(doc) = doc
BY DEF Reindexed, Doc

-----------------------------------------------------------------------------
(* The inductive invariant. *)

\* what parses is good, in the files and in what a run holds of them
FilesInv ==
    /\ \A f \in {file, base, new} : f = [x \in Files |-> f[x]]
    /\ file["doc"] \notin {Missing, Torn} => GoodDoc(file["doc"])
    /\ file["manifest"] # Torn => GoodManifest(file["manifest"])
    /\ base["doc"] # Missing => GoodDoc(base["doc"])
    /\ GoodManifest(base["manifest"])
    /\ new["doc"] # Missing => GoodDoc(new["doc"])
    /\ GoodManifest(new["manifest"])

\* what a run is to write, and how far it is
Planned ==
    /\ cmd \in Commands
    /\ GoodDoc(new["doc"])
    /\ base["doc"] # Missing => Kept(base["doc"], new["doc"], OwnPaths(cmd, base["manifest"]))
    /\ cmd.kind = "merge" => Resolves(new["doc"], cmd.fragment)
    /\ Settles(cmd, new["doc"], new["manifest"])

Writing ==
    /\ cmd.kind = "reindex" => todo = <<"doc">>
    /\ cmd.kind # "reindex" =>
          /\ todo \in {<<"doc", "manifest">>, <<"manifest">>}
          /\ \A f \in Files : file[f] = Torn => f = Head(todo)
    /\ todo = <<"manifest">> => file["doc"] = new["doc"]

RunInv ==
    /\ phase \in Rest \cup {"writing"}
    /\ todo \in {<<>>, <<"doc">>, <<"manifest">>, <<"doc", "manifest">>}
    /\ clock \in 0..MaxRuns /\ edits \in 0..MaxEdits
    /\ author \in [Path -> Alias \cup {None}]
    /\ lost \in SUBSET Alias
    /\ dead # None => dead.cmd \in Commands
    /\ phase = "writing" => Planned /\ Writing
    /\ phase = "done" => Planned /\ file["doc"] = new["doc"]

\* the last command is one the files would not change under
LastInv ==
    /\ phase \in Rest /\ last # None =>
          /\ last \in Commands
          /\ file["doc"] \notin {Missing, Torn}
          /\ last.kind # "reindex" => file["manifest"] # Torn
          /\ Settles(last, file["doc"], file["manifest"])
    /\ RerunIsNoop

MergeInv == FilesInv /\ RunInv /\ LastInv

LEMMA MergeInit == Init => MergeInv
BY MergeAssumption DEF Init, MergeInv, FilesInv, RunInv, LastInv, RerunIsNoop, Rest, Files,
   GoodManifest, Manifests, Unique, Some

\* A command that writes nothing.
LEMMA ExitKeeps ==
    ASSUME MergeInv, NEW c, Begin(c), NEW how \in {"idle", "refused"}, Exit(how)
    PROVE  MergeInv'
<1> USE DEF Begin, Exit
<1>1. FilesInv'
  BY DEF MergeInv, FilesInv
<1>2. RunInv'
  <2>1. clock' \in 0 .. MaxRuns
    BY MergeAssumption DEF MergeInv, RunInv
  <2> QED
    BY <2>1 DEF MergeInv, RunInv, Rest
<1>3. LastInv'
  BY DEF MergeInv, LastInv, RerunIsNoop, Rest
<1> QED
  BY <1>1, <1>2, <1>3 DEF MergeInv

\* A command that begins to write what its plan allows.
LEMMA WriteKeeps ==
    ASSUME MergeInv, NEW c \in Commands, Begin(c), NEW doc, NEW manifest, Write(doc, manifest),
           GoodDoc(doc), GoodManifest(manifest),
           file["doc"] # Torn, c.kind # "reindex" => Readable,
           file["doc"] # Missing => Kept(file["doc"], doc, OwnPaths(c, Good("manifest"))),
           c.kind = "merge" => Resolves(doc, c.fragment),
           Settles(c, doc, manifest),
           last # None /\ last = c => doc = file["doc"] /\ manifest = Good("manifest")
    PROVE  MergeInv'
<1>1. /\ phase \in Rest /\ phase' = "writing" /\ cmd' = c /\ file' = file /\ last' = last
      /\ clock' = clock + 1 /\ clock < MaxRuns /\ edits' = edits /\ author' = author
      /\ todo' = WriteOrder(c.kind)
      /\ base' = [f \in Files |-> Good(f)]
      /\ new' = [doc |-> doc, manifest |-> manifest]
  BY DEF Begin, Write
<1>2. /\ base'["doc"] = file["doc"] /\ base'["manifest"] = Good("manifest")
      /\ new'["doc"] = doc /\ new'["manifest"] = manifest
  BY <1>1 DEF Files, Good
<1>3. GoodManifest(Good("manifest"))
  BY DEF Good, MergeInv, FilesInv
<1>4. FilesInv'
  <2>1. base' = [f \in Files |-> base'[f]] /\ new' = [f \in Files |-> new'[f]]
    BY <1>1 DEF Files
  <2> QED
    BY <1>1, <1>2, <1>3, <2>1 DEF MergeInv, FilesInv
<1>5. Planned'
  BY <1>1, <1>2 DEF Planned
<1>6. Writing' /\ todo' \in {<<"doc">>, <<"doc", "manifest">>}
  <2>1. c.kind # "reindex" => \A f \in Files : file[f] # Torn
    BY DEF Readable, Files
  <2>2. <<"doc">> # <<"manifest">> /\ <<"doc", "manifest">> # <<"manifest">>
    OBVIOUS
  <2> QED
    BY <1>1, <2>1, <2>2 DEF Writing, WriteOrder
<1>7. RunInv'
  <2>1. clock' \in 0 .. MaxRuns
    BY <1>1, MergeAssumption DEF MergeInv, RunInv
  <2>2. (dead' # None => dead'.cmd \in Commands) /\ lost' \in SUBSET Alias
    <3>1. CASE dead = None \/ dead.cmd = cmd'
      BY <3>1 DEF Write, MergeInv, RunInv
    <3>2. CASE ~(dead = None \/ dead.cmd = cmd')
      <4>1. dead.cmd.alias \in Alias \cup {None}
        BY <3>2, MergeAssumption DEF MergeInv, RunInv, Commands, Command
      <4> QED
        BY <3>2, <4>1 DEF Write, MergeInv, RunInv
    <3> QED
      BY <3>1, <3>2
  <2> QED
    BY <1>1, <1>5, <1>6, <2>1, <2>2 DEF MergeInv, RunInv
<1>8. LastInv'
  <2>1. (last # None /\ last = c) => new' = base'
    BY <1>1, <1>2 DEF Files
  <2> QED
    BY <1>1, <2>1 DEF LastInv, RerunIsNoop, Rest
<1> QED
  BY <1>4, <1>7, <1>8 DEF MergeInv

-----------------------------------------------------------------------------
(* One lemma per action. *)

LEMMA MergeKeeps ==
    ASSUME MergeInv, NEW m \in Fragments, Merge(m) \/ RefuseMerge(m)
    PROVE  MergeInv'
<1> DEFINE c == Command("merge", m.alias, m)
           manifest == file["manifest"]
<1>1. CASE RefuseMerge(m) \/ (Merge(m) /\ Exit("idle"))
  BY <1>1, ExitKeeps DEF RefuseMerge, Merge
<1>2. CASE Merge(m) /\ Write(MergedDoc(m, Loaded, manifest), MergedManifest(m, Loaded, manifest))
  <2>1. /\ Begin(c) /\ Readable /\ Owner(m, manifest) = {} /\ ~Forks(m, Loaded)
        /\ c \in Commands /\ c.kind = "merge" /\ c.fragment = m
    BY <1>2 DEF Merge, Mergeable, Commands, Command
  <2>2. /\ GoodManifest(manifest) /\ Good("manifest") = manifest
        /\ file["doc"] # Torn /\ manifest # Torn
    BY <2>1 DEF Readable, Good, MergeInv, FilesInv
  <2>3. GoodDoc(Loaded) /\ (file["doc"] # Missing => Loaded = file["doc"])
    BY <2>2, EmptyDocGood DEF Loaded, MergeInv, FilesInv
  <2>4. clock \in 0 .. MaxRuns /\ clock < MaxRuns
    BY <2>1 DEF Begin, MergeInv, RunInv
  <2>5. Loaded \in Doc /\ Tagged(Loaded) /\ manifest \in Manifests
    BY <2>2, <2>3 DEF GoodDoc, GoodManifest
  <2>6. /\ GoodDoc(MergedDoc(m, Loaded, manifest))
        /\ GoodManifest(MergedManifest(m, Loaded, manifest))
    BY <2>1, <2>2, <2>3, <2>4, MergedDocGood, MergedManifestGood
  <2>7. file["doc"] # Missing =>
            Kept(file["doc"], MergedDoc(m, Loaded, manifest), OwnPaths(c, manifest))
    BY <2>3, <2>5, MergedDocKeeps
  <2>8. Resolves(MergedDoc(m, Loaded, manifest), m)
    BY <2>1, <2>5, MergedDocResolves
  <2>9. Settles(c, MergedDoc(m, Loaded, manifest), MergedManifest(m, Loaded, manifest))
    BY <2>4, <2>5, MergedSettles
  <2>10. last # None /\ last = c =>
             /\ MergedDoc(m, Loaded, manifest) = file["doc"]
             /\ MergedManifest(m, Loaded, manifest) = manifest
    <3>1. SUFFICES ASSUME last # None, last = c
                   PROVE  /\ MergedDoc(m, Loaded, manifest) = file["doc"]
                          /\ MergedManifest(m, Loaded, manifest) = manifest
      OBVIOUS
    <3>2. file["doc"] # Missing /\ Settles(c, file["doc"], manifest)
      BY <2>1, <3>1 DEF Begin, MergeInv, LastInv
    <3> QED
      BY <2>3, <2>5, <3>2, MergeOfSettled
  <2> HIDE DEF c, manifest
  <2> QED
    BY <1>2, <2>1, <2>2, <2>6, <2>7, <2>8, <2>9, <2>10, WriteKeeps
<1> QED
  BY <1>1, <1>2 DEF Merge

LEMMA RemoveKeeps ==
    ASSUME MergeInv, NEW a \in Alias, Remove(a) \/ RefuseRemove(a)
    PROVE  MergeInv'
<1> DEFINE c == Command("remove", a, None)
           doc == file["doc"]
           manifest == file["manifest"]
           removed == [manifest EXCEPT ![a] = None]
<1>1. CASE RefuseRemove(a) \/ (Remove(a) /\ Exit("idle"))
  BY <1>1, ExitKeeps DEF RefuseRemove, Remove
<1>2. CASE Remove(a) /\ Write(RemovedDoc(a, doc, manifest), removed)
  <2>1. /\ Begin(c) /\ Readable /\ doc # Missing /\ manifest[a] # None
        /\ c \in Commands /\ c.kind = "remove" /\ c.alias = a
    BY <1>2 DEF Remove, Removable, Commands, Command
  <2>2. /\ GoodManifest(manifest) /\ Good("manifest") = manifest /\ GoodDoc(doc)
        /\ doc # Torn /\ manifest # Torn
    BY <2>1 DEF Readable, Good, MergeInv, FilesInv
  <2>3. doc \in Doc /\ manifest \in Manifests
    BY <2>2 DEF GoodDoc, GoodManifest
  <2>4. GoodDoc(RemovedDoc(a, doc, manifest)) /\ GoodManifest(removed)
    BY <2>2, RemovedDocGood, RemovedManifestGood
  <2>5. Kept(doc, RemovedDoc(a, doc, manifest), OwnPaths(c, manifest))
    BY <2>1, <2>3, RemovedDocKeeps
  <2>6. Settles(c, RemovedDoc(a, doc, manifest), removed)
    BY <2>3, RemovedSettles
  <2>7. ~(last # None /\ last = c)
    BY <2>1 DEF Begin, MergeInv, LastInv, Settles
  <2> HIDE DEF c, doc, manifest, removed
  <2> QED
    BY <1>2, <2>1, <2>2, <2>4, <2>5, <2>6, <2>7, WriteKeeps DEF doc, manifest
<1> QED
  BY <1>1, <1>2 DEF Remove

LEMMA ReindexKeeps ==
    ASSUME MergeInv, Reindex \/ RefuseReindex
    PROVE  MergeInv'
<1> DEFINE c == Command("reindex", None, None)
           doc == file["doc"]
<1>1. CASE RefuseReindex \/ (Reindex /\ Exit("idle"))
  BY <1>1, ExitKeeps DEF RefuseReindex, Reindex
<1>2. CASE Reindex /\ Reindexed(doc) # doc /\ Write(Reindexed(doc), Good("manifest"))
  <2>1. /\ Begin(c) /\ doc # Missing /\ doc # Torn
        /\ c \in Commands /\ c.kind = "reindex"
    BY <1>2 DEF Reindex, Commands, Command
  <2>2. GoodDoc(doc) /\ GoodManifest(Good("manifest"))
    BY <2>1 DEF Good, MergeInv, FilesInv
  <2>3. doc \in Doc
    BY <2>2 DEF GoodDoc
  <2>4. GoodDoc(Reindexed(doc))
    BY <2>2, ReindexedGood
  <2>5. Kept(doc, Reindexed(doc), OwnPaths(c, Good("manifest")))
    BY <2>3, ReindexedKeeps
  <2>6. Settles(c, Reindexed(doc), Good("manifest"))
    BY <2>3, ReindexedSettles
  <2>7. ~(last # None /\ last = c)
    <3>1. last # None /\ last = c => doc.index = IndexOf(doc.paths)
      BY <2>1 DEF Begin, MergeInv, LastInv, Settles
    <3> QED
      BY <1>2, <2>3, <3>1, ReindexOfSettled
  <2> HIDE DEF c, doc
  <2> QED
    BY <1>2, <2>1, <2>2, <2>4, <2>5, <2>6, <2>7, WriteKeeps DEF doc
<1> QED
  BY <1>1, <1>2 DEF Reindex, Reindexed

LEMMA TruncateKeeps ==
    ASSUME MergeInv, Truncate
    PROVE  MergeInv'
<1>1. /\ phase = "writing" /\ file[Head(todo)] # Torn
      /\ file' = [file EXCEPT ![Head(todo)] = Torn]
      /\ UNCHANGED <<phase, cmd, todo, base, new, clock, edits, author, last, dead, lost>>
  BY DEF Truncate, run, history
<1>2. Planned /\ Writing /\ file = [f \in Files |-> file[f]]
  BY <1>1 DEF MergeInv, RunInv, FilesInv
<1>3. Head(todo) \in Files /\ (todo = <<"manifest">> => Head(todo) = "manifest")
  BY <1>2 DEF Writing, Files
<1>4. /\ \A f \in Files : file'[f] = IF f = Head(todo) THEN Torn ELSE file[f]
      /\ file' = [f \in Files |-> file'[f]]
  BY <1>1, <1>2, <1>3
<1>5. FilesInv'
  BY <1>1, <1>4 DEF MergeInv, FilesInv, Files
<1>6. Planned'
  BY <1>1, <1>2 DEF Planned
<1>7. Writing'
  BY <1>1, <1>2, <1>3, <1>4 DEF Writing, Files
<1>8. RunInv'
  BY <1>1, <1>6, <1>7 DEF MergeInv, RunInv
<1>9. LastInv'
  BY <1>1 DEF MergeInv, LastInv, RerunIsNoop, Rest
<1> QED
  BY <1>5, <1>8, <1>9 DEF MergeInv

LEMMA FillKeeps ==
    ASSUME MergeInv, Fill
    PROVE  MergeInv'
<1>1. /\ phase = "writing" /\ file[Head(todo)] = Torn
      /\ file' = [file EXCEPT ![Head(todo)] = new[Head(todo)]]
      /\ todo' = Tail(todo)
      /\ UNCHANGED <<cmd, base, new, clock, edits, lost>>
  BY DEF Fill
<1>2. Planned /\ Writing /\ file = [f \in Files |-> file[f]]
  BY <1>1 DEF MergeInv, RunInv, FilesInv
<1>3. Head(todo) \in Files
  BY <1>2 DEF Writing, Files
<1>4. /\ \A f \in Files : file'[f] = IF f = Head(todo) THEN new[f] ELSE file[f]
      /\ file' = [f \in Files |-> file'[f]]
  BY <1>1, <1>2, <1>3
<1>5. new["doc"] # Missing /\ new["doc"] # Torn /\ GoodDoc(new["doc"]) /\ new["manifest"] # Torn
      /\ GoodManifest(new["manifest"])
  BY <1>2, MergeAssumption DEF Planned, GoodDoc, MergeInv, FilesInv, GoodManifest
<1>6. FilesInv'
  BY <1>1, <1>3, <1>4, <1>5 DEF MergeInv, FilesInv, Files
<1>7. Planned'
  BY <1>1, <1>2 DEF Planned
<1>8. author' \in [Path -> Alias \cup {None}]
  <2>1. cmd.kind = "merge" => cmd.alias \in Alias
    BY <1>2, MergeAssumption DEF Planned, Commands, Command
  <2> QED
    BY <2>1 DEF Fill, MergeInv, RunInv
<1>9. CASE todo = <<"doc", "manifest">>
  <2>1. todo' = <<"manifest">> /\ Head(todo) = "doc"
    BY <1>1, <1>9
  <2>2. phase' = phase /\ last' = last /\ dead' = dead
    <3>1. todo' # <<>>
      BY <2>1
    <3> QED
      BY <3>1 DEF Fill
  <2>3. cmd.kind # "reindex"
    BY <1>2, <1>9 DEF Writing
  <2>4. file'["doc"] = new["doc"] /\ file'["manifest"] = file["manifest"]
    BY <1>4, <2>1 DEF Files
  <2>5. file["manifest"] # Torn
    BY <1>2, <2>1, <2>3 DEF Writing, Files
  <2>6. Writing'
    BY <1>1, <1>5, <2>1, <2>3, <2>4, <2>5 DEF Writing, Files
  <2>7. RunInv'
    BY <1>1, <1>7, <1>8, <2>1, <2>2, <2>6 DEF MergeInv, RunInv
  <2>8. LastInv'
    BY <1>1, <2>2 DEF MergeInv, LastInv, RerunIsNoop, Rest
  <2> QED
    BY <1>6, <2>7, <2>8 DEF MergeInv
<1>10. CASE todo \in {<<"doc">>, <<"manifest">>}
  <2>1. todo' = <<>>
    <3>1. Tail(<<"doc">>) = <<>> /\ Tail(<<"manifest">>) = <<>>
      OBVIOUS
    <3> QED
      BY <1>1, <1>10, <3>1
  <2>2. phase' = "done" /\ last' = cmd /\ dead' = None
    BY <2>1 DEF Fill
  <2>3. file'["doc"] = new["doc"]
    BY <1>2, <1>4, <1>10 DEF Writing, Files
  <2>4. cmd.kind # "reindex" => file'["manifest"] = new["manifest"]
    BY <1>2, <1>4, <1>10 DEF Writing, Files
  <2>5. RunInv'
    BY <1>1, <1>7, <1>8, <2>1, <2>2, <2>3 DEF MergeInv, RunInv, Rest
  <2>6. Settles(cmd, new["doc"], file'["manifest"])
    BY <1>2, <2>4 DEF Planned, Settles
  <2>7. LastInv'
    BY <1>1, <1>2, <1>5, <2>2, <2>3, <2>4, <2>6 DEF LastInv, RerunIsNoop, Rest, Planned
  <2> QED
    BY <1>6, <2>5, <2>7 DEF MergeInv
<1> QED
  BY <1>2, <1>9, <1>10 DEF Writing

LEMMA DieKeeps ==
    ASSUME MergeInv, Die
    PROVE  MergeInv'
<1>1. FilesInv'
  BY DEF Die, MergeInv, FilesInv
<1>2. dead'.cmd \in Commands
  BY DEF Die, MergeInv, RunInv, Planned
<1>3. RunInv'
  BY <1>2 DEF Die, MergeInv, RunInv, Rest
<1>4. LastInv'
  BY DEF Die, LastInv, RerunIsNoop
<1> QED
  BY <1>1, <1>3, <1>4 DEF MergeInv

LEMMA RestoreKeeps ==
    ASSUME MergeInv, NEW f \in Files, Restore(f)
    PROVE  MergeInv'
<1>1. /\ phase \in Rest /\ file[f] = Torn /\ phase' = "idle"
      /\ file' = [file EXCEPT ![f] = base[f]]
      /\ UNCHANGED <<cmd, todo, base, new, clock, edits, author, last, dead, lost>>
  BY DEF Restore, history
<1>2. file = [x \in Files |-> file[x]]
  BY DEF MergeInv, FilesInv
<1>3. /\ \A x \in Files : file'[x] = IF x = f THEN base[f] ELSE file[x]
      /\ file' = [x \in Files |-> file'[x]]
  BY <1>1, <1>2
<1>4. f = "doc" \/ f = "manifest"
  BY DEF Files
<1>5. FilesInv'
  BY <1>1, <1>3, <1>4 DEF MergeInv, FilesInv, Files
<1>6. RunInv'
  BY <1>1 DEF MergeInv, RunInv, Rest
<1>7. LastInv'
  <2>1. ASSUME last # None
        PROVE  /\ last \in Commands /\ last.kind = "reindex" /\ f = "manifest"
               /\ file["doc"] \notin {Missing, Torn} /\ Settles(last, file["doc"], file["manifest"])
    BY <1>1, <1>4, <2>1 DEF MergeInv, LastInv
  <2>2. ASSUME last # None
        PROVE  file'["doc"] = file["doc"] /\ Settles(last, file'["doc"], file'["manifest"])
    BY <1>3, <2>1, <2>2 DEF Files, Settles
  <2> QED
    BY <1>1, <2>1, <2>2 DEF LastInv, RerunIsNoop
<1> QED
  BY <1>5, <1>6, <1>7 DEF MergeInv

\* An edit of a path, or of a component, leaves a good document.
LEMMA EditedGood ==
    ASSUME NEW doc, GoodDoc(doc)
    PROVE  /\ \A p \in Path, i \in {x \in Item : TagsOf[x] \subseteq doc.tags} \cup {None} :
                 GoodDoc([doc EXCEPT !.paths[p] = i])
           /\ \A n \in Part, v \in Value : GoodDoc([doc EXCEPT !.parts[n] = v])
<1>1. doc \in Doc /\ Tagged(doc)
  BY DEF GoodDoc
<1>2. ASSUME NEW p \in Path, NEW i \in {x \in Item : TagsOf[x] \subseteq doc.tags} \cup {None}
      PROVE  GoodDoc([doc EXCEPT !.paths[p] = i])
  <2> DEFINE paths == [doc.paths EXCEPT ![p] = i]
             new1  == [doc EXCEPT !.paths = paths]
  <2>1. paths \in [Path -> Item \cup {None}]
    BY <1>1 DEF Doc
  <2>2. \A q \in Some(paths) : TagsOf[paths[q]] \subseteq doc.tags
    BY <1>1, <1>2 DEF Tagged, Referenced, Some, Doc
  <2> HIDE DEF paths
  <2>3. new1 \in Doc /\ new1.paths = paths /\ new1.tags = doc.tags
    BY <1>1, <2>1 DEF Doc
  <2>4. GoodDoc(new1)
    BY <2>2, <2>3 DEF GoodDoc, Tagged, Referenced
  <2> QED
    BY <2>4 DEF paths
<1>3. ASSUME NEW n \in Part, NEW v \in Value
      PROVE  GoodDoc([doc EXCEPT !.parts[n] = v])
  <2> DEFINE parts == [doc.parts EXCEPT ![n] = v]
             new1  == [doc EXCEPT !.parts = parts]
  <2>1. parts \in [Part -> Value \cup {None}]
    BY <1>1 DEF Doc
  <2> HIDE DEF parts
  <2>2. new1 \in Doc /\ new1.paths = doc.paths /\ new1.tags = doc.tags
    BY <1>1, <2>1 DEF Doc
  <2>3. GoodDoc(new1)
    BY <1>1, <2>2 DEF GoodDoc, Tagged
  <2> QED
    BY <2>3 DEF parts
<1> QED
  BY <1>2, <1>3

LEMMA EditKeeps ==
    ASSUME MergeInv, Edit
    PROVE  MergeInv'
<1> DEFINE doc == file["doc"]
<1>1. /\ edits < MaxEdits /\ doc \notin {Missing, Torn} /\ edits' = edits + 1
      /\ phase' = "idle" /\ last' = None /\ dead' = None
      /\ lost' = IF dead = None THEN lost ELSE lost \cup ({dead.cmd.alias} \ {None})
      /\ UNCHANGED <<cmd, todo, base, new, clock>>
  BY DEF Edit
<1>2. GoodDoc(doc) /\ file = [f \in Files |-> file[f]]
  BY <1>1 DEF MergeInv, FilesInv
<1>3. author' \in [Path -> Alias \cup {None}]
  BY DEF Edit, MergeInv, RunInv
<1>4. \E d : GoodDoc(d) /\ file' = [file EXCEPT !["doc"] = d]
  <2>1. CASE \E p \in Path, i \in {x \in Item : TagsOf[x] \subseteq doc.tags} \cup {None} :
                file' = [file EXCEPT !["doc"].paths[p] = i]
    BY <1>2, <2>1, EditedGood
  <2>2. CASE \E n \in Part, v \in Value : file' = [file EXCEPT !["doc"].parts[n] = v]
    BY <1>2, <2>2, EditedGood
  <2> QED
    BY <2>1, <2>2 DEF Edit
<1>5. FilesInv'
  <2>1. PICK d : GoodDoc(d) /\ file' = [file EXCEPT !["doc"] = d]
    BY <1>4
  <2>2. /\ file'["doc"] = d /\ file'["manifest"] = file["manifest"]
        /\ file' = [f \in Files |-> file'[f]]
    BY <1>2, <2>1 DEF Files
  <2> QED
    BY <1>1, <2>1, <2>2 DEF MergeInv, FilesInv
<1>6. RunInv'
  <2>1. lost' \in SUBSET Alias
    <3>1. dead # None => dead.cmd.alias \in Alias \cup {None}
      BY MergeAssumption DEF MergeInv, RunInv, Commands, Command
    <3> QED
      BY <1>1, <3>1 DEF MergeInv, RunInv
  <2>2. edits' \in 0 .. MaxEdits
    BY <1>1, MergeAssumption DEF MergeInv, RunInv
  <2> QED
    BY <1>1, <1>3, <2>1, <2>2 DEF MergeInv, RunInv, Rest
<1>7. LastInv'
  BY <1>1 DEF LastInv, RerunIsNoop
<1> QED
  BY <1>5, <1>6, <1>7 DEF MergeInv

LEMMA MergeNext == MergeInv /\ [Next]_vars => MergeInv'
<1> SUFFICES ASSUME MergeInv, [Next]_vars PROVE MergeInv'
  OBVIOUS
<1>1. CASE UNCHANGED vars
  BY <1>1 DEF vars, run, history, MergeInv, FilesInv, RunInv, LastInv, Planned, Writing,
     RerunIsNoop
<1> QED
  BY <1>1, MergeKeeps, RemoveKeeps, ReindexKeeps, TruncateKeeps, FillKeeps, DieKeeps,
     RestoreKeeps, EditKeeps DEF Next

LEMMA MergeInductive == Spec => []MergeInv
BY MergeInit, MergeNext, PTL DEF Spec

-----------------------------------------------------------------------------
(* A run that died, and the run that repeats it. *)

Load(doc) == IF doc = Missing THEN EmptyDoc ELSE doc

\* out is what a command makes of the two files, but for the timestamp
Makes(c, doc, manifest, out) ==
    /\ c.kind = "merge" =>
          /\ Owner(c.fragment, manifest) = {} /\ ~Forks(c.fragment, Load(doc))
          /\ out["doc"] = MergedDoc(c.fragment, Load(doc), manifest)
          /\ Routes(out["manifest"]) =
                [a \in Some(manifest) \cup {c.alias} |->
                    IF a = c.alias THEN c.fragment.path ELSE manifest[a].path]
    /\ c.kind = "remove" =>
          /\ doc # Missing /\ manifest[c.alias] # None
          /\ out["doc"] = RemovedDoc(c.alias, doc, manifest)
          /\ out["manifest"] = [manifest EXCEPT ![c.alias] = None]
    /\ c.kind = "reindex" =>
          /\ doc # Missing
          /\ out["doc"] = Reindexed(doc)
          /\ out["manifest"] = manifest

\* where the files may be between the first write of a run and its last
Between ==
    /\ file["doc"] \in {base["doc"], Torn, new["doc"]}
    /\ file["manifest"] \in {base["manifest"], Torn}

DeadInv ==
    /\ phase = "writing" => Makes(cmd, base["doc"], base["manifest"], new) /\ Between
    /\ phase \in Rest /\ dead # None =>
          /\ dead.new = new
          /\ Makes(dead.cmd, base["doc"], base["manifest"], new)
          /\ Between
    /\ RetryRepairs

LEMMA MakesIsAFunction ==
    ASSUME NEW c \in Commands, NEW doc, NEW manifest, NEW out, NEW out1,
           Makes(c, doc, manifest, out), Makes(c, doc, manifest, out1)
    PROVE  out["doc"] = out1["doc"] /\ Routes(out["manifest"]) = Routes(out1["manifest"])
BY DEF Makes, Commands, Command

\* A command makes the same of a document it has written already.
LEMMA MakesAgain ==
    ASSUME NEW c \in Commands, NEW doc, doc = Missing \/ GoodDoc(doc),
           NEW manifest, GoodManifest(manifest), NEW out, Makes(c, doc, manifest, out)
    PROVE  Makes(c, out["doc"], manifest, out)
<1> DEFINE old == Load(doc)
<1>1. GoodDoc(old) /\ old \in Doc /\ manifest \in Manifests
  BY EmptyDocGood DEF Load, GoodDoc, GoodManifest
<1>2. CASE c.kind = "merge"
  <2>1. PICK m \in Fragments : c = Command("merge", m.alias, m)
    BY <1>2 DEF Commands, Command
  <2>2. c.fragment = m /\ c.alias = m.alias
    BY <2>1 DEF Command
  <2> DEFINE new1 == MergedDoc(m, old, manifest)
  <2>3. /\ Owner(m, manifest) = {} /\ ~Forks(m, old) /\ out["doc"] = new1
        /\ Routes(out["manifest"]) =
              [a \in Some(manifest) \cup {c.alias} |->
                  IF a = c.alias THEN c.fragment.path ELSE manifest[a].path]
    BY <1>2, <2>2 DEF Makes
  <2>4. GoodDoc(new1)
    BY <1>1, MergedDocGood
  <2>5. new1 \in Doc /\ Tagged(new1) /\ new1 # Missing
    BY <2>4, MergeAssumption DEF GoodDoc
  <2>6. /\ new1.index = IndexOf(new1.paths) /\ new1.paths[m.path] = m.item
        /\ \A n \in Part : new1.parts[n] = None => Shared[n] = None /\ m.parts[n] = None
        /\ Moved(m, new1, manifest) = {}
    BY <1>1, MergedDocSettled
  <2>7. Resolves(new1, m)
    BY <1>1, <2>3, MergedDocResolves
  <2> HIDE DEF new1, old
  <2>8. MergedDoc(m, new1, manifest) = new1
    BY <2>5, <2>6, MergeIntoSettled
  <2>9. ~Forks(m, new1)
    <3>1. /\ new1.parts \in [Part -> Value \cup {None}] /\ m.parts \in [Part -> Value \cup {None}]
          /\ Shared \in [Part -> Value \cup {None}]
      BY <2>5, MergeAssumption DEF Doc
    <3>2. Joined(new1.parts, Shared) = new1.parts
      BY <2>6, <3>1 DEF Joined
    <3> QED
      BY <2>7, <3>2 DEF Resolves, Forks, Agree
  <2> QED
    BY <1>2, <2>2, <2>3, <2>5, <2>8, <2>9 DEF Makes, Load
<1>3. CASE c.kind = "remove"
  <2> DEFINE a == c.alias
             new1 == RemovedDoc(a, doc, manifest)
             paths == [doc.paths EXCEPT ![manifest[a].path] = None]
  <2>1. doc # Missing /\ manifest[a] # None /\ out["doc"] = new1
        /\ out["manifest"] = [manifest EXCEPT ![a] = None]
    BY <1>3 DEF Makes
  <2>2. GoodDoc(doc) /\ doc \in Doc
    BY <2>1 DEF GoodDoc
  <2>3. GoodDoc(new1)
    BY <2>2, RemovedDocGood
  <2>4. new1 \in Doc /\ new1 # Missing
    BY <2>3, MergeAssumption DEF GoodDoc
  <2>5. /\ new1.paths = paths /\ new1.index = IndexOf(paths)
        /\ new1.tags = PruneTags(doc.tags, paths)
    BY <2>2 DEF RemovedDoc, Doc
  <2>6. [paths EXCEPT ![manifest[a].path] = None] = paths
    BY <2>2 DEF Doc
  <2>7. PruneTags(PruneTags(doc.tags, paths), paths) = PruneTags(doc.tags, paths)
    BY DEF PruneTags
  <2> HIDE DEF paths, new1
  <2>8. RemovedDoc(a, new1, manifest) = new1
    BY <2>4, <2>5, <2>6, <2>7 DEF RemovedDoc, Doc
  <2> QED
    BY <1>3, <2>1, <2>4, <2>8 DEF Makes
<1>4. CASE c.kind = "reindex"
  <2>1. doc # Missing /\ out["doc"] = Reindexed(doc) /\ out["manifest"] = manifest
    BY <1>4 DEF Makes
  <2>2. GoodDoc(doc) /\ doc \in Doc
    BY <2>1 DEF GoodDoc
  <2>3. Reindexed(doc) \in Doc /\ Reindexed(doc) # Missing
    BY <2>2, ReindexedGood, MergeAssumption DEF GoodDoc
  <2>4. Reindexed(Reindexed(doc)) = Reindexed(doc)
    BY <2>2, <2>3 DEF Reindexed, Doc
  <2> QED
    BY <1>4, <2>1, <2>3, <2>4 DEF Makes
<1> QED
  BY <1>2, <1>3, <1>4 DEF Commands, Command

\* What a command makes of a document and the manifest it would read now is what
\* it made before it died.
LEMMA RepeatMakesTheSame ==
    ASSUME MergeInv, DeadInv, phase \in Rest, dead # None,
           file["doc"] # Torn
    PROVE  Makes(dead.cmd, file["doc"], Good("manifest"), dead.new)
<1>1. /\ dead.cmd \in Commands /\ dead.new = new
      /\ Makes(dead.cmd, base["doc"], base["manifest"], new)
      /\ file["doc"] \in {base["doc"], new["doc"]} /\ Good("manifest") = base["manifest"]
  BY DEF MergeInv, RunInv, DeadInv, Between, Good
<1>2. (base["doc"] = Missing \/ GoodDoc(base["doc"])) /\ GoodManifest(base["manifest"])
  BY DEF MergeInv, FilesInv
<1> QED
  BY <1>1, <1>2, MakesAgain

LEMMA DeadExit ==
    ASSUME MergeInv, DeadInv, NEW c, Begin(c), NEW how \in {"idle", "refused"}, Exit(how),
           how = "refused" /\ dead # None /\ dead.cmd = c => ~Readable
    PROVE  DeadInv'
<1>1. /\ phase \in Rest /\ phase' = how /\ cmd' = c
      /\ UNCHANGED <<file, base, new, dead>>
  BY DEF Begin, Exit
<1>2. how # "writing" /\ how # "refused" => how = "idle"
  OBVIOUS
<1>3. RetryRepairs'
  BY <1>1, <1>2 DEF RetryRepairs, Readable
<1> QED
  BY <1>1, <1>2, <1>3 DEF DeadInv, Between, Rest

LEMMA DeadWrite ==
    ASSUME MergeInv, DeadInv, NEW c \in Commands, Begin(c), NEW doc, NEW manifest,
           Write(doc, manifest), file["doc"] # Torn,
           Makes(c, file["doc"], Good("manifest"), [doc |-> doc, manifest |-> manifest])
    PROVE  DeadInv'
<1>1. /\ phase \in Rest /\ phase' = "writing" /\ cmd' = c /\ file' = file
      /\ base' = [f \in Files |-> Good(f)]
      /\ new' = [doc |-> doc, manifest |-> manifest]
      /\ dead' # None => dead' = dead /\ dead # None
  BY DEF Begin, Write
<1>2. base'["doc"] = file["doc"] /\ base'["manifest"] = Good("manifest")
  BY <1>1 DEF Files, Good
<1>3. file["manifest"] \in {Good("manifest"), Torn}
  BY DEF Good
<1>4. RetryRepairs'
  <2>1. SUFFICES ASSUME dead' # None, dead'.cmd = c
                 PROVE  /\ new'["doc"] = dead.new["doc"]
                        /\ Routes(new'["manifest"]) = Routes(dead.new["manifest"])
    BY <1>1 DEF RetryRepairs
  <2>2. Makes(c, file["doc"], Good("manifest"), dead.new)
    BY <1>1, <2>1, RepeatMakesTheSame
  <2> QED
    BY <1>1, <2>2, MakesIsAFunction
<1> QED
  BY <1>1, <1>2, <1>3, <1>4 DEF DeadInv, Between, Rest

LEMMA DeadMerge ==
    ASSUME MergeInv, DeadInv, NEW m \in Fragments, Merge(m) \/ RefuseMerge(m)
    PROVE  DeadInv'
<1> DEFINE c == Command("merge", m.alias, m)
           manifest == file["manifest"]
           doc1 == MergedDoc(m, Loaded, manifest)
           man1 == MergedManifest(m, Loaded, manifest)
<1>1. c \in Commands /\ c.kind = "merge" /\ c.fragment = m /\ c.alias = m.alias
  BY DEF Commands, Command
<1>2. Loaded = Load(file["doc"])
  BY DEF Loaded, Load
<1>3. CASE Merge(m) /\ Exit("idle")
  BY <1>3, DeadExit DEF Merge
<1>4. CASE Merge(m) /\ Write(doc1, man1)
  <2>1. /\ Begin(c) /\ Owner(m, manifest) = {} /\ ~Forks(m, Loaded)
        /\ file["doc"] # Torn /\ manifest # Torn /\ Good("manifest") = manifest
    BY <1>4 DEF Merge, Mergeable, Readable, Good
  <2>2. manifest \in Manifests /\ m.alias \in Alias
    BY <2>1, MergeAssumption DEF MergeInv, FilesInv, GoodManifest
  <2>3. Routes(man1) = [a \in Some(manifest) \cup {m.alias} |->
                           IF a = m.alias THEN m.path ELSE manifest[a].path]
    <3> DEFINE entry == [path |-> m.path, stamp |-> Stamp(m, Loaded, manifest)]
    <3>1. entry # None /\ entry.path = m.path
      BY <2>1, <2>2, StampTyped, MergeAssumption DEF Begin, MergeInv, RunInv
    <3>2. man1 = [manifest EXCEPT ![m.alias] = entry]
      BY DEF MergedManifest
    <3> HIDE DEF entry, man1
    <3>3. /\ Some(man1) = Some(manifest) \cup {m.alias}
          /\ \A a \in Some(man1) :
                man1[a].path = IF a = m.alias THEN m.path ELSE manifest[a].path
      BY <2>2, <3>1, <3>2 DEF Some, Manifests
    <3> QED
      BY <3>3 DEF Routes
  <2> HIDE DEF doc1, man1, c
  <2>4. Makes(c, file["doc"], Good("manifest"), [doc |-> doc1, manifest |-> man1])
    BY <1>1, <1>2, <2>1, <2>3 DEF Makes, doc1
  <2> QED
    BY <1>1, <1>4, <2>1, <2>4, DeadWrite
<1>5. CASE RefuseMerge(m)
  <2>1. dead # None /\ dead.cmd = c => ~Readable
    <3>1. SUFFICES ASSUME dead # None, dead.cmd = c, Readable PROVE FALSE
      OBVIOUS
    <3>2. file["doc"] # Torn /\ Good("manifest") = manifest
      BY <3>1 DEF Readable, Good
    <3>3. Makes(c, file["doc"], manifest, dead.new)
      BY <1>5, <3>1, <3>2, RepeatMakesTheSame DEF RefuseMerge, Begin
    <3>4. Owner(m, manifest) = {} /\ ~Forks(m, Loaded)
      BY <1>1, <1>2, <3>3 DEF Makes
    <3> QED
      BY <1>5, <3>1, <3>4 DEF RefuseMerge, Mergeable
  <2> QED
    BY <1>5, <2>1, DeadExit DEF RefuseMerge
<1> QED
  BY <1>3, <1>4, <1>5 DEF Merge

LEMMA DeadRemove ==
    ASSUME MergeInv, DeadInv, NEW a \in Alias, Remove(a) \/ RefuseRemove(a)
    PROVE  DeadInv'
<1> DEFINE c == Command("remove", a, None)
           manifest == file["manifest"]
           doc1 == RemovedDoc(a, file["doc"], manifest)
           man1 == [manifest EXCEPT ![a] = None]
<1>1. c \in Commands /\ c.kind = "remove" /\ c.alias = a
  BY DEF Commands, Command
<1>2. CASE Remove(a) /\ Exit("idle")
  BY <1>2, DeadExit DEF Remove
<1>3. CASE Remove(a) /\ Write(doc1, man1)
  <2>1. /\ Begin(c) /\ file["doc"] # Torn /\ Good("manifest") = manifest
        /\ file["doc"] # Missing /\ manifest[a] # None
    BY <1>3 DEF Remove, Removable, Readable, Good
  <2> HIDE DEF c, man1
  <2>2. Makes(c, file["doc"], Good("manifest"), [doc |-> doc1, manifest |-> man1])
    BY <1>1, <2>1 DEF Makes, man1
  <2> QED
    BY <1>1, <1>3, <2>1, <2>2, DeadWrite
<1>4. CASE RefuseRemove(a)
  <2>1. dead # None /\ dead.cmd = c => ~Readable
    <3>1. SUFFICES ASSUME dead # None, dead.cmd = c, Readable PROVE FALSE
      OBVIOUS
    <3>2. file["doc"] # Torn /\ Good("manifest") = manifest
      BY <3>1 DEF Readable, Good
    <3>3. Makes(c, file["doc"], manifest, dead.new)
      BY <1>4, <3>1, <3>2, RepeatMakesTheSame DEF RefuseRemove, Begin
    <3>4. file["doc"] # Missing /\ manifest[a] # None
      BY <1>1, <3>3 DEF Makes
    <3> QED
      BY <1>4, <3>1, <3>4 DEF RefuseRemove, Removable
  <2> QED
    BY <1>4, <2>1, DeadExit DEF RefuseRemove
<1> QED
  BY <1>2, <1>3, <1>4 DEF Remove

LEMMA DeadReindex ==
    ASSUME MergeInv, DeadInv, Reindex \/ RefuseReindex
    PROVE  DeadInv'
<1> DEFINE c == Command("reindex", None, None)
           doc1 == Reindexed(file["doc"])
<1>1. c \in Commands /\ c.kind = "reindex"
  BY DEF Commands, Command
<1>2. CASE Reindex /\ Exit("idle")
  BY <1>2, DeadExit DEF Reindex
<1>3. CASE Reindex /\ Write(doc1, Good("manifest"))
  <2>1. Begin(c) /\ file["doc"] # Torn /\ file["doc"] # Missing
    BY <1>3 DEF Reindex
  <2> HIDE DEF c
  <2>2. Makes(c, file["doc"], Good("manifest"), [doc |-> doc1, manifest |-> Good("manifest")])
    BY <1>1, <2>1 DEF Makes
  <2> QED
    BY <1>1, <1>3, <2>1, <2>2, DeadWrite
<1>4. CASE RefuseReindex
  <2>1. dead # None /\ dead.cmd = c => ~Readable
    <3>1. SUFFICES ASSUME dead # None, dead.cmd = c, Readable PROVE FALSE
      OBVIOUS
    <3>2. file["doc"] # Torn
      BY <3>1 DEF Readable
    <3>3. Makes(c, file["doc"], Good("manifest"), dead.new)
      BY <1>4, <3>1, <3>2, RepeatMakesTheSame DEF RefuseReindex, Begin
    <3> QED
      BY <1>1, <1>4, <3>2, <3>3 DEF RefuseReindex, Makes
  <2> QED
    BY <1>4, <2>1, DeadExit DEF RefuseReindex
<1> QED
  BY <1>2, <1>3, <1>4 DEF Reindex, Reindexed

LEMMA DeadTruncate ==
    ASSUME MergeInv, DeadInv, Truncate
    PROVE  DeadInv'
<1>1. /\ phase = "writing" /\ file' = [file EXCEPT ![Head(todo)] = Torn]
      /\ UNCHANGED <<phase, cmd, base, new, dead>>
  BY DEF Truncate, run, history
<1>2. file = [f \in Files |-> file[f]] /\ Between
  BY <1>1 DEF MergeInv, FilesInv, DeadInv
<1>3. \A f \in Files : file'[f] \in {file[f], Torn}
  BY <1>1, <1>2
<1>4. Between'
  BY <1>1, <1>2, <1>3 DEF Between, Files
<1>5. RetryRepairs'
  BY <1>1 DEF DeadInv, RetryRepairs
<1> QED
  BY <1>1, <1>4, <1>5 DEF DeadInv, Rest

LEMMA DeadFill ==
    ASSUME MergeInv, DeadInv, Fill
    PROVE  DeadInv'
<1>1. /\ phase = "writing" /\ file' = [file EXCEPT ![Head(todo)] = new[Head(todo)]]
      /\ todo' = Tail(todo) /\ UNCHANGED <<cmd, base, new>>
  BY DEF Fill
<1>2. file = [f \in Files |-> file[f]] /\ Between /\ Writing
  BY <1>1 DEF MergeInv, FilesInv, RunInv, DeadInv
<1>3. CASE todo' = <<>>
  <2>1. phase' = "done" /\ dead' = None
    BY <1>3 DEF Fill
  <2> QED
    BY <2>1 DEF DeadInv, RetryRepairs
<1>4. CASE todo' # <<>>
  <2>1. phase' = phase /\ dead' = dead
    BY <1>4 DEF Fill
  <2>2. Head(todo) = "doc"
    <3>1. todo \in {<<"doc">>, <<"doc", "manifest">>, <<"manifest">>}
      BY <1>2 DEF Writing
    <3>2. Tail(<<"manifest">>) = <<>> /\ Tail(todo) # <<>>
      BY <1>1, <1>4
    <3>3. todo # <<"manifest">>
      BY <3>2
    <3> QED
      BY <3>1, <3>3
  <2>3. file'["doc"] = new["doc"] /\ file'["manifest"] = file["manifest"]
    BY <1>1, <1>2, <2>2 DEF Files
  <2>4. Between'
    BY <1>1, <1>2, <2>3 DEF Between
  <2> QED
    BY <1>1, <2>1, <2>4 DEF DeadInv, RetryRepairs, Rest
<1> QED
  BY <1>3, <1>4

LEMMA DeadDie ==
    ASSUME MergeInv, DeadInv, Die
    PROVE  DeadInv'
<1>1. /\ phase = "writing" /\ phase' = "dead" /\ dead' = [cmd |-> cmd, new |-> new]
      /\ UNCHANGED <<file, cmd, base, new>>
  BY DEF Die
<1>2. dead'.cmd = cmd /\ dead'.new = new
  BY <1>1
<1> QED
  BY <1>1, <1>2 DEF DeadInv, RetryRepairs, Between

LEMMA DeadRestore ==
    ASSUME MergeInv, DeadInv, NEW f \in Files, Restore(f)
    PROVE  DeadInv'
<1>1. /\ phase \in Rest /\ phase' = "idle" /\ file' = [file EXCEPT ![f] = base[f]]
      /\ UNCHANGED <<cmd, base, new, dead>>
  BY DEF Restore, history
<1>2. file = [x \in Files |-> file[x]]
  BY DEF MergeInv, FilesInv
<1>3. \A x \in Files : file'[x] \in {file[x], base[x]}
  BY <1>1, <1>2
<1>4. Between => Between'
  BY <1>1, <1>3 DEF Between, Files
<1> QED
  BY <1>1, <1>4 DEF DeadInv, RetryRepairs

LEMMA DeadNext == MergeInv /\ DeadInv /\ [Next]_vars => DeadInv'
<1> SUFFICES ASSUME MergeInv, DeadInv, [Next]_vars PROVE DeadInv'
  OBVIOUS
<1>1. CASE UNCHANGED vars
  BY <1>1 DEF vars, run, history, DeadInv, Between, RetryRepairs, Readable
<1>2. CASE Edit
  BY <1>2 DEF Edit, DeadInv, RetryRepairs
<1> QED
  BY <1>1, <1>2, DeadMerge, DeadRemove, DeadReindex, DeadTruncate, DeadFill, DeadDie,
     DeadRestore DEF Next

-----------------------------------------------------------------------------
(* What an alias documented is where the manifest says. *)

\* for every alias but those that are gone
OwnedBy(authors, manifest, gone) ==
    \A p \in Path : authors[p] # None /\ authors[p] \notin gone =>
        authors[p] \in Some(manifest) /\ manifest[authors[p]].path = p

\* While a run writes, and until one that died is repeated, the document is ahead
\* of the manifest by what it documents, or not yet.
AuthorInv ==
    /\ phase = "writing" \/ dead # None =>
          \/ OwnedBy(author, base["manifest"], lost)
          \/ OwnedBy(author, new["manifest"], lost)
    /\ phase = "writing" /\ todo = <<"manifest">> => OwnedBy(author, new["manifest"], lost)
    /\ phase \in Rest /\ dead = None => OwnedBy(author, Good("manifest"), lost)

\* Two manifests that a command lies between differ in its alias alone.
LEMMA DifferInAlias ==
    ASSUME NEW c \in Commands, NEW doc, NEW manifest, NEW out, Makes(c, doc, manifest, out),
           manifest \in Manifests
    PROVE  /\ \A a \in Alias \ {c.alias} :
                 /\ a \in Some(manifest) <=> a \in Some(out["manifest"])
                 /\ a \in Some(manifest) => out["manifest"][a].path = manifest[a].path
           /\ c.kind = "merge" =>
                 c.alias \in Some(out["manifest"]) /\ out["manifest"][c.alias].path = c.fragment.path
           /\ c.kind = "reindex" => out["manifest"] = manifest
<1>1. CASE c.kind = "merge"
  <2> DEFINE routes == [a \in Some(manifest) \cup {c.alias} |->
                           IF a = c.alias THEN c.fragment.path ELSE manifest[a].path]
  <2>1. Routes(out["manifest"]) = routes
    BY <1>1 DEF Makes
  <2>2. DOMAIN Routes(out["manifest"]) = Some(manifest) \cup {c.alias}
    BY <2>1
  <2>3. \A a \in Some(manifest) \cup {c.alias} :
            Routes(out["manifest"])[a] = IF a = c.alias THEN c.fragment.path ELSE manifest[a].path
    BY <2>1
  <2>4. DOMAIN Routes(out["manifest"]) = Some(out["manifest"])
    BY DEF Routes
  <2>5. \A a \in Some(out["manifest"]) : Routes(out["manifest"])[a] = out["manifest"][a].path
    BY DEF Routes
  <2> HIDE DEF routes
  <2> QED
    BY <1>1, <2>2, <2>3, <2>4, <2>5
<1>2. CASE c.kind = "remove"
  BY <1>2 DEF Makes, Some, Manifests
<1>3. CASE c.kind = "reindex"
  BY <1>3 DEF Makes
<1> QED
  BY <1>1, <1>2, <1>3 DEF Commands, Command

LEMMA OwnedWithout ==
    ASSUME NEW c \in Commands, NEW doc, NEW manifest, NEW out, Makes(c, doc, manifest, out),
           manifest \in Manifests, author \in [Path -> Alias \cup {None}], NEW gone, NEW more,
           gone \subseteq more, c.alias = None \/ c.alias \in more,
           OwnedBy(author, manifest, gone) \/ OwnedBy(author, out["manifest"], gone)
    PROVE  OwnedBy(author, manifest, more)
<1>1. CASE OwnedBy(author, manifest, gone)
  BY <1>1 DEF OwnedBy
<1>2. CASE OwnedBy(author, out["manifest"], gone)
  <2>1. SUFFICES ASSUME NEW p \in Path, author[p] # None, author[p] \notin more
                 PROVE  author[p] \in Some(manifest) /\ manifest[author[p]].path = p
    BY DEF OwnedBy
  <2>2. author[p] \in Alias \ {c.alias}
    BY <2>1
  <2>3. author[p] \in Some(out["manifest"]) /\ out["manifest"][author[p]].path = p
    BY <1>2, <2>1 DEF OwnedBy
  <2> QED
    BY <2>2, <2>3, DifferInAlias
<1> QED
  BY <1>1, <1>2

LEMMA OwnedByRoutes ==
    ASSUME NEW authors, NEW gone, NEW manifest, NEW other, Routes(manifest) = Routes(other),
           OwnedBy(authors, manifest, gone)
    PROVE  OwnedBy(authors, other, gone)
<1>1. Some(manifest) = Some(other)
  BY DEF Routes
<1>2. \A a \in Some(manifest) : manifest[a].path = other[a].path
  <2>1. \A a \in Some(manifest) : Routes(manifest)[a] = manifest[a].path
    BY DEF Routes
  <2>2. \A a \in Some(other) : Routes(other)[a] = other[a].path
    BY DEF Routes
  <2> QED
    BY <1>1, <2>1, <2>2
<1> QED
  BY <1>1, <1>2 DEF OwnedBy

LEMMA AuthorBegin ==
    ASSUME MergeInv, DeadInv, DeadInv', AuthorInv, NEW c, Begin(c),
           \/ Exit("idle") \/ Exit("refused")
           \/ \E doc, manifest : Write(doc, manifest)
    PROVE  AuthorInv'
<1>1. phase \in Rest /\ phase' # "dead" /\ UNCHANGED <<file, author>> /\ cmd' = c
  BY DEF Begin, Exit, Write
<1>2. CASE Exit("idle") \/ Exit("refused")
  BY <1>1, <1>2 DEF AuthorInv, Exit, Rest, Good
<1>3. CASE \E doc, manifest : Write(doc, manifest)
  <2>1. PICK doc, manifest : Write(doc, manifest)
    BY <1>3
  <2>2. /\ phase' = "writing" /\ todo' = WriteOrder(c.kind)
        /\ base'["manifest"] = Good("manifest") /\ todo' # <<"manifest">>
    <3>1. <<"doc">> # <<"manifest">> /\ <<"doc", "manifest">> # <<"manifest">>
      OBVIOUS
    <3> QED
      BY <1>1, <2>1, <3>1 DEF Write, WriteOrder, Files
  <2>3. \/ OwnedBy(author, Good("manifest"), lost')
        \/ OwnedBy(author, new'["manifest"], lost')
    <3>1. CASE dead = None
      BY <1>1, <2>1, <3>1 DEF AuthorInv, Write
    <3>2. CASE dead # None
      <4>1. /\ dead.cmd \in Commands
            /\ Makes(dead.cmd, base["doc"], base["manifest"], new)
            /\ Good("manifest") = base["manifest"]
            /\ base["manifest"] \in Manifests
            /\ author \in [Path -> Alias \cup {None}]
        BY <1>1, <3>2 DEF MergeInv, RunInv, FilesInv, GoodManifest, DeadInv, Between, Good
      <4>2. OwnedBy(author, base["manifest"], lost) \/ OwnedBy(author, new["manifest"], lost)
        BY <3>2 DEF AuthorInv
      <4>3. CASE dead.cmd # cmd'
        <5>1. lost' = lost \cup ({dead.cmd.alias} \ {None})
          BY <2>1, <3>2, <4>3 DEF Write
        <5>2. lost \subseteq lost' /\ (dead.cmd.alias = None \/ dead.cmd.alias \in lost')
          BY <5>1
        <5> QED
          BY <4>1, <4>2, <5>2, OwnedWithout
      <4>4. CASE dead.cmd = cmd'
        <5>1. lost' = lost /\ dead' = dead /\ dead'.new = new /\ dead'.cmd = cmd'
          BY <1>1, <2>1, <3>2, <4>4 DEF Write, DeadInv
        <5>2. CASE OwnedBy(author, base["manifest"], lost)
          BY <4>1, <5>1, <5>2
        <5>3. CASE OwnedBy(author, new["manifest"], lost)
          <6>1. Routes(new'["manifest"]) = Routes(new["manifest"])
            BY <2>2, <3>2, <5>1 DEF DeadInv, RetryRepairs
          <6> QED
            BY <5>1, <5>3, <6>1, OwnedByRoutes
        <5> QED
          BY <4>2, <5>2, <5>3
      <4> QED
        BY <4>3, <4>4
    <3> QED
      BY <3>1, <3>2
  <2> QED
    BY <1>1, <2>2, <2>3 DEF AuthorInv, Rest
<1> QED
  BY <1>2, <1>3

LEMMA AuthorFill ==
    ASSUME MergeInv, DeadInv, AuthorInv, Fill
    PROVE  AuthorInv'
<1>1. /\ phase = "writing" /\ todo' = Tail(todo)
      /\ file' = [file EXCEPT ![Head(todo)] = new[Head(todo)]]
      /\ UNCHANGED <<cmd, base, new, lost>>
  BY DEF Fill
<1>2. /\ file = [f \in Files |-> file[f]]
      /\ Between /\ Writing /\ cmd \in Commands
      /\ Makes(cmd, base["doc"], base["manifest"], new)
      /\ base["manifest"] \in Manifests /\ author \in [Path -> Alias \cup {None}]
      /\ (base["doc"] = Missing \/ GoodDoc(base["doc"]))
  BY <1>1 DEF MergeInv, FilesInv, RunInv, Planned, DeadInv, GoodManifest
<1>3. CASE Head(todo) = "doc"
  <2>1. author' = [p \in Path |->
                      CASE new["doc"].paths[p] = None -> None
                        [] cmd.kind = "merge" /\ cmd.fragment.path = p -> cmd.alias
                        [] OTHER -> author[p]]
    BY <1>3 DEF Fill
  <2>2. OwnedBy(author', new["manifest"], lost)
    <3>1. SUFFICES ASSUME NEW p \in Path, author'[p] # None, author'[p] \notin lost
                   PROVE  /\ author'[p] \in Some(new["manifest"])
                          /\ new["manifest"][author'[p]].path = p
      BY DEF OwnedBy
    <3>2. CASE cmd.kind = "merge" /\ cmd.fragment.path = p
      <4>1. author'[p] = cmd.alias
        BY <2>1, <3>1, <3>2
      <4> QED
        BY <1>2, <3>2, <4>1, DifferInAlias
    <3>3. CASE ~(cmd.kind = "merge" /\ cmd.fragment.path = p)
      <4>1. author'[p] = author[p] /\ new["doc"].paths[p] # None
        BY <2>1, <3>1, <3>3
      <4>2. CASE OwnedBy(author, new["manifest"], lost)
        BY <3>1, <4>1, <4>2 DEF OwnedBy
      <4>3. CASE OwnedBy(author, base["manifest"], lost)
        <5> DEFINE b == author[p]
        <5>1. b \in Some(base["manifest"]) /\ base["manifest"][b].path = p /\ b \in Alias
          BY <1>2, <3>1, <4>1, <4>3 DEF OwnedBy
        <5>2. CASE b # cmd.alias
          BY <1>2, <4>1, <5>1, <5>2, DifferInAlias
        <5>3. CASE b = cmd.alias /\ cmd.kind = "merge"
          <6> DEFINE m == cmd.fragment
                     old == Load(base["doc"])
          <6>1. m.alias = cmd.alias /\ new["doc"] = MergedDoc(m, old, base["manifest"])
            BY <1>2, <5>3 DEF Makes, Commands, Command
          <6>2. DOMAIN old.paths = Path
            BY <1>2 DEF Load, GoodDoc, Doc, EmptyDoc
          <6>3. p \in Moved(m, old, base["manifest"]) \/ old.paths[p] = None
            BY <3>3, <5>1, <5>3, <6>1, <6>2 DEF Moved, Some
          <6>4. new["doc"].paths = [q \in Path |-> CASE q = m.path -> m.item
                                      [] q \in Moved(m, old, base["manifest"]) -> None
                                      [] OTHER -> old.paths[q]]
            BY <6>1 DEF MergedDoc
          <6>5. p # m.path
            BY <3>3, <5>3
          <6> HIDE DEF m, old
          <6>6. new["doc"].paths[p] = None
            BY <6>3, <6>4, <6>5
          <6> QED
            BY <4>1, <6>6
        <5>4. CASE b = cmd.alias /\ cmd.kind = "remove"
          <6>1. new["doc"] = RemovedDoc(cmd.alias, base["doc"], base["manifest"])
                /\ base["doc"] # Missing
            BY <1>2, <5>4 DEF Makes
          <6>2. new["doc"].paths = [base["doc"].paths EXCEPT ![base["manifest"][cmd.alias].path] = None]
                /\ base["doc"].paths \in [Path -> Item \cup {None}]
            BY <1>2, <6>1 DEF RemovedDoc, GoodDoc, Doc
          <6> QED
            BY <4>1, <5>1, <5>4, <6>2
        <5>5. CASE cmd.kind = "reindex"
          BY <1>2, <4>1, <5>1, <5>5, DifferInAlias
        <5> QED
          BY <1>2, <5>2, <5>3, <5>4, <5>5 DEF Commands, Command
      <4> QED
        BY <1>1, <4>2, <4>3 DEF AuthorInv
    <3> QED
      BY <3>2, <3>3
  <2>3. CASE todo' = <<>>
    <3>1. phase' = "done" /\ dead' = None
      BY <2>3 DEF Fill
    <3>2. todo # <<"doc", "manifest">>
      <4>1. Tail(<<"doc", "manifest">>) # <<>>
        OBVIOUS
      <4> QED
        BY <1>1, <2>3, <4>1
    <3>3. cmd.kind = "reindex"
      <4>1. Head(<<"manifest">>) # "doc"
        OBVIOUS
      <4> QED
        BY <1>2, <1>3, <3>2, <4>1 DEF Writing
    <3>4. new["manifest"] = base["manifest"]
      BY <1>2, <3>3, DifferInAlias
    <3>5. Good("manifest")' = base["manifest"]
      BY <1>1, <1>2, <1>3 DEF Good, Between, Files
    <3> QED
      BY <1>1, <2>2, <3>1, <3>4, <3>5 DEF AuthorInv, Rest
  <2>4. CASE todo' # <<>>
    <3>1. phase' = phase /\ dead' = dead
      BY <2>4 DEF Fill
    <3> QED
      BY <1>1, <2>2, <3>1 DEF AuthorInv, Rest
  <2> QED
    BY <2>3, <2>4
<1>4. CASE Head(todo) # "doc"
  <2>1. todo = <<"manifest">>
    <3>1. Head(<<"doc", "manifest">>) = "doc" /\ Head(<<"doc">>) = "doc"
      OBVIOUS
    <3> QED
      BY <1>2, <1>4, <3>1 DEF Writing
  <2>2. todo' = <<>> /\ Head(todo) = "manifest"
    BY <1>1, <2>1
  <2>3. phase' = "done" /\ dead' = None /\ author' = author
    BY <1>4, <2>2 DEF Fill
  <2>4. file'["manifest"] = new["manifest"] /\ new["manifest"] # Torn
    BY <1>1, <1>2, <2>2, MergeAssumption DEF Files, MergeInv, FilesInv, GoodManifest
  <2>5. Good("manifest")' = new["manifest"]
    BY <2>4 DEF Good
  <2>6. OwnedBy(author, new["manifest"], lost)
    BY <1>1, <2>1 DEF AuthorInv
  <2> QED
    BY <1>1, <2>3, <2>5, <2>6 DEF AuthorInv, Rest
<1> QED
  BY <1>3, <1>4

LEMMA AuthorEdit ==
    ASSUME MergeInv, DeadInv, AuthorInv, Edit
    PROVE  AuthorInv'
<1>1. /\ phase \in Rest /\ phase' = "idle" /\ dead' = None
      /\ lost' = IF dead = None THEN lost ELSE lost \cup ({dead.cmd.alias} \ {None})
      /\ UNCHANGED base
  BY DEF Edit
<1>2. Good("manifest")' = Good("manifest")
  BY <1>1 DEF Edit, Good, MergeInv, FilesInv, Files
<1>3. \A p \in Path : author'[p] \in {author[p], None}
  BY DEF Edit, MergeInv, RunInv
<1>4. OwnedBy(author, Good("manifest"), lost')
  <2>1. CASE dead = None
    BY <1>1, <2>1 DEF AuthorInv
  <2>2. CASE dead # None
    <3>1. /\ dead.cmd \in Commands
          /\ Makes(dead.cmd, base["doc"], base["manifest"], new)
          /\ Good("manifest") = base["manifest"]
          /\ base["manifest"] \in Manifests
          /\ author \in [Path -> Alias \cup {None}]
      BY <1>1, <2>2 DEF MergeInv, RunInv, FilesInv, GoodManifest, DeadInv, Between, Good
    <3>2. OwnedBy(author, base["manifest"], lost) \/ OwnedBy(author, new["manifest"], lost)
      BY <2>2 DEF AuthorInv
    <3>3. lost \subseteq lost' /\ (dead.cmd.alias = None \/ dead.cmd.alias \in lost')
      BY <1>1, <2>2
    <3> QED
      BY <3>1, <3>2, <3>3, OwnedWithout
  <2> QED
    BY <2>1, <2>2
<1>5. OwnedBy(author', Good("manifest")', lost')
  BY <1>2, <1>3, <1>4 DEF OwnedBy
<1> QED
  BY <1>1, <1>5 DEF AuthorInv

LEMMA AuthorNext == MergeInv /\ DeadInv /\ DeadInv' /\ AuthorInv /\ [Next]_vars => AuthorInv'
<1> SUFFICES ASSUME MergeInv, DeadInv, DeadInv', AuthorInv, [Next]_vars PROVE AuthorInv'
  OBVIOUS
<1>1. CASE UNCHANGED vars
  BY <1>1 DEF vars, run, history, AuthorInv, Good
<1>2. ASSUME NEW m \in Fragments, Merge(m) \/ RefuseMerge(m) PROVE AuthorInv'
  BY <1>2, AuthorBegin DEF Merge, RefuseMerge
<1>3. ASSUME NEW a \in Alias, Remove(a) \/ RefuseRemove(a) PROVE AuthorInv'
  BY <1>3, AuthorBegin DEF Remove, RefuseRemove
<1>4. CASE Reindex \/ RefuseReindex
  BY <1>4, AuthorBegin DEF Reindex, RefuseReindex
<1>5. CASE Truncate
  BY <1>5 DEF Truncate, run, history, AuthorInv, Rest
<1>6. CASE Die
  <2>1. dead' # None /\ phase' = "dead"
    <3>1. cmd \in Commands /\ new \in [Files -> Doc \cup Manifests]
      <4>1. new = [f \in Files |-> new[f]]
        BY DEF MergeInv, FilesInv
      <4>2. cmd \in Commands /\ new["doc"] \in Doc /\ new["manifest"] \in Manifests
        BY <1>6 DEF Die, MergeInv, FilesInv, RunInv, Planned, GoodDoc, GoodManifest
      <4>3. \A f \in Files : new[f] \in Doc \cup Manifests
        BY <4>2 DEF Files
      <4> QED
        BY <4>1, <4>2, <4>3
    <3>2. dead' \in DeadRuns
      BY <1>6, <3>1 DEF Die, DeadRuns
    <3>3. None \notin DeadRuns
      BY MergeAssumption
    <3> QED
      BY <1>6, <3>2, <3>3 DEF Die
  <2> QED
    BY <1>6, <2>1 DEF Die, AuthorInv, Rest
<1>7. ASSUME NEW f \in Files, Restore(f) PROVE AuthorInv'
  <2>1. Good("manifest")' = Good("manifest")
    BY <1>7 DEF Restore, Good, Files, MergeInv, FilesInv
  <2> QED
    BY <1>7, <2>1 DEF Restore, history, AuthorInv, Rest
<1> QED
  BY <1>1, <1>2, <1>3, <1>4, <1>5, <1>6, <1>7, AuthorFill, AuthorEdit DEF Next

-----------------------------------------------------------------------------
(* The theorems. *)

\* The files have the shapes the script reads whatever runs, dies, is restored and
\* is edited; a run tears the file it is writing and no other.
THEOREM MergeTypeCorrect == Spec => []MergeTypeOK
<1>1. MergeInv => MergeTypeOK
  <2> SUFFICES ASSUME MergeInv PROVE MergeTypeOK
    OBVIOUS
  <2>1. phase = "writing" => Writing /\ todo # <<>>
    <3>1. <<"doc">> # <<>> /\ <<"manifest">> # <<>> /\ <<"doc", "manifest">> # <<>>
      OBVIOUS
    <3> QED
      BY <3>1 DEF MergeInv, RunInv, Writing
  <2> QED
    BY <2>1 DEF MergeInv, FilesInv, RunInv, Writing, MergeTypeOK, GoodDoc, GoodManifest
<1> QED
  BY MergeInductive, <1>1, PTL

\* No history of merges, removals, deaths, restores and edits makes the manifest
\* give one path to two aliases (merge.py:355).
THEOREM NoPathHasTwoAliases == Spec => []OnePathOneAlias
<1>1. MergeInv => OnePathOneAlias
  BY DEF MergeInv, FilesInv, OnePathOneAlias, Parses, Manifest, GoodManifest, Unique
<1> QED
  BY MergeInductive, <1>1, PTL

\* No command touches an endpoint that is not its own, nor a component that was
\* there, whatever was edited before it (merge.py:10-16).
THEOREM RunsKeepTheRest == Spec => []OthersKept
<1>1. MergeInv => OthersKept
  BY DEF MergeInv, RunInv, Planned, OthersKept, Kept, OwnPaths
<1> QED
  BY MergeInductive, <1>1, PTL

\* What a finished merge leaves has every component the fragment and the asset
\* define, as they define it (merge_fragment_components).
THEOREM ComponentsResolve == Spec => []PartsResolve
<1>1. MergeInv => PartsResolve
  BY DEF MergeInv, RunInv, Planned, PartsResolve, Resolves
<1> QED
  BY MergeInductive, <1>1, PTL

\* No tag an operation references is ever missing from the document (prune_tags).
THEOREM NoTagIsLost == Spec => []TagsDeclared
<1>1. MergeInv => TagsDeclared
  BY DEF MergeInv, FilesInv, TagsDeclared, Parses, GoodDoc, Tagged
<1> QED
  BY MergeInductive, <1>1, PTL

\* A merge, a removal or a reindex run again on what it left changes nothing, the
\* timestamp included (merge.py:18).
THEOREM RerunsAreNoops == Spec => []RerunIsNoop
<1>1. MergeInv => RerunIsNoop
  BY DEF MergeInv, LastInv
<1> QED
  BY MergeInductive, <1>1, PTL

\* Whatever died, was restored, refused and run in between, a run that repeats the
\* one that died is not refused, and writes what that was to write.
THEOREM RetriesRepair == Spec => []RetryRepairs
<1>1. Init => DeadInv
  BY DEF Init, DeadInv, RetryRepairs
<1>2. DeadInv => RetryRepairs
  BY DEF DeadInv
<1> QED
  BY MergeInductive, <1>1, DeadNext, <1>2, PTL DEF Spec

\* As long as no dead run is left unrepeated, what an alias documented is where the
\* manifest says, after any history of moves, removals, deaths, restores and edits.
THEOREM NothingIsOrphaned == Spec => []NoOrphans
<1>1. Init => DeadInv /\ AuthorInv
  BY DEF Init, DeadInv, RetryRepairs, AuthorInv, OwnedBy, Rest
<1>2. MergeInv /\ AuthorInv => NoOrphans
  BY DEF AuthorInv, NoOrphans, OwnedBy, Manifest, Parses, Good, MergeInv, RunInv
<1> QED
  BY MergeInductive, <1>1, DeadNext, AuthorNext, <1>2, PTL DEF Spec

=============================================================================
