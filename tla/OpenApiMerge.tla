------------------------------ MODULE OpenApiMerge ------------------------------
(***************************************************************************)
(* merge.py: endpoints of many repositories merged, one at a time, into a  *)
(* single OpenAPI document that people also edit, with a sidecar manifest  *)
(* that says which alias a path came from.  The two are separate files,    *)
(* each truncated and then written, and a run may die at any moment.       *)
(***************************************************************************)
EXTENDS Naturals, Sequences

CONSTANTS
    Alias,     \* route aliases
    Path,      \* public paths
    Item,      \* path items: an operation with its prose
    Tag,       \* tags of operations
    TagsOf,    \* item -> the tags it references
    Headline,  \* item -> its line of the index: methods, first tag and summary
    Part,      \* names in `components`, and `security`
    Value,     \* what a part may be
    Shared,    \* gateway-components.json: part -> value or None
    Fragments, \* what repositories may merge: [alias, path, item, parts]
    MaxRuns,   \* bound: runs of the script
    MaxEdits,  \* bound: edits by hand
    None,      \* no such path, entry, part or command
    Missing,   \* no document yet
    Torn       \* a file truncated by a run that died: not valid JSON

VARIABLES
    file,    \* the two files
    phase,   \* where the last run is, or how it ended
    cmd,     \* its command
    todo,    \* the files it has yet to write
    base,    \* the files as it read them
    new,     \* the files as it writes them
    clock,   \* runs so far, which is also the time of now()
    edits,   \* edits by hand so far
    author,  \* history: path -> the alias whose merge documented it
    last,    \* history: the command that made the files what they are
    dead,    \* history: a run that died, what it was to write, not yet repeated
    lost     \* history: aliases whose dead run was never repeated

run     == <<phase, cmd, todo, base, new>>
history == <<author, last, dead, lost>>
vars    == <<file, run, clock, edits, history>>

\* what is in the files: the document, and alias -> entry
Doc == [paths : [Path -> Item \cup {None}], tags : SUBSET Tag,
        index : [Path -> {Headline[i] : i \in Item} \cup {None}],
        parts : [Part -> Value \cup {None}]]

Entry == [path : Path, stamp : 1..MaxRuns]

Manifests == [Alias -> Entry \cup {None}]

Files == {"doc", "manifest"}

\* merge a fragment, remove an alias, or reindex
Command(kind, alias, fragment) == [kind |-> kind, alias |-> alias, fragment |-> fragment]

Commands ==
    {Command("merge", m.alias, m) : m \in Fragments}
        \cup {Command("remove", a, None) : a \in Alias}
        \cup {Command("reindex", None, None)}

\* a run that died: what it was to write
DeadRuns == [cmd : Commands, new : [Files -> Doc \cup Manifests]]

ASSUME MergeAssumption ==
    /\ TagsOf \in [Item -> SUBSET Tag]
    /\ Shared \in [Part -> Value \cup {None}]
    /\ Fragments \subseteq [alias : Alias, path : Path, item : Item, parts : [Part -> Value \cup {None}]]
    /\ MaxRuns \in Nat /\ MaxEdits \in Nat
    /\ None \notin Alias \cup Path \cup Item \cup Value /\ None \notin Entry \cup DeadRuns
    /\ Missing # Torn /\ Missing \notin Doc /\ Torn \notin Doc /\ Torn \notin Manifests

-----------------------------------------------------------------------------
(* The document and the manifest. *)

Some(f) == {x \in DOMAIN f : f[x] # None}

\* new_document
EmptyDoc ==
    [paths |-> [p \in Path |-> None],
     tags  |-> {},
     index |-> [p \in Path |-> None],
     parts |-> [n \in Part |-> None]]

\* build_index: one line per operation, from `paths` alone
IndexOf(paths) == [p \in Path |-> IF paths[p] = None THEN None ELSE Headline[paths[p]]]

Referenced(paths) == UNION {TagsOf[paths[p]] : p \in Some(paths)}

\* prune_tags
PruneTags(tags, paths) == tags \cap Referenced(paths)

\* setdefault for every part: the first one to define it wins
Joined(parts, more) == [n \in Part |-> IF parts[n] = None THEN more[n] ELSE parts[n]]

Agree(parts, more) == \A n \in Some(parts) \cap Some(more) : parts[n] = more[n]

\* load_document for a merge, which creates it
Loaded == IF file["doc"] = Missing THEN EmptyDoc ELSE file["doc"]

\* wrong: a path nobody documents any more is free
OwnerDocumented(m, manifest) ==
    {a \in Some(manifest) \ {m.alias} : manifest[a].path = m.path /\ Loaded.paths[m.path] # None}

\* the aliases the manifest records the path under
Owner(m, manifest) == {a \in Some(manifest) \ {m.alias} : manifest[a].path = m.path}

\* wrong: recognises what moved by its content
MovedSame(m, doc, manifest) == {p \in Some(doc.paths) \ {m.path} : doc.paths[p] = m.item}

\* wrong: leaves the old path in the document
MovedNever(m, doc, manifest) == {}

\* the path the alias was documented at, if it moves
Moved(m, doc, manifest) ==
    {p \in Some(doc.paths) \ {m.path} :
        m.alias \in Some(manifest) /\ manifest[m.alias].path = p}

Unchanged(m, doc, manifest) ==
    doc.paths[m.path] = m.item /\ Moved(m, doc, manifest) = {}

\* wrong: the components of the fragment replace those of the document
ForksShared(m, doc) == ~Agree(doc.parts, Shared)

\* merge_shared and merge_fragment_components: a divergence is an error
Forks(m, doc) ==
    \/ ~Agree(doc.parts, Shared)
    \/ ~Agree(Joined(doc.parts, Shared), m.parts)

\* cmd_merge: the path in, the old path out, tags, components and index after it
MergedDoc(m, doc, manifest) ==
    LET moved == Moved(m, doc, manifest)
        paths == [p \in Path |-> CASE p = m.path -> m.item
                                   [] p \in moved -> None
                                   [] OTHER -> doc.paths[p]]
        tags  == doc.tags \cup TagsOf[m.item]
    IN  [paths |-> paths,
         tags  |-> IF moved = {} THEN tags ELSE PruneTags(tags, paths),
         index |-> IndexOf(paths),
         parts |-> Joined(Joined(doc.parts, Shared), m.parts)]

\* wrong: every run has its own timestamp
StampNow(m, doc, manifest) == clock + 1

\* generated_at: a run that changes nothing keeps it
Stamp(m, doc, manifest) ==
    IF Unchanged(m, doc, manifest) /\ manifest[m.alias] # None
      THEN manifest[m.alias].stamp
      ELSE clock + 1

MergedManifest(m, doc, manifest) ==
    [manifest EXCEPT ![m.alias] = [path |-> m.path, stamp |-> Stamp(m, doc, manifest)]]

\* wrong: drops the tags of the endpoint with it
RemovedDocTags(a, doc, manifest) ==
    LET paths == [doc.paths EXCEPT ![manifest[a].path] = None]
        gone  == {manifest[a].path} \cap Some(doc.paths)
    IN  [doc EXCEPT !.paths = paths, !.tags = @ \ UNION {TagsOf[doc.paths[p]] : p \in gone},
                    !.index = IndexOf(paths)]

\* cmd_remove; the path of the entry may be gone already
RemovedDoc(a, doc, manifest) ==
    LET paths == [doc.paths EXCEPT ![manifest[a].path] = None]
    IN  [doc EXCEPT !.paths = paths, !.tags = PruneTags(@, paths), !.index = IndexOf(paths)]

-----------------------------------------------------------------------------
(* A run. *)

Rest == {"idle", "done", "refused", "dead"}

\* wrong: the manifest first
WriteOrderSwapped(kind) == IF kind = "reindex" THEN <<"doc">> ELSE <<"manifest", "doc">>

WriteOrder(kind) == IF kind = "reindex" THEN <<"doc">> ELSE <<"doc", "manifest">>

Begin(c) ==
    /\ phase \in Rest
    /\ clock < MaxRuns
    /\ clock' = clock + 1
    /\ cmd' = c
    /\ UNCHANGED <<file, edits, author, last>>

Readable == Torn \notin {file["doc"], file["manifest"]}

\* The last contents of a file that parse, which version control has.
Good(f) == IF file[f] = Torn THEN base[f] ELSE file[f]

\* Whatever died before and is not what runs now stays unrepaired.
Write(doc, manifest) ==
    /\ phase' = "writing"
    /\ todo' = WriteOrder(cmd'.kind)
    /\ base' = [f \in Files |-> Good(f)]
    /\ new' = [doc |-> doc, manifest |-> manifest]
    /\ IF dead = None \/ dead.cmd = cmd'
         THEN UNCHANGED <<dead, lost>>
         ELSE /\ dead' = None
              /\ lost' = lost \cup ({dead.cmd.alias} \ {None})

\* exit 1 or 2, or nothing to do: no file is written
Exit(how) ==
    /\ phase' = how
    /\ UNCHANGED <<todo, base, new, dead, lost>>

Mergeable(m) ==
    /\ Readable
    /\ Owner(m, file["manifest"]) = {}
    /\ ~Forks(m, Loaded)

\* --dry-run returns before the writes
Merge(m) ==
    /\ Begin(Command("merge", m.alias, m))
    /\ Mergeable(m)
    /\ \/ Write(MergedDoc(m, Loaded, file["manifest"]), MergedManifest(m, Loaded, file["manifest"]))
       \/ Exit("idle")

RefuseMerge(m) ==
    /\ Begin(Command("merge", m.alias, m))
    /\ ~Mergeable(m)
    /\ Exit("refused")

Removable(a) == Readable /\ file["doc"] # Missing /\ file["manifest"][a] # None

Remove(a) ==
    /\ Begin(Command("remove", a, None))
    /\ Removable(a)
    /\ \/ Write(RemovedDoc(a, file["doc"], file["manifest"]), [file["manifest"] EXCEPT ![a] = None])
       \/ Exit("idle")

RefuseRemove(a) ==
    /\ Begin(Command("remove", a, None))
    /\ ~Removable(a)
    /\ Exit("refused")

\* cmd_reindex reads and writes the document alone.
Reindex ==
    /\ Begin(Command("reindex", None, None))
    /\ file["doc"] \notin {Missing, Torn}
    /\ LET doc == [file["doc"] EXCEPT !.index = IndexOf(file["doc"].paths)]
       IN  IF doc = file["doc"] THEN Exit("idle")
           ELSE Write(doc, Good("manifest")) \/ Exit("idle")

RefuseReindex ==
    /\ Begin(Command("reindex", None, None))
    /\ file["doc"] \in {Missing, Torn}
    /\ Exit("refused")

\* wrong: opens both files, then fills them
TruncateBoth ==
    /\ phase = "writing"
    /\ file[Head(todo)] # Torn
    /\ file' = [f \in Files |-> Torn]
    /\ UNCHANGED <<run, clock, edits, history>>

\* write_json: open(path, "w") truncates ...
Truncate ==
    /\ phase = "writing"
    /\ file[Head(todo)] # Torn
    /\ file' = [file EXCEPT ![Head(todo)] = Torn]
    /\ UNCHANGED <<run, clock, edits, history>>

\* ... and json.dump fills.
Fill ==
    /\ phase = "writing"
    /\ file[Head(todo)] = Torn
    /\ file' = [file EXCEPT ![Head(todo)] = new[Head(todo)]]
    /\ todo' = Tail(todo)
    /\ author' = IF Head(todo) # "doc" THEN author
                 ELSE [p \in Path |->
                         CASE new["doc"].paths[p] = None -> None
                           [] cmd.kind = "merge" /\ cmd.fragment.path = p -> cmd.alias
                           [] OTHER -> author[p]]
    /\ IF todo' = <<>>
         THEN phase' = "done" /\ last' = cmd /\ dead' = None
         ELSE UNCHANGED <<phase, last, dead>>
    /\ UNCHANGED <<cmd, base, new, clock, edits, lost>>

Die ==
    /\ phase = "writing"
    /\ phase' = "dead"
    /\ last' = None
    /\ dead' = [cmd |-> cmd, new |-> new]
    /\ UNCHANGED <<file, cmd, todo, base, new, clock, edits, author, lost>>

-----------------------------------------------------------------------------
(* People. *)

\* A file that does not parse is taken back to what it was before it was torn.
Restore(f) ==
    /\ phase \in Rest
    /\ file[f] = Torn
    /\ file' = [file EXCEPT ![f] = base[f]]
    /\ phase' = "idle"
    /\ UNCHANGED <<cmd, todo, base, new, clock, edits, history>>

\* A person rewords, adds or deletes a path, or changes a component.
Edit ==
    /\ phase \in Rest
    /\ edits < MaxEdits
    /\ file["doc"] \notin {Missing, Torn}
    /\ \/ \E p \in Path, i \in {x \in Item : TagsOf[x] \subseteq file["doc"].tags} \cup {None} :
             /\ file' = [file EXCEPT !["doc"].paths[p] = i]
             /\ author' = [author EXCEPT ![p] = IF i = None THEN None ELSE @]
       \/ \E n \in Part, v \in Value :
             /\ file' = [file EXCEPT !["doc"].parts[n] = v]
             /\ UNCHANGED author
    /\ file' # file
    /\ edits' = edits + 1
    /\ phase' = "idle"
    /\ last' = None
    /\ dead' = None
    /\ lost' = IF dead = None THEN lost ELSE lost \cup ({dead.cmd.alias} \ {None})
    /\ UNCHANGED <<cmd, todo, base, new, clock>>

-----------------------------------------------------------------------------
Init ==
    /\ file = [doc |-> Missing, manifest |-> [a \in Alias |-> None]]
    /\ phase = "idle"
    /\ cmd = None
    /\ todo = <<>>
    /\ base = file
    /\ new = file
    /\ clock = 0
    /\ edits = 0
    /\ author = [p \in Path |-> None]
    /\ last = None
    /\ dead = None
    /\ lost = {}

Next ==
    \/ \E m \in Fragments : Merge(m) \/ RefuseMerge(m)
    \/ \E a \in Alias : Remove(a) \/ RefuseRemove(a)
    \/ Reindex \/ RefuseReindex
    \/ Truncate \/ Fill \/ Die
    \/ Edit
    \/ \E f \in Files : Restore(f)

Spec == Init /\ [][Next]_vars

-----------------------------------------------------------------------------
(* Properties. *)

\* The files have the shapes the script reads; a run tears the one it is
\* writing and no other.
MergeTypeOK ==
    /\ file["doc"] \in Doc \cup {Missing, Torn}
    /\ file["manifest"] \in Manifests \cup {Torn}
    /\ phase \in Rest \cup {"writing"}
    /\ todo \in {<<>>, <<"doc">>, <<"manifest">>, <<"doc", "manifest">>}
    /\ phase = "writing" =>
          /\ todo # <<>>
          /\ cmd.kind # "reindex" => \A f \in Files : file[f] = Torn => f = Head(todo)
    /\ clock \in 0..MaxRuns /\ edits \in 0..MaxEdits
    /\ author \in [Path -> Alias \cup {None}]
    /\ lost \in SUBSET Alias

Routes(manifest) == [a \in Some(manifest) |-> manifest[a].path]

Parses(f) == file[f] \notin {Missing, Torn}
Manifest == file["manifest"]

\* Whatever was moved, removed, edited, interrupted and restored, the manifest
\* never gives one path to two aliases (merge.py:355, "Two aliases cannot own one
\* path").
OnePathOneAlias ==
    Parses("manifest") =>
        \A a, b \in Some(Manifest) : Manifest[a].path = Manifest[b].path => a = b

\* A run changes the path its command names and the one its alias had, and
\* nothing else of the document that was there: no other endpoint, and no
\* component somebody edited (merge.py:10-16).
OthersKept ==
    phase = "writing" /\ base["doc"] # Missing =>
        LET own == {base["manifest"][a].path : a \in {cmd.alias} \cap Some(base["manifest"])}
                      \cup (IF cmd.kind = "merge" THEN {cmd.fragment.path} ELSE {})
        IN  /\ \A p \in Path \ own : new["doc"].paths[p] = base["doc"].paths[p]
            /\ \A n \in Some(base["doc"].parts) : new["doc"].parts[n] = base["doc"].parts[n]

\* An endpoint finds every component it refers to as its fragment defines it, and
\* the shared ones as the asset does: a divergence is an error, never settled in
\* silence (merge.py:15, merge_fragment_components).
PartsResolve ==
    phase = "done" /\ cmd.kind = "merge" =>
        \A wanted \in {Shared, cmd.fragment.parts} :
            \A n \in Some(wanted) : file["doc"].parts[n] = wanted[n]

\* The document declares every tag an operation references, also when the
\* endpoint it came with moved or was removed (prune_tags).
TagsDeclared ==
    Parses("doc") => Referenced(file["doc"].paths) \subseteq file["doc"].tags

\* While no run is left unrepeated, what an alias documented is where the
\* manifest says: nothing stays in the document that no alias accounts for, and
\* no alias is overwritten by another.
NoOrphans ==
    phase \in Rest /\ dead = None /\ Parses("doc") /\ Parses("manifest") =>
        \A p \in Path :
            author[p] # None /\ author[p] \notin lost =>
                author[p] \in Some(Manifest) /\ Manifest[author[p]].path = p

\* "Re-running with an unchanged fragment leaves the file, and the manifest
\* timestamp, untouched" (merge.py:18).
RerunIsNoop ==
    phase = "writing" /\ last # None /\ last = cmd => new = base

\* A run that died, wherever it did, is completed by running it again: once the
\* torn file is restored it is not refused, and it writes what the first was to
\* write, but for the timestamp.
RetryRepairs ==
    dead # None /\ dead.cmd = cmd =>
        /\ phase = "refused" => ~Readable
        /\ phase = "writing" =>
              /\ new["doc"] = dead.new["doc"]
              /\ Routes(new["manifest"]) = Routes(dead.new["manifest"])

\* No merge overwrites what another alias merged: "Conflicts are refusals, never
\* overwrites.  Two aliases claiming one path [...] exit non-zero"
\* (docs/api_gateway/en/08-openapi-documentation.md:162).
ConflictsRefused ==
    [][\A p \in Path : author[p] # None /\ author'[p] # None => author'[p] = author[p]]_vars
=============================================================================
