--------------------------- MODULE CollectionTree ---------------------------
(***************************************************************************)
(* The pure part of src/collection.rs: the manifest and the order of its   *)
(* guides, the files that are generated from verified entries, the audit   *)
(* of a tree of files, and the comparison of two trees.                    *)
(*                                                                         *)
(* A manifest is a set of topics [id, order, guides], a guide is [key,     *)
(* order, run, journey].  A verified entry is [topic, key, status, run,    *)
(* journey, evidence].  A tree maps a path, a sequence of names, to a file *)
(* [type, data, links, size]: data is the set of facts its bytes are made  *)
(* from, so that two files have one digest only if they have the same      *)
(* data.  A guide shows one image; a document has one byte.                *)
(***************************************************************************)
EXTENDS Naturals, FiniteSets, SequencesExt

CONSTANTS MaxGuides   \* the guides of a collection

ASSUME MaxGuidesIsPositive == MaxGuides \in Nat \ {0}
-----------------------------------------------------------------------------
(* The manifest *)

Guides(m) == UNION {t.guides : t \in m}

Unique(field, things) == \A x, y \in things : x[field] = y[field] => x = y

\* A topic's guides lie in a record of the topic: two topics may not list a guide of one key.
ValidManifest(m) ==
  /\ m # {}
  /\ Unique("id", m) /\ Unique("order", m)
  /\ \A t \in m : t.guides # {} /\ Unique("order", t.guides)
  /\ \A g \in Guides(m) : g.key # "index.md"
  /\ \A t, u \in m : \A g \in t.guides, h \in u.guides : g.key = h.key => t = u /\ g = h
  /\ Cardinality(Guides(m)) <= MaxGuides

Listed(m) == UNION {{[topic |-> t, guide |-> g] : g \in t.guides} : t \in m}

Before(a, b) ==
  \/ a.topic.order < b.topic.order
  \/ a.topic = b.topic /\ a.guide.order < b.guide.order

SortedSeqs(S) ==
  LET Positions == 1..Cardinality(S) IN
  {list \in [Positions -> S] : \A i, j \in Positions : i < j => Before(list[i], list[j])}

\* The entries in the order in which they are prepared and shown.
Ordered(m) ==
  LET list == CHOOSE l \in SortedSeqs(Listed(m)) : TRUE
  IN [k \in 1..Cardinality(Listed(m)) |->
        [topic |-> list[k].topic.id, key |-> list[k].guide.key,
         run |-> list[k].guide.run, journey |-> list[k].guide.journey]]

Has(entries, status) == \E k \in DOMAIN entries : entries[k].status = status

\* Mutant: findings hide an entry that is unavailable.
StatusFindingsFirst(entries) ==
  IF Has(entries, "error") THEN "error"
  ELSE IF Has(entries, "findings_ready") THEN "findings"
  ELSE IF Has(entries, "not_publishable") THEN "not_publishable" ELSE "ready"

\* The status of the collection: its worst entry decides.
StatusOf(entries) ==
  IF Has(entries, "error") THEN "error"
  ELSE IF Has(entries, "not_publishable") THEN "not_publishable"
  ELSE IF Has(entries, "findings_ready") THEN "findings" ELSE "ready"
-----------------------------------------------------------------------------
(* The generated files *)

\* A link: so many directories up, then down these names.
Link(up, down) == [up |-> up, down |-> down]

Markdown(data, links) == [type |-> "md", data |-> data, links |-> links, size |-> 1]
Json(data) == [type |-> "json", data |-> data, links |-> {}, size |-> 1]
Image(evidence) == [type |-> "png", data |-> {evidence}, links |-> {}, size |-> evidence.size]

AsTree(listed) ==
  [path \in {f[1] : f \in listed} |-> (CHOOSE f \in listed : f[1] = path)[2]]

RootIndex(m) ==
  Markdown({[manifest |-> m]}, {Link(0, <<"topics", t.id, "index.md">>) : t \in m})

\* The entries of a topic, by their positions.
Section(t, entries) == {k \in DOMAIN entries : entries[k].topic = t.id}

TopicIndex(t, entries) ==
  LET guides == {entries[k] : k \in Section(t, entries)} IN
  Markdown({[topic |-> t]} \cup {Restrict(g, {"key", "journey"}) : g \in guides},
           {Link(2, <<"index.md">>)} \cup {Link(0, <<g.key, "index.md">>) : g \in guides})

\* A page names its run and its journey, and links to its neighbours.
GuidePage(t, entries, k) ==
  Markdown({[topic |-> t], entries[k]},
           {Link(1, <<"index.md">>), Link(0, <<"001-focused.png">>)}
             \cup {Link(1, <<entries[n].key, "index.md">>) : n \in {k - 1, k + 1} \cap Section(t, entries)})

PublicFiles(m, entries) ==
  LET Topic(t) ==
        {<<(<<"topics", t.id, "index.md">>), TopicIndex(t, entries)>>}
          \cup UNION {{<<(<<"topics", t.id, entries[k].key, "index.md">>), GuidePage(t, entries, k)>>,
                       <<(<<"topics", t.id, entries[k].key, "001-focused.png">>), Image(entries[k].evidence)>>}
                      : k \in Section(t, entries)}
  IN AsTree({<<(<<"index.md">>), RootIndex(m)>>,
             <<(<<"guide-collection.json">>), Json({[manifest |-> m]} \cup Range(entries))>>}
              \cup UNION {Topic(t) : t \in m})

\* Findings come with the evidence they cite; of the other entries the index gives the state.
ReviewFiles(m, entries) ==
  LET Found == {e \in Range(entries) : e.status = "findings_ready"}
      Review(e) ==
        LET At(path) == <<"review", e.topic, e.key>> \o path
            cited == Restrict(e, {"run", "journey"})
        IN {<<At(<<"render", "findings.json">>), Json({cited})>>,
            <<At(<<"render", "findings.md">>),
              Markdown({cited}, {Link(1, <<"report.json">>), Link(1, <<"evidence", "001.png">>)})>>,
            <<At(<<"report.json">>), Json({Restrict(e, {"run", "journey", "status"})})>>,
            <<At(<<"evidence", "001.png">>), Image(e.evidence)>>}
      Index == Markdown({[manifest |-> m]} \cup {Restrict(e, {"key", "status", "journey"}) : e \in Range(entries)},
                        {Link(0, <<e.topic, e.key, "render", "findings.md">>) : e \in Found})
  IN AsTree({<<(<<"review", "index.md">>), Index>>} \cup UNION {Review(e) : e \in Found})

\* snapshot_digest: the entries, and every output but the application's document.
Snapshot(entries, files) ==
  [entries |-> [k \in DOMAIN entries |->
                  Restrict(entries[k], {"topic", "key", "status", "run", "journey"})],
   outputs |-> Restrict(files, DOMAIN files \ {<<"guide-collection.json">>})]

\* The files and, among them, the report that identifies them.
Generated(m, entries) ==
  LET files == IF StatusOf(entries) = "ready" THEN PublicFiles(m, entries) ELSE ReviewFiles(m, entries)
      report == Json({[manifest |-> m, snapshot |-> Snapshot(entries, files)]})
  IN [path \in DOMAIN files \cup {<<"collection-report.json">>} |->
        IF path \in DOMAIN files THEN files[path] ELSE report]

\* reserve_output_path: a path is a file or a directory, not both.
Collides(tree) ==
  \E a, b \in DOMAIN tree : a # b /\ IsPrefix(a, b)

Size(tree) ==
  [files |-> Cardinality(DOMAIN tree),
   bytes |-> FoldFunction(LAMBDA file, sum : file.size + sum, 0, tree)]
-----------------------------------------------------------------------------
(* The audit of a tree, and the comparison with the generated one *)

OfType(tree, type) == {path \in DOMAIN tree : tree[path].type = type}

\* The paths a page's links lead to; a link that leaves the tree leads nowhere.
Targets(tree, page) ==
  {IF l.up < Len(page) THEN SubSeq(page, 1, Len(page) - 1 - l.up) \o l.down ELSE <<>> : l \in tree[page].links}

Linked(tree, pages) == UNION {Targets(tree, page) : page \in pages}

\* The pages a reader reaches from the roots, in at most as many clicks as there are pages.
Reachable(tree) ==
  LET Pages == OfType(tree, "md")
      After[n \in 0..Cardinality(Pages)] ==
        IF n = 0 THEN {<<"index.md">>, <<"review", "index.md">>} \cap Pages
                 ELSE After[n - 1] \cup (Linked(tree, After[n - 1]) \cap Pages)
  IN After[Cardinality(Pages)]

\* audit_tree: what is wrong with a tree, whatever it was generated from.
Audit(tree) ==
  LET Pages == OfType(tree, "md") IN
  {code \in {"dead_link", "orphan_image", "missing_index_entry"} :
     CASE code = "dead_link" -> ~(Linked(tree, Pages) \subseteq DOMAIN tree)
       [] code = "orphan_image" -> ~(OfType(tree, "png") \subseteq Linked(tree, Pages))
       [] code = "missing_index_entry" -> Reachable(tree) # Pages}

\* The fact of a report that names its inputs.
Names(fact) == DOMAIN fact = {"manifest", "snapshot"}

\* What a tree's report says of its inputs, if there is a report that can be read.
Identity(tree) ==
  IF <<"collection-report.json">> \in DOMAIN tree
    THEN {fact \in tree[<<"collection-report.json">>].data : Names(fact)} ELSE {}

\* Mutant: the snapshot digest is not compared.
ManifestChanged(expected, actual) ==
  /\ Identity(actual) # {}
  /\ {i.manifest : i \in Identity(expected)} # {i.manifest : i \in Identity(actual)}

\* Mutant: a report that cannot be read is taken for one of other inputs.
UnreadableChanged(expected, actual) == Identity(expected) # Identity(actual)

IdentityChanged(expected, actual) ==
  Identity(actual) # {} /\ Identity(expected) # Identity(actual)

\* The diagnostics, by their codes.
CompareAndAudit(expected, actual, conflict) ==
  LET stale == ~conflict /\ IdentityChanged(expected, actual)
      Differs(path) ==
        CASE path \notin DOMAIN actual -> "missing_output"
          [] path \notin DOMAIN expected -> "unexpected_output"
          [] OTHER -> IF actual[path] = expected[path] THEN "same" ELSE "changed_output"
      found == {Differs(path) : path \in DOMAIN expected \cup DOMAIN actual} \ {"same"}
  IN Audit(actual) \cup (IF stale /\ found # {} THEN {"stale_output"} ELSE found)

\* check: a tree of other inputs is unpublishable, any other difference is an error.
Mismatch(expected, actual) ==
  IF CompareAndAudit(expected, actual, FALSE) = {"stale_output"} THEN "not_publishable" ELSE "error"

EmptyTree == AsTree({})

\* A report altered to name other inputs, or altered elsewhere.
AlteredReport(file) ==
  {[file EXCEPT !.data = {[manifest |-> {}, snapshot |-> [entries |-> <<>>, outputs |-> EmptyTree]]}],
   [file EXCEPT !.data = @ \cup {[status |-> "altered"]}]}

\* One file altered, a report in each of three ways (it cannot be read, it names other inputs,
\* it still names these); or one lost, or added.
Damaged(tree) ==
  LET report == <<"collection-report.json">>
      Without(path) == Restrict(tree, DOMAIN tree \ {path})
      Stray(name, file) == [path \in DOMAIN tree \cup {<<name>>} |->
                              IF path = <<name>> THEN file ELSE tree[path]]
  IN {[tree EXCEPT ![path].data = {}] : path \in DOMAIN tree}
       \cup (IF report \in DOMAIN tree
               THEN {[tree EXCEPT ![report] = file] : file \in AlteredReport(tree[report])} ELSE {})
       \cup {Without(path) : path \in DOMAIN tree}
       \cup {Stray("stray.md", Markdown({}, {})), Stray("stray.png", [Image([size |-> 1]) EXCEPT !.data = {}])}
=============================================================================
