------------------------- MODULE FrameworkCatalogue -------------------------
(***************************************************************************)
(* Frameworks, their controls and the crosswalk between them, filled by     *)
(* import_cis_xlsx and import_nist_csf_xlsx (requests of the two server      *)
(* processes), by seed.py, which an upgrade runs beside the server, and by   *)
(* import_cis.py --seed.                                                    *)
(*                                                                         *)
(* All of them look a row up by name and insert it when there is none; no    *)
(* constraint of the database backs this up for frameworks and controls,     *)
(* while tools and crosswalk entries are unique.  Sessions do not flush on    *)
(* a query, so that a request does not see what it has itself added, and a   *)
(* framework and its controls are committed at once.                        *)
(***************************************************************************)
EXTENDS Naturals, Sequences, FiniteSets

CONSTANTS
  Workers,
  Tools,       \* names in tools_catalog.json
  SeedData,    \* FRAMEWORK_FILES of each release, a sequence of documents
  Uploads,     \* [kind, doc] : parsed workbooks, each with its importer
  MaxRequests  \* bound: requests and scripts that are begun

Documents ==
  {u.doc : u \in Uploads}
    \cup UNION {{SeedData[r][i] : i \in DOMAIN SeedData[r]} : r \in DOMAIN SeedData}

Entries == UNION {{d.controls[i] : i \in DOMAIN d.controls} : d \in Documents}

\* The seed files of a release are of different frameworks, and none of them
\* repeats a control; a workbook may.
ASSUME CatalogueAssumption ==
  /\ \A u \in Uploads : u.kind \in {"cis", "nist", "script"}
  /\ SeedData \in Seq(Seq(Documents) \ {<<>>}) /\ SeedData # <<>>
  /\ \A d \in Documents : d.controls \in Seq(Entries)
  /\ \A r \in DOMAIN SeedData : \A i, j \in DOMAIN SeedData[r] :
       i # j => SeedData[r][i].key # SeedData[r][j].key
  /\ \A r \in DOMAIN SeedData : \A n \in DOMAIN SeedData[r] :
       LET given == SeedData[r][n].controls
       IN \A i, j \in DOMAIN given : i # j => given[i].control_id # given[j].control_id

VARIABLES
  frameworks,  \* the rows in the order of their ids: the key
  controls,    \* the rows in the order of their ids
  tools,       \* names in the table of tools
  links,       \* framework_crosswalks: pairs of ids
  release,     \* which SeedData is installed
  req,
  begun,       \* history: requests and scripts begun
  source,      \* history: for each framework the identifiers it was made of
  crowded,     \* history: keys that two requests have worked on at once
  repeated,    \* history: keys imported from a workbook that repeats a row
  linked,      \* history: number of controls that the last linking has read
  seeding,     \* history: workers whose seeding nobody has disturbed so far
  settled      \* history: a seeding has completed, and nothing has begun since

catalogue == <<frameworks, controls, tools, links>>

vars == <<frameworks, controls, tools, links, release, req, begun, source, crowded,
          repeated, linked, seeding, settled>>

-----------------------------------------------------------------------------
\* sub_controls and required_tags are all that is looked at later.  A list of
\* sub-controls is a value; NoSubs is the empty one.
NoSubs == "[]"

Idle == [phase |-> "idle"]
New == 0   \* the framework is not in the database yet

\* Fault: the version is spelled otherwise than in the row.
FrameworksOf_OtherSpelling(k) == {}

FrameworksOf(k) == {f \in 1..Len(frameworks) : frameworks[f] = k}

ControlsOf(f, cid) ==
  {c \in 1..Len(controls) : controls[c].framework = f /\ controls[c].control_id = cid}

Keys == {d.key : d \in Documents}
Ids == {c.control_id : c \in Entries}
Subs == {c.sub_controls : c \in Entries}
TagSets == {c.required_tags : c \in Entries}

Rows == [framework : 1..Len(frameworks), control_id : Ids, sub_controls : Subs,
         required_tags : TagSets]

Kinds == {"cis", "nist", "script", "seed"}

IsRequest(q) ==
  \/ q = Idle
  \/ q \in [phase : {"finding"}, kind : Kinds, docs : Seq(Documents) \ {<<>>}]
  \/ q \in [phase : {"looking"}, kind : Kinds, docs : Seq(Documents), doc : Documents,
            framework : 0..Len(frameworks), todo : Seq(Entries), add : Seq(Entries),
            fix : SUBSET [row : 1..Len(controls), sub_controls : Subs]]
  \/ q \in [phase : {"tools", "linking"}]
  \/ q \in [phase : {"adding"}, missing : SUBSET Tools]
  \/ q \in [phase : {"storing"}, pairs : SUBSET (Nat \X Nat), upto : 0..Len(controls)]

TypeOK ==
  /\ frameworks \in Seq(Keys)
  /\ controls \in Seq(Rows)
  /\ tools \subseteq Tools
  /\ links \subseteq Nat \X Nat
  /\ release \in 1..Len(SeedData)
  /\ DOMAIN req = Workers /\ \A w \in Workers : IsRequest(req[w])
  /\ source \in Seq(SUBSET Ids) /\ Len(source) = Len(frameworks)
  /\ crowded \subseteq Keys
  /\ repeated \subseteq Keys
  /\ linked \in 0..Len(controls)
  /\ seeding \subseteq Workers
  /\ settled \in BOOLEAN

Init ==
  /\ frameworks = <<>>
  /\ controls = <<>>
  /\ tools = {}
  /\ links = {}
  /\ release = 1
  /\ req = [w \in Workers |-> Idle]
  /\ begun = 0
  /\ source = <<>>
  /\ crowded = {}
  /\ repeated = {}
  /\ linked = 0
  /\ seeding = {}
  /\ settled = FALSE

-----------------------------------------------------------------------------
Begin(w, kind, docs) ==
  /\ req[w] = Idle
  /\ begun < MaxRequests
  /\ begun' = begun + 1
  /\ req' = [req EXCEPT ![w] = [phase |-> "finding", kind |-> kind, docs |-> docs]]

\* import_cis, import_nist_csf, and import_cis.py --seed.
BeginImport(w, u) ==
  /\ Begin(w, u.kind, <<u.doc>>)
  /\ seeding' = {}
  /\ settled' = FALSE
  /\ UNCHANGED <<catalogue, release, source, crowded, repeated, linked>>

\* seed: documents, then tools, then the crosswalk, each with commits of its own.
BeginSeed(w) ==
  /\ Begin(w, "seed", SeedData[release])
  /\ seeding' = IF \A v \in Workers : req[v] = Idle THEN {w} ELSE {}
  /\ UNCHANGED <<catalogue, release, source, crowded, repeated, linked, settled>>

\* A new version of the repository is installed; seed.py is run after it.
InstallRelease ==
  /\ release < Len(SeedData)
  /\ release' = release + 1
  /\ seeding' = {}
  /\ settled' = FALSE
  /\ UNCHANGED <<catalogue, req, begun, source, crowded, repeated, linked>>

-----------------------------------------------------------------------------
(***************************************************************************)
(* One document: find its framework, look its controls up, commit           *)
(***************************************************************************)
WorkedOn(k) ==
  \E v \in Workers : req[v].phase = "looking" /\ req[v].doc.key = k

\* Fault: a new framework is committed at once, its controls later.
FindFramework_CommitsFirst(w, f) ==
  LET q == req[w]
      doc == Head(q.docs)
  IN /\ q.phase = "finding"
     /\ IF FrameworksOf(doc.key) = {} THEN f = New ELSE f \in FrameworksOf(doc.key)
     /\ q.kind = "script" => f = New
     /\ frameworks' = IF f = New THEN Append(frameworks, doc.key) ELSE frameworks
     /\ source' = IF f = New
                    THEN Append(source, {doc.controls[i].control_id : i \in 1..Len(doc.controls)})
                    ELSE source
     /\ req' = [req EXCEPT ![w] =
          [phase |-> "looking", kind |-> q.kind, docs |-> Tail(q.docs), doc |-> doc,
           framework |-> IF f = New THEN Len(frameworks) + 1 ELSE f,
           todo |-> doc.controls, add |-> <<>>, fix |-> {}]]
     /\ crowded' = IF WorkedOn(doc.key) THEN crowded \cup {doc.key} ELSE crowded
     /\ UNCHANGED <<controls, tools, links, release, begun, repeated, linked, seeding, settled>>

\* Any row of the key may be the first() one.
FindFramework(w, f) ==
  LET q == req[w]
      doc == Head(q.docs)
  IN /\ q.phase = "finding"
     /\ IF FrameworksOf(doc.key) = {} THEN f = New ELSE f \in FrameworksOf(doc.key)
     /\ q.kind = "script" => f = New
     /\ req' = [req EXCEPT ![w] =
          [phase |-> "looking", kind |-> q.kind, docs |-> Tail(q.docs), doc |-> doc,
           framework |-> f, todo |-> doc.controls, add |-> <<>>, fix |-> {}]]
     /\ crowded' = IF WorkedOn(doc.key) THEN crowded \cup {doc.key} ELSE crowded
     /\ UNCHANGED <<catalogue, release, begun, source, repeated, linked, seeding, settled>>

\* import_cis.py leaves a framework alone that is there already.
SkipScript(w) ==
  /\ req[w].phase = "finding" /\ req[w].kind = "script"
  /\ FrameworksOf(Head(req[w].docs).key) # {}
  /\ req' = [req EXCEPT ![w] = Idle]
  /\ UNCHANGED <<catalogue, release, begun, source, crowded, repeated, linked, seeding, settled>>

LookUp(w, add, fix) ==
  /\ req' = [req EXCEPT ![w].todo = Tail(@), ![w].add = @ \o add, ![w].fix = @ \cup fix]
  /\ UNCHANGED <<catalogue, release, begun, source, crowded, repeated, linked, seeding, settled>>

Looking(w) == req[w].phase = "looking" /\ req[w].todo # <<>>

\* Fault: a control is added whether or not there is one of its name.
AddControl_Always(w) ==
  Looking(w) /\ LookUp(w, <<Head(req[w].todo)>>, {})

\* No control of the name: the importers add one, and so does everybody in a
\* framework of his own.  seed_framework adds nothing to a framework it found.
AddControl(w) ==
  LET q == req[w]
      c == Head(q.todo)
  IN /\ Looking(w)
     /\ ControlsOf(q.framework, c.control_id) = {}
     /\ LookUp(w, IF q.kind = "seed" /\ q.framework # New THEN <<>> ELSE <<c>>, {})

\* A control of the name is there: the NIST importer fills in its sub-controls
\* if it has none, seed_framework replaces any that differ from its own.
Refreshes(kind, stored, given) ==
  \/ kind = "nist" /\ stored = NoSubs /\ given # NoSubs
  \/ kind = "seed" /\ stored # given /\ given # NoSubs

RefreshControl(w, e) ==
  LET q == req[w]
      c == Head(q.todo)
      refresh == Refreshes(q.kind, controls[e].sub_controls, c.sub_controls)
  IN /\ Looking(w)
     /\ e \in ControlsOf(q.framework, c.control_id)
     /\ LookUp(w, <<>>, IF refresh THEN {[row |-> e, sub_controls |-> c.sub_controls]} ELSE {})

Refreshed(fix) ==
  [e \in 1..Len(controls) |->
     IF \E x \in fix : x.row = e
       THEN [controls[e] EXCEPT !.sub_controls = (CHOOSE x \in fix : x.row = e).sub_controls]
       ELSE controls[e]]

NewRows(f, add) ==
  [i \in 1..Len(add) |->
     [framework |-> f, control_id |-> add[i].control_id, sub_controls |-> add[i].sub_controls,
      required_tags |-> add[i].required_tags]]

Names(doc) == {doc.controls[i].control_id : i \in 1..Len(doc.controls)}

AfterDocument(q) ==
  IF q.kind # "seed" THEN Idle
  ELSE IF q.docs = <<>> THEN [phase |-> "tools"]
  ELSE [phase |-> "finding", kind |-> "seed", docs |-> q.docs]

\* The framework, its new controls and the refreshed ones in one transaction.
\* The database draws the id of a framework when it is flushed; here it is the
\* place in the order of the commits.  The two orders differ only for imports
\* that overlap, and only the direction of a link between two of these depends
\* on which is which.
CommitDocument(w) ==
  LET q == req[w]
      f == IF q.framework = New THEN Len(frameworks) + 1 ELSE q.framework
  IN /\ q.phase = "looking" /\ q.todo = <<>>
     /\ frameworks' = IF q.framework = New THEN Append(frameworks, q.doc.key) ELSE frameworks
     /\ source' = IF q.framework = New THEN Append(source, Names(q.doc)) ELSE source
     /\ controls' = Refreshed(q.fix) \o NewRows(f, q.add)
     /\ repeated' = IF Cardinality(Names(q.doc)) < Len(q.doc.controls)
                      THEN repeated \cup {q.doc.key} ELSE repeated
     /\ req' = [req EXCEPT ![w] = AfterDocument(q)]
     /\ UNCHANGED <<tools, links, release, begun, crowded, linked, seeding, settled>>

-----------------------------------------------------------------------------
(***************************************************************************)
(* seed_tools and seed_crosswalks                                          *)
(***************************************************************************)
LookForTools(w) ==
  /\ req[w].phase = "tools"
  /\ req' = [req EXCEPT ![w] = [phase |-> "adding", missing |-> Tools \ tools]]
  /\ UNCHANGED <<catalogue, release, begun, source, crowded, repeated, linked, seeding, settled>>

\* Names are unique: whoever comes second fails, and his script ends (Abandon).
CommitTools(w) ==
  /\ req[w].phase = "adding"
  /\ req[w].missing \cap tools = {}
  /\ tools' = tools \cup req[w].missing
  /\ req' = [req EXCEPT ![w] = [phase |-> "linking"]]
  /\ UNCHANGED <<frameworks, controls, links, release, begun, source, crowded, repeated,
                 linked, seeding, settled>>

Shares(i, j) ==
  /\ controls[i].framework # controls[j].framework
  /\ controls[i].required_tags \cap controls[j].required_tags # {}

\* Fault: each pair in both directions.
RelatedPairs_Both == {p \in (1..Len(controls)) \X (1..Len(controls)) : Shares(p[1], p[2])}

\* Pairs are stored with the lower id first.
RelatedPairs == {p \in (1..Len(controls)) \X (1..Len(controls)) : p[1] < p[2] /\ Shares(p[1], p[2])}

FindPairs(w) ==
  /\ req[w].phase = "linking"
  /\ req' = [req EXCEPT ![w] =
       [phase |-> "storing", pairs |-> RelatedPairs \ links, upto |-> Len(controls)]]
  /\ UNCHANGED <<catalogue, release, begun, source, crowded, repeated, linked, seeding, settled>>

\* Pairs are unique: one that was linked meanwhile fails the script (Abandon).
CommitPairs(w) ==
  LET q == req[w]
  IN /\ q.phase = "storing"
     /\ q.pairs \cap links = {}
     /\ links' = links \cup q.pairs
     /\ linked' = IF q.upto > linked THEN q.upto ELSE linked
     /\ req' = [req EXCEPT ![w] = Idle]
     /\ settled' = (settled \/ w \in seeding)
     /\ seeding' = seeding \ {w}
     /\ UNCHANGED <<frameworks, controls, tools, release, begun, source, crowded, repeated>>

\* A killed process, a lost connection, a refused commit.
Abandon(w) ==
  /\ req[w] # Idle
  /\ req' = [req EXCEPT ![w] = Idle]
  /\ seeding' = seeding \ {w}
  /\ UNCHANGED <<catalogue, release, begun, source, crowded, repeated, linked, settled>>

-----------------------------------------------------------------------------
Next ==
  \/ \E w \in Workers :
       \/ \E u \in Uploads : BeginImport(w, u)
       \/ BeginSeed(w)
       \/ \E f \in 0..Len(frameworks) : FindFramework(w, f)
       \/ SkipScript(w)
       \/ AddControl(w)
       \/ \E e \in 1..Len(controls) : RefreshControl(w, e)
       \/ CommitDocument(w)
       \/ LookForTools(w)
       \/ CommitTools(w)
       \/ FindPairs(w)
       \/ CommitPairs(w)
       \/ Abandon(w)
  \/ InstallRelease

Spec == Init /\ [][Next]_vars

-----------------------------------------------------------------------------
(***************************************************************************)
(* Properties                                                              *)
(***************************************************************************)

\* What the absence of a constraint leaves open: two frameworks of one name and
\* version, or two controls of one name in a framework, come of requests that
\* worked on it at the same time, or of a workbook that repeats a row.
RowsAreUniqueUnlessRaced ==
  /\ \A f, g \in 1..Len(frameworks) :
       f # g /\ frameworks[f] = frameworks[g] => frameworks[f] \in crowded
  /\ \A i, j \in 1..Len(controls) :
       /\ i # j
       /\ controls[i].framework = controls[j].framework
       /\ controls[i].control_id = controls[j].control_id
       => frameworks[controls[i].framework] \in crowded \cup repeated

\* A framework that is there has every control that it was made of, wherever
\* the script or the request was stopped; nothing would fill it up later.
FrameworksAreWhole ==
  \A f \in 1..Len(frameworks) : \A c \in source[f] : ControlsOf(f, c) # {}

\* explicit_mappings of get_crosswalk, for frameworks f and g.
ExplicitMappings(f, g) ==
  {p \in links : controls[p[1]].framework = f /\ controls[p[2]].framework = g}

\* Between two frameworks the two directions together report each pair that
\* shares a tag among the controls that the last linking could see, each in one
\* of them, and no other pair.
CrosswalkIsComplete ==
  \A f, g \in 1..Len(frameworks) :
    LET told == ExplicitMappings(f, g) \cup {<<p[2], p[1]>> : p \in ExplicitMappings(g, f)}
        related == {p \in (1..Len(controls)) \X (1..Len(controls)) :
                      controls[p[1]].framework = f /\ controls[p[2]].framework = g
                        /\ Shares(p[1], p[2])}
    IN f # g => /\ told \subseteq related
                /\ \A p \in related : p[1] <= linked /\ p[2] <= linked => p \in told
                /\ \A p \in ExplicitMappings(f, g) : <<p[2], p[1]>> \notin ExplicitMappings(g, f)

Twins ==
  \/ \E f, g \in 1..Len(frameworks) : f # g /\ frameworks[f] = frameworks[g]
  \/ \E i, j \in 1..Len(controls) : /\ i # j
                                    /\ controls[i].framework = controls[j].framework
                                    /\ controls[i].control_id = controls[j].control_id

\* seed.py:3, "Safe to re-run": once a seeding has gone through undisturbed, any
\* number of seedings of the same release, interrupted or at the same time,
\* change nothing, unless the catalogue has rows of one name.
ReseedingIsIdle ==
  [][settled /\ settled' /\ ~Twins => UNCHANGED catalogue]_vars

=============================================================================
