--------------------------- MODULE CatalogueProofs ---------------------------
(***************************************************************************)
(* Proofs about FrameworkCatalogue, for any workbooks and seed files and   *)
(* any number of imports and scripts, about CoverageReport (R), for any    *)
(* controls, tools and tags, and about WorkbookParser (W), for workbooks   *)
(* of any rows.                                                            *)
(***************************************************************************)
EXTENDS MCCatalogue, SequenceTheorems, FiniteSetTheorems, TLAPS

-----------------------------------------------------------------------------
\* The catalogue, the parsers and a report behave beside each other as they do
\* alone.
LEMMA PartSteps ==
  ASSUME [MCNext]_<<vars, parserVars, reportVars, at>>
  PROVE  [Next]_vars /\ [W!Next]_parserVars /\ [R!Next]_reportVars
  BY DEF MCNext, vars, catalogue, parserVars, reportVars

\* What is proved of a part alone holds of it in the composition.
THEOREM PartsAreIndependent == MCSpec => Spec /\ W!Spec /\ R!Spec
<1>1. MCInit => Init /\ W!Init /\ R!Init
  BY DEF MCInit
<1> QED
  BY <1>1, PartSteps, PTL
     DEF MCSpec, Spec, W!Spec, W!vars, parserVars, R!Spec, R!vars, reportVars

-----------------------------------------------------------------------------
(***************************************************************************)
(* Documents, entries and their sequences                                   *)
(***************************************************************************)
LEMMA DocumentsOfSeeds ==
  ASSUME NEW r \in 1..Len(SeedData)
  PROVE  /\ SeedData[r] \in Seq(Documents) \ {<<>>}
         /\ r \in DOMAIN SeedData
  BY CatalogueAssumption

LEMMA DocumentsOfUploads ==
  ASSUME NEW u \in Uploads
  PROVE  /\ u.kind \in {"cis", "nist", "script"}
         /\ u.doc \in Documents
         /\ <<u.doc>> \in Seq(Documents) \ {<<>>}
<1>1. u.doc \in Documents
  BY DEF Documents
<1> QED
  BY <1>1, CatalogueAssumption

LEMMA DocumentTypes ==
  ASSUME NEW d \in Documents
  PROVE  d.controls \in Seq(Entries) /\ d.key \in Keys
  BY CatalogueAssumption DEF Keys

LEMMA EntryTypes ==
  ASSUME NEW c \in Entries
  PROVE  c.control_id \in Ids /\ c.sub_controls \in Subs /\ c.required_tags \in TagSets
  BY DEF Ids, Subs, TagSets

\* The rest of the documents of a seeding, and the rest of the controls.
LEMMA Rest ==
  ASSUME NEW S, NEW s \in Seq(S), s # <<>>
  PROVE  Head(s) \in S /\ Tail(s) \in Seq(S)
  BY HeadTailProperties

-----------------------------------------------------------------------------
(***************************************************************************)
(* Types                                                                   *)
(***************************************************************************)
LEMMA TypeInit == Init => TypeOK
<1> SUFFICES ASSUME Init PROVE TypeOK
  OBVIOUS
<1>1. 1 \in 1..Len(SeedData)
  BY CatalogueAssumption
<1>2. DOMAIN req = Workers /\ \A w \in Workers : IsRequest(req[w])
  BY DEF Init, IsRequest
<1>3. /\ <<>> \in Seq(Keys) /\ <<>> \in Seq(Rows) /\ <<>> \in Seq(SUBSET Ids)
      /\ Len(<<>>) = 0
  BY EmptySeq
<1>4. frameworks = <<>> /\ controls = <<>> /\ source = <<>>
  BY DEF Init
<1>5. /\ tools \subseteq Tools /\ links \subseteq Nat \X Nat /\ crowded \subseteq Keys
      /\ repeated \subseteq Keys /\ seeding \subseteq Workers /\ settled \in BOOLEAN
  BY DEF Init
<1>6. linked = 0 /\ release = 1
  BY DEF Init
<1> QED
  BY <1>1, <1>2, <1>3, <1>4, <1>5, <1>6 DEF TypeOK

\* The phases that a request can be in.
Finding(q) == q \in [phase : {"finding"}, kind : Kinds, docs : Seq(Documents) \ {<<>>}]

IsLooking(q) ==
  q \in [phase : {"looking"}, kind : Kinds, docs : Seq(Documents), doc : Documents,
         framework : 0..Len(frameworks), todo : Seq(Entries), add : Seq(Entries),
         fix : SUBSET [row : 1..Len(controls), sub_controls : Subs]]

LEMMA PhaseTypes ==
  ASSUME TypeOK, NEW w \in Workers
  PROVE  /\ req[w].phase = "finding" => Finding(req[w])
         /\ req[w].phase = "looking" => IsLooking(req[w])
         /\ req[w].phase = "adding" =>
              req[w] \in [phase : {"adding"}, missing : SUBSET Tools]
         /\ req[w].phase = "storing" =>
              req[w] \in [phase : {"storing"}, pairs : SUBSET (Nat \X Nat),
                          upto : 0..Len(controls)]
  BY DEF TypeOK, IsRequest, Idle, Finding, IsLooking

\* Only the request of one worker changes, and the tables stay.
LEMMA OneRequest ==
  ASSUME TypeOK, NEW w \in Workers, NEW q,
         req' = [req EXCEPT ![w] = q],
         frameworks' = frameworks, controls' = controls,
         IsRequest(q)
  PROVE  /\ DOMAIN req' = Workers
         /\ \A v \in Workers : IsRequest(req[v])'
<1>1. \A v \in Workers : req'[v] = IF v = w THEN q ELSE req[v]
  BY DEF TypeOK
<1> QED
  BY <1>1 DEF TypeOK, IsRequest

LEMMA LookUpType ==
  ASSUME TypeOK, NEW w \in Workers, NEW add \in Seq(Entries), Looking(w),
         NEW fix \in SUBSET [row : 1..Len(controls), sub_controls : Subs],
         LookUp(w, add, fix)
  PROVE  TypeOK'
<1> DEFINE q == req[w]
           new == [q EXCEPT !.todo = Tail(@), !.add = @ \o add, !.fix = @ \cup fix]
<1>1. IsLooking(q) /\ q.todo # <<>>
  BY PhaseTypes DEF Looking
<1>2. Tail(q.todo) \in Seq(Entries) /\ q.add \o add \in Seq(Entries)
  BY <1>1, Rest, ConcatProperties DEF IsLooking
<1>3. IsLooking(new)
  BY <1>1, <1>2 DEF IsLooking
<1>4. req' = [req EXCEPT ![w] = new]
  BY DEF LookUp
<1>5. IsRequest(new)
  BY <1>3 DEF IsRequest, IsLooking
<1> HIDE DEF new
<1>6. DOMAIN req' = Workers /\ \A v \in Workers : IsRequest(req[v])'
  BY <1>4, <1>5, OneRequest DEF LookUp, catalogue
<1> QED
  BY <1>6 DEF LookUp, catalogue, TypeOK, Rows

-----------------------------------------------------------------------------
LEMMA RefreshedRow ==
  ASSUME NEW c \in Rows, NEW s \in Subs
  PROVE  /\ [c EXCEPT !.sub_controls = s] \in Rows
         /\ [c EXCEPT !.sub_controls = s].framework = c.framework
         /\ [c EXCEPT !.sub_controls = s].control_id = c.control_id
         /\ [c EXCEPT !.sub_controls = s].required_tags = c.required_tags
         /\ [c EXCEPT !.sub_controls = s].sub_controls = s
  BY DEF Rows

\* Whether the rows are old ones, refreshed, or new ones.
LEMMA CommittedRows ==
  ASSUME TypeOK, NEW w \in Workers, CommitDocument(w)
  PROVE  LET q == req[w]
             f == IF q.framework = New THEN Len(frameworks) + 1 ELSE q.framework
         IN /\ IsLooking(q)
            /\ f \in 1..Len(frameworks')
            /\ Len(frameworks') = IF q.framework = New THEN Len(frameworks) + 1
                                  ELSE Len(frameworks)
            /\ frameworks' \in Seq(Keys)
            /\ \A g \in 1..Len(frameworks) : frameworks'[g] = frameworks[g]
            /\ q.framework = New => frameworks'[f] = q.doc.key
            /\ controls' \in Seq(Rows')
            /\ Len(controls') = Len(controls) + Len(q.add)
            /\ \A e \in 1..Len(controls) :
                 /\ controls'[e].framework = controls[e].framework
                 /\ controls'[e].control_id = controls[e].control_id
                 /\ controls'[e].required_tags = controls[e].required_tags
            /\ \A e \in 1..Len(controls) :
                 (\A x \in q.fix : x.row # e) => controls'[e] = controls[e]
            /\ \A e \in 1..Len(controls) :
                 (\E x \in q.fix : x.row = e)
                   => \E x \in q.fix : x.row = e /\ controls'[e].sub_controls = x.sub_controls
            /\ \A i \in 1..Len(q.add) :
                 controls'[Len(controls) + i] =
                   [framework |-> f, control_id |-> q.add[i].control_id,
                    sub_controls |-> q.add[i].sub_controls,
                    required_tags |-> q.add[i].required_tags]
<1> DEFINE q == req[w]
           f == IF q.framework = New THEN Len(frameworks) + 1 ELSE q.framework
           old == Refreshed(q.fix)
           new == NewRows(f, q.add)
<1>1. /\ IsLooking(q)
      /\ frameworks' = IF q.framework = New THEN Append(frameworks, q.doc.key) ELSE frameworks
      /\ controls' = old \o new
  BY PhaseTypes DEF CommitDocument
<1>2. /\ q.framework \in 0..Len(frameworks) /\ q.add \in Seq(Entries)
      /\ q.doc \in Documents /\ q.fix \subseteq [row : 1..Len(controls), sub_controls : Subs]
  BY <1>1 DEF IsLooking
<1>3. frameworks \in Seq(Keys) /\ controls \in Seq(Rows) /\ Len(frameworks) \in Nat
  BY DEF TypeOK
<1>4. q.doc.key \in Keys
  BY <1>2, DocumentTypes
<1> HIDE DEF q
<1>5. /\ frameworks' \in Seq(Keys)
      /\ Len(frameworks') = IF q.framework = New THEN Len(frameworks) + 1 ELSE Len(frameworks)
      /\ \A g \in 1..Len(frameworks) : frameworks'[g] = frameworks[g]
      /\ q.framework = New => frameworks'[f] = q.doc.key
  BY <1>1, <1>3, <1>4, AppendProperties
<1>6. f \in 1..Len(frameworks')
  BY <1>2, <1>3, <1>5 DEF New
<1>7. ASSUME NEW e \in 1..Len(controls)
      PROVE  /\ old[e] \in Rows'
             /\ old[e].framework = controls[e].framework
             /\ old[e].control_id = controls[e].control_id
             /\ old[e].required_tags = controls[e].required_tags
             /\ (\A x \in q.fix : x.row # e) => old[e] = controls[e]
             /\ (\E x \in q.fix : x.row = e)
                  => \E x \in q.fix : x.row = e /\ old[e].sub_controls = x.sub_controls
  <2>1. controls[e] \in Rows
    BY <1>3
  <2>0. Rows \subseteq Rows'
    BY <1>3, <1>5 DEF Rows
  <2>2. CASE \E x \in q.fix : x.row = e
    <3> DEFINE x == CHOOSE y \in q.fix : y.row = e
    <3>1. x \in q.fix /\ x.row = e
      BY <2>2
    <3>2. old[e] = [controls[e] EXCEPT !.sub_controls = x.sub_controls]
      BY <2>2 DEF Refreshed
    <3>3. x.sub_controls \in Subs
      BY <1>2, <3>1
    <3> HIDE DEF x, old
    <3>4. /\ old[e] \in Rows
          /\ old[e].framework = controls[e].framework
          /\ old[e].control_id = controls[e].control_id
          /\ old[e].required_tags = controls[e].required_tags
          /\ old[e].sub_controls = x.sub_controls
      BY <2>1, <3>2, <3>3, RefreshedRow
    <3> QED
      BY <2>0, <2>2, <3>1, <3>4
  <2>3. CASE \A x \in q.fix : x.row # e
    <3>1. old[e] = controls[e]
      BY <2>3 DEF Refreshed
    <3> QED
      BY <2>0, <2>1, <2>3, <3>1
  <2> QED
    BY <2>2, <2>3
<1>8. ASSUME NEW i \in 1..Len(q.add)
      PROVE  /\ new[i] = [framework |-> f, control_id |-> q.add[i].control_id,
                          sub_controls |-> q.add[i].sub_controls,
                          required_tags |-> q.add[i].required_tags]
             /\ new[i] \in Rows'
  <2>1. q.add[i] \in Entries
    BY <1>2
  <2> QED
    BY <1>6, <2>1, EntryTypes DEF NewRows, Rows
<1>9. /\ Len(controls) \in Nat /\ Len(q.add) \in Nat
      /\ old \in [1..Len(controls) -> Rows'] /\ new \in [1..Len(q.add) -> Rows']
  <2>1. old = [e \in 1..Len(controls) |-> old[e]]
    BY DEF Refreshed
  <2>2. new = [i \in 1..Len(q.add) |-> new[i]]
    BY DEF NewRows
  <2>3. Len(controls) \in Nat /\ Len(q.add) \in Nat
    BY <1>2, <1>3
  <2> HIDE DEF old, new, f
  <2> QED
    BY <1>7, <1>8, <2>1, <2>2, <2>3
<1> HIDE DEF old, new, f
<1>10. /\ old \in Seq(Rows') /\ new \in Seq(Rows')
       /\ Len(old) = Len(controls) /\ Len(new) = Len(q.add)
  BY <1>9
<1>11. /\ controls' \in Seq(Rows')
       /\ Len(controls') = Len(controls) + Len(q.add)
       /\ \A e \in 1..Len(controls) : controls'[e] = old[e]
       /\ \A i \in 1..Len(q.add) : controls'[Len(controls) + i] = new[i]
  <2>1. /\ controls' \in Seq(Rows') /\ Len(controls') = Len(old) + Len(new)
        /\ \A i \in 1..Len(old) + Len(new) :
             controls'[i] = IF i <= Len(old) THEN old[i] ELSE new[i - Len(old)]
    BY <1>1, <1>10, ConcatProperties
  <2>2. ASSUME NEW e \in 1..Len(controls)
        PROVE  controls'[e] = old[e]
    BY <1>9, <1>10, <2>1
  <2>3. ASSUME NEW i \in 1..Len(q.add)
        PROVE  controls'[Len(controls) + i] = new[i]
    <3>1. /\ Len(controls) + i \in 1..Len(old) + Len(new)
          /\ ~ (Len(controls) + i <= Len(old))
          /\ Len(controls) + i - Len(old) = i
      BY <1>9, <1>10
    <3> QED
      BY <2>1, <3>1
  <2> QED
    BY <1>10, <2>1, <2>2, <2>3
<1>12. ASSUME NEW e \in 1..Len(controls)
       PROVE  /\ controls'[e].framework = controls[e].framework
              /\ controls'[e].control_id = controls[e].control_id
              /\ controls'[e].required_tags = controls[e].required_tags
              /\ (\A x \in q.fix : x.row # e) => controls'[e] = controls[e]
              /\ (\E x \in q.fix : x.row = e)
                   => \E x \in q.fix : x.row = e /\ controls'[e].sub_controls = x.sub_controls
  <2>1. controls'[e] = old[e]
    BY <1>11
  <2> QED
    BY <1>7, <2>1
<1> QED
  BY <1>1, <1>5, <1>6, <1>8, <1>11, <1>12 DEF f, q

\* A step that changes the request of one worker and none of the rows.
LEMMA RequestStep ==
  ASSUME TypeOK, NEW w \in Workers, NEW q, IsRequest(q),
         req' = [req EXCEPT ![w] = q],
         UNCHANGED <<frameworks, controls, source, repeated, release>>,
         tools' \subseteq Tools, links' \subseteq Nat \X Nat, crowded' \subseteq Keys,
         linked' \in 0..Len(controls), seeding' \subseteq Workers, settled' \in BOOLEAN
  PROVE  TypeOK'
<1>1. DOMAIN req' = Workers /\ \A v \in Workers : IsRequest(req[v])'
  BY OneRequest
<1> QED
  BY <1>1 DEF TypeOK, Rows

LEMMA TypeFind ==
  ASSUME TypeOK, NEW w \in Workers, NEW f \in 0..Len(frameworks), FindFramework(w, f)
  PROVE  TypeOK'
<1> DEFINE q == req[w]
           doc == Head(q.docs)
           new == [phase |-> "looking", kind |-> q.kind, docs |-> Tail(q.docs), doc |-> doc,
                   framework |-> f, todo |-> doc.controls, add |-> <<>>, fix |-> {}]
<1>1. Finding(q)
  BY PhaseTypes DEF FindFramework
<1>2. doc \in Documents /\ Tail(q.docs) \in Seq(Documents)
  BY <1>1, Rest DEF Finding
<1>3. doc.controls \in Seq(Entries) /\ doc.key \in Keys
  BY <1>2, DocumentTypes
<1>4. q.kind \in Kinds /\ <<>> \in Seq(Entries)
  BY <1>1 DEF Finding
<1>5. req' = [req EXCEPT ![w] = new]
  BY DEF FindFramework
<1> HIDE DEF q, doc
<1>6. IsRequest(new)
  BY <1>2, <1>3, <1>4 DEF IsRequest
<1> HIDE DEF new
<1>7. crowded' \subseteq Keys
  BY <1>3 DEF FindFramework, TypeOK, doc, q
<1> QED
  BY <1>5, <1>6, <1>7, RequestStep DEF FindFramework, catalogue, TypeOK

LEMMA TypeCommit ==
  ASSUME TypeOK, NEW w \in Workers, CommitDocument(w)
  PROVE  TypeOK'
<1> DEFINE q == req[w]
<1>1. /\ IsLooking(q)
      /\ Len(frameworks') = IF q.framework = New THEN Len(frameworks) + 1 ELSE Len(frameworks)
      /\ frameworks' \in Seq(Keys)
      /\ controls' \in Seq(Rows')
      /\ Len(controls') = Len(controls) + Len(q.add)
  BY CommittedRows
<1>2. /\ Len(frameworks) \in Nat /\ Len(controls) \in Nat /\ Len(q.add) \in Nat
      /\ Len(frameworks') \in Nat /\ Len(controls') \in Nat
  BY <1>1 DEF TypeOK, IsLooking
<1>3. /\ 0..Len(frameworks) \subseteq 0..Len(frameworks')
      /\ 0..Len(controls) \subseteq 0..Len(controls')
      /\ 1..Len(controls) \subseteq 1..Len(controls')
  BY <1>1, <1>2
<1>4. ASSUME NEW r, IsRequest(r)
      PROVE  IsRequest(r)'
  <2>1. CASE IsLooking(r)
    <3>1. /\ r.framework \in 0..Len(frameworks')
          /\ r.fix \subseteq [row : 1..Len(controls'), sub_controls : Subs]
      <4>1. [row : 1..Len(controls), sub_controls : Subs]
              \subseteq [row : 1..Len(controls'), sub_controls : Subs]
        BY <1>3
      <4> QED
        BY <1>3, <2>1, <4>1 DEF IsLooking
    <3>2. IsLooking(r)'
      BY <2>1, <3>1 DEF IsLooking
    <3> QED
      BY <3>2 DEF IsRequest, IsLooking
  <2>2. CASE r \in [phase : {"storing"}, pairs : SUBSET (Nat \X Nat), upto : 0..Len(controls)]
    BY <1>3, <2>2 DEF IsRequest
  <2>3. CASE ~ IsLooking(r)
    BY <1>4, <2>2, <2>3 DEF IsRequest, IsLooking
  <2> QED
    BY <2>1, <2>3
<1>5. q.kind \in Kinds /\ q.docs \in Seq(Documents) /\ q.doc \in Documents
  BY <1>1 DEF IsLooking
<1>6. ASSUME NEW r, r = AfterDocument(q)
      PROVE  IsRequest(r)'
  BY <1>5, <1>6 DEF AfterDocument, IsRequest
<1>7. DOMAIN req' = Workers /\ \A v \in Workers : IsRequest(req[v])'
  <2>1. \A v \in Workers : req'[v] = IF v = w THEN AfterDocument(q) ELSE req[v]
    BY DEF CommitDocument, TypeOK
  <2>2. ASSUME NEW v \in Workers
        PROVE  IsRequest(req[v])'
    <3>1. PICK r : r = req'[v]
      OBVIOUS
    <3>2. r = AfterDocument(q) \/ IsRequest(r)
      BY <2>1, <3>1 DEF TypeOK
    <3>3. IsRequest(r)'
      BY <1>4, <1>6, <3>2
    <3> QED
      BY <3>1, <3>3 DEF IsRequest
  <2>3. DOMAIN req' = Workers
    BY DEF CommitDocument, TypeOK
  <2> QED
    BY <2>2, <2>3
<1>8. Names(q.doc) \subseteq Ids /\ q.doc.key \in Keys
  BY <1>5, DocumentTypes, EntryTypes DEF Names
<1>9. source' \in Seq(SUBSET Ids) /\ Len(source') = Len(frameworks')
  <2>1. source' = IF q.framework = New THEN Append(source, Names(q.doc)) ELSE source
    BY DEF CommitDocument
  <2> QED
    BY <1>1, <1>2, <1>8, <2>1, AppendProperties DEF TypeOK
<1>10. repeated' \subseteq Keys
  BY <1>8 DEF CommitDocument, TypeOK
<1>11. linked' \in 0..Len(controls')
  BY <1>3 DEF CommitDocument, TypeOK
<1>12. UNCHANGED <<tools, links, release, crowded, seeding, settled>>
  BY DEF CommitDocument
<1> QED
  BY <1>1, <1>7, <1>9, <1>10, <1>11, <1>12 DEF TypeOK

LEMMA TypeNext == TypeOK /\ [Next]_vars => TypeOK'
<1> SUFFICES ASSUME TypeOK, [Next]_vars
             PROVE  TypeOK'
  OBVIOUS
<1>1. ASSUME NEW w \in Workers, NEW u \in Uploads, BeginImport(w, u)
      PROVE  TypeOK'
  <2> DEFINE new == [phase |-> "finding", kind |-> u.kind, docs |-> <<u.doc>>]
  <2>1. IsRequest(new)
    BY DocumentsOfUploads DEF IsRequest, Kinds
  <2>2. req' = [req EXCEPT ![w] = new]
    BY <1>1 DEF BeginImport, Begin
  <2> HIDE DEF new
  <2> QED
    BY <1>1, <2>1, <2>2, RequestStep DEF BeginImport, catalogue, TypeOK
<1>2. ASSUME NEW w \in Workers, BeginSeed(w)
      PROVE  TypeOK'
  <2> DEFINE new == [phase |-> "finding", kind |-> "seed", docs |-> SeedData[release]]
  <2>1. IsRequest(new)
    BY DocumentsOfSeeds DEF IsRequest, Kinds, TypeOK
  <2>2. req' = [req EXCEPT ![w] = new]
    BY <1>2 DEF BeginSeed, Begin
  <2>3. seeding' \subseteq Workers
    BY <1>2 DEF BeginSeed
  <2> HIDE DEF new
  <2> QED
    BY <1>2, <2>1, <2>2, <2>3, RequestStep DEF BeginSeed, catalogue, TypeOK
<1>3. ASSUME InstallRelease
      PROVE  TypeOK'
  <2>1. release' \in 1..Len(SeedData)
    BY <1>3, CatalogueAssumption DEF InstallRelease, TypeOK
  <2>2. UNCHANGED <<frameworks, controls, tools, links, req, source, crowded, repeated, linked>>
    BY <1>3 DEF InstallRelease, catalogue
  <2>3. /\ frameworks' \in Seq(Keys) /\ controls' \in Seq(Rows')
        /\ \A v \in Workers : IsRequest(req[v])'
    BY <2>2 DEF TypeOK, Rows, IsRequest
  <2>4. seeding' = {} /\ settled' = FALSE
    BY <1>3 DEF InstallRelease
  <2> QED
    BY <2>1, <2>2, <2>3, <2>4 DEF TypeOK
<1>4. ASSUME NEW w \in Workers, SkipScript(w)
      PROVE  TypeOK'
  BY <1>4, RequestStep DEF SkipScript, catalogue, TypeOK, IsRequest
<1>5. ASSUME NEW w \in Workers, AddControl(w)
      PROVE  TypeOK'
  <2> DEFINE q == req[w]
             add == IF q.kind = "seed" /\ q.framework # New THEN <<>> ELSE <<Head(q.todo)>>
  <2>1. IsLooking(q) /\ q.todo # <<>>
    BY <1>5, PhaseTypes DEF AddControl, Looking
  <2>2. Head(q.todo) \in Entries
    BY <2>1, Rest DEF IsLooking
  <2>3. add \in Seq(Entries)
    BY <2>2
  <2>4. LookUp(w, add, {}) /\ Looking(w)
    BY <1>5 DEF AddControl
  <2> HIDE DEF add
  <2> QED
    BY <2>3, <2>4, LookUpType
<1>6. ASSUME NEW w \in Workers, NEW e \in 1..Len(controls), RefreshControl(w, e)
      PROVE  TypeOK'
  <2> DEFINE q == req[w]
             c == Head(q.todo)
             fix == IF Refreshes(q.kind, controls[e].sub_controls, c.sub_controls)
                      THEN {[row |-> e, sub_controls |-> c.sub_controls]} ELSE {}
  <2>1. IsLooking(q) /\ q.todo # <<>>
    BY <1>6, PhaseTypes DEF RefreshControl, Looking
  <2>2. c \in Entries
    BY <2>1, Rest DEF IsLooking
  <2>3. c.sub_controls \in Subs
    BY <2>2, EntryTypes
  <2>4. fix \in SUBSET [row : 1..Len(controls), sub_controls : Subs]
    BY <2>3
  <2>5. LookUp(w, <<>>, fix) /\ Looking(w)
    BY <1>6 DEF RefreshControl
  <2>6. <<>> \in Seq(Entries)
    OBVIOUS
  <2> HIDE DEF fix
  <2> QED
    BY <2>4, <2>5, <2>6, LookUpType
<1>7. ASSUME NEW w \in Workers, LookForTools(w)
      PROVE  TypeOK'
  <2> DEFINE new == [phase |-> "adding", missing |-> Tools \ tools]
  <2>1. IsRequest(new)
    BY DEF IsRequest
  <2> QED
    BY <1>7, <2>1, RequestStep DEF LookForTools, catalogue, TypeOK
<1>8. ASSUME NEW w \in Workers, CommitTools(w)
      PROVE  TypeOK'
  <2>1. req[w].missing \subseteq Tools
    BY <1>8, PhaseTypes DEF CommitTools
  <2>2. IsRequest([phase |-> "linking"])
    BY DEF IsRequest
  <2> QED
    BY <1>8, <2>1, <2>2, RequestStep DEF CommitTools, TypeOK
<1>9. ASSUME NEW w \in Workers, FindPairs(w)
      PROVE  TypeOK'
  <2> DEFINE new == [phase |-> "storing", pairs |-> RelatedPairs \ links, upto |-> Len(controls)]
  <2>1. Len(controls) \in Nat
    BY DEF TypeOK
  <2>2. RelatedPairs \subseteq Nat \X Nat
    BY <2>1 DEF RelatedPairs
  <2>3. IsRequest(new)
    BY <2>1, <2>2 DEF IsRequest
  <2>4. req' = [req EXCEPT ![w] = new]
    BY <1>9 DEF FindPairs
  <2> HIDE DEF new
  <2> QED
    BY <1>9, <2>3, <2>4, RequestStep DEF FindPairs, catalogue, TypeOK
<1>10. ASSUME NEW w \in Workers, CommitPairs(w)
       PROVE  TypeOK'
  <2>1. req[w].pairs \subseteq Nat \X Nat /\ req[w].upto \in 0..Len(controls)
    BY <1>10, PhaseTypes DEF CommitPairs
  <2>2. IsRequest(Idle)
    BY DEF IsRequest
  <2>3. /\ links' \subseteq Nat \X Nat /\ linked' \in 0..Len(controls)
        /\ seeding' \subseteq Workers
    BY <1>10, <2>1 DEF CommitPairs, TypeOK
  <2>4. settled' \in BOOLEAN
    BY <1>10 DEF CommitPairs
  <2>5. /\ req' = [req EXCEPT ![w] = Idle]
        /\ UNCHANGED <<frameworks, controls, tools, release, source, crowded, repeated>>
    BY <1>10 DEF CommitPairs
  <2> QED
    BY <2>2, <2>3, <2>4, <2>5, RequestStep DEF TypeOK
<1>11. ASSUME NEW w \in Workers, Abandon(w)
       PROVE  TypeOK'
  <2>1. IsRequest(Idle)
    BY DEF IsRequest
  <2> QED
    BY <1>11, <2>1, RequestStep DEF Abandon, catalogue, TypeOK
<1>12. ASSUME UNCHANGED vars
       PROVE  TypeOK'
  BY <1>12 DEF vars, catalogue, TypeOK, Rows, IsRequest
<1> QED
  BY <1>1, <1>2, <1>3, <1>4, <1>5, <1>6, <1>7, <1>8, <1>9, <1>10, <1>11, <1>12,
     TypeFind, TypeCommit DEF Next

\* Rows, documents in work and the bookkeeping of every import and seeding keep
\* their types: a control that is being added belongs to a framework that is there
\* or is added with it.
THEOREM TypeCorrect == Spec => []TypeOK
  BY TypeInit, TypeNext, PTL DEF Spec

-----------------------------------------------------------------------------
(***************************************************************************)
(* What a request has found, and what it has not                           *)
(***************************************************************************)
IdsOf(s) == {s[i].control_id : i \in 1..Len(s)}

Distinct(s) == \A i, j \in 1..Len(s) : i # j => s[i].control_id # s[j].control_id

\* Two requests at work on one key are a race.
RacesAreSeen ==
  \A v, w \in Workers :
    /\ v # w
    /\ req[v].phase = "looking" /\ req[w].phase = "looking"
    /\ req[v].doc.key = req[w].doc.key
    => req[w].doc.key \in crowded

\* A framework that was found is the one of the document.  Without a race a
\* framework or control that was not found is still not there.
FoundStands(q) ==
  /\ q.framework # New => frameworks[q.framework] = q.doc.key
  /\ q.doc.key \notin crowded =>
       /\ q.framework = New => FrameworksOf(q.doc.key) = {}
       /\ \A i \in 1..Len(q.add) : ControlsOf(q.framework, q.add[i].control_id) = {}

\* A new framework gets each control of its document, and a document that
\* repeats none is not added to twice.
AddsEach(q) ==
  /\ q.framework = New => Names(q.doc) \subseteq IdsOf(q.add) \cup IdsOf(q.todo)
  /\ Distinct(q.doc.controls) =>
       /\ Distinct(q.add)
       /\ Distinct(q.todo)
       /\ IdsOf(q.add) \cap IdsOf(q.todo) = {}

\* The requests that are working on a document.
InWork == {req[w] : w \in {v \in Workers : req[v].phase = "looking"}}

CatalogueInv ==
  /\ RacesAreSeen
  /\ \A q \in InWork : FoundStands(q) /\ AddsEach(q)
  /\ RowsAreUniqueUnlessRaced
  /\ FrameworksAreWhole

-----------------------------------------------------------------------------
LEMMA TailIds ==
  ASSUME NEW s \in Seq(Entries), s # <<>>
  PROVE  /\ IdsOf(s) = IdsOf(Tail(s)) \cup {Head(s).control_id}
         /\ Distinct(s) => Distinct(Tail(s)) /\ Head(s).control_id \notin IdsOf(Tail(s))
<1>1. /\ Len(s) \in Nat \ {0}
      /\ Head(s) = s[1] /\ Len(Tail(s)) = Len(s) - 1
      /\ \A i \in 1..Len(Tail(s)) : Tail(s)[i] = s[i + 1]
  BY EmptySeq, HeadTailProperties
<1>2. ASSUME NEW i \in 1..Len(Tail(s))
      PROVE  i + 1 \in 1..Len(s) /\ i + 1 # 1
  BY <1>1
<1>3. ASSUME NEW i \in 1..Len(s), i # 1
      PROVE  i - 1 \in 1..Len(Tail(s)) /\ Tail(s)[i - 1] = s[i]
  <2>1. i - 1 \in 1..Len(Tail(s)) /\ (i - 1) + 1 = i
    BY <1>1, <1>3
  <2> QED
    BY <1>1, <2>1
<1>4. 1 \in 1..Len(s)
  BY <1>1
<1>5. IdsOf(s) \subseteq IdsOf(Tail(s)) \cup {Head(s).control_id}
  <2> SUFFICES ASSUME NEW i \in 1..Len(s)
               PROVE  s[i].control_id \in IdsOf(Tail(s)) \cup {s[1].control_id}
    BY <1>1 DEF IdsOf
  <2> QED
    BY <1>3 DEF IdsOf
<1>6. IdsOf(Tail(s)) \cup {Head(s).control_id} \subseteq IdsOf(s)
  BY <1>1, <1>2, <1>4 DEF IdsOf
<1>7. ASSUME Distinct(s)
      PROVE  Distinct(Tail(s)) /\ Head(s).control_id \notin IdsOf(Tail(s))
  <2>1. ASSUME NEW i \in 1..Len(Tail(s)), NEW j \in 1..Len(Tail(s)), i # j
        PROVE  Tail(s)[i].control_id # Tail(s)[j].control_id
    <3>1. i + 1 # j + 1
      BY <2>1
    <3> QED
      BY <1>1, <1>2, <1>7, <3>1 DEF Distinct
  <2>2. ASSUME NEW i \in 1..Len(Tail(s))
        PROVE  Tail(s)[i].control_id # s[1].control_id
    BY <1>1, <1>2, <1>4, <1>7 DEF Distinct
  <2> QED
    BY <1>1, <2>1, <2>2 DEF Distinct, IdsOf
<1> QED
  BY <1>5, <1>6, <1>7

LEMMA ConcatIds ==
  ASSUME NEW s \in Seq(Entries), NEW t \in Seq(Entries)
  PROVE  /\ IdsOf(s \o t) = IdsOf(s) \cup IdsOf(t)
         /\ Distinct(s) /\ Distinct(t) /\ IdsOf(s) \cap IdsOf(t) = {} => Distinct(s \o t)
<1> DEFINE st == s \o t
<1>1. /\ Len(s) \in Nat /\ Len(t) \in Nat /\ Len(st) = Len(s) + Len(t)
      /\ \A i \in 1..Len(s) + Len(t) :
           st[i] = IF i <= Len(s) THEN s[i] ELSE t[i - Len(s)]
  BY ConcatProperties
<1> HIDE DEF st
<1>2. ASSUME NEW i \in 1..Len(s)
      PROVE  i \in 1..Len(st) /\ st[i] = s[i]
  BY <1>1
<1>3. ASSUME NEW i \in 1..Len(t)
      PROVE  Len(s) + i \in 1..Len(st) /\ st[Len(s) + i] = t[i]
  <2>1. /\ Len(s) + i \in 1..Len(s) + Len(t)
        /\ ~ (Len(s) + i <= Len(s)) /\ Len(s) + i - Len(s) = i
    BY <1>1
  <2> QED
    BY <1>1, <2>1
<1>4. ASSUME NEW i \in 1..Len(st)
      PROVE  \/ i \in 1..Len(s) /\ st[i] = s[i]
             \/ i - Len(s) \in 1..Len(t) /\ st[i] = t[i - Len(s)] /\ i > Len(s)
  BY <1>1
<1> DEFINE id(i) == st[i].control_id
<1>5. ASSUME NEW i \in 1..Len(st)
      PROVE  \/ i \in 1..Len(s) /\ id(i) \in IdsOf(s)
             \/ i \notin 1..Len(s) /\ id(i) \in IdsOf(t)
  BY <1>1, <1>4 DEF IdsOf
<1>6. IdsOf(st) = IdsOf(s) \cup IdsOf(t)
  <2>1. IdsOf(st) \subseteq IdsOf(s) \cup IdsOf(t)
    BY <1>4 DEF IdsOf
  <2>2. IdsOf(s) \cup IdsOf(t) \subseteq IdsOf(st)
    BY <1>2, <1>3 DEF IdsOf
  <2> QED
    BY <2>1, <2>2
<1>7. ASSUME Distinct(s), Distinct(t), IdsOf(s) \cap IdsOf(t) = {},
             NEW i \in 1..Len(st), NEW j \in 1..Len(st), i # j
      PROVE  st[i].control_id # st[j].control_id
  <2>1. CASE i \in 1..Len(s) /\ j \in 1..Len(s)
    BY <1>2, <1>7, <2>1 DEF Distinct
  <2>2. CASE i \in 1..Len(s) /\ j \notin 1..Len(s)
    BY <1>7, <1>5, <2>2
  <2>3. CASE i \notin 1..Len(s) /\ j \in 1..Len(s)
    BY <1>7, <1>5, <2>3
  <2>4. CASE i \notin 1..Len(s) /\ j \notin 1..Len(s)
    <3>1. i - Len(s) # j - Len(s)
      BY <1>1, <1>7
    <3> QED
      BY <1>4, <1>7, <2>4, <3>1 DEF Distinct
  <2> QED
    BY <2>1, <2>2, <2>3, <2>4
<1>8. Distinct(s) /\ Distinct(t) /\ IdsOf(s) \cap IdsOf(t) = {} => Distinct(st)
  BY <1>7 DEF Distinct
<1> QED
  BY <1>6, <1>8 DEF st

LEMMA OneId ==
  ASSUME NEW c
  PROVE  IdsOf(<<c>>) = {c.control_id} /\ Distinct(<<c>>) /\ IdsOf(<<>>) = {} /\ Distinct(<<>>)
  BY DEF IdsOf, Distinct

\* A document with fewer names than controls repeats one.
LEMMA RepeatsAreCounted ==
  ASSUME NEW d \in Documents, ~ (Cardinality(Names(d)) < Len(d.controls))
  PROVE  Distinct(d.controls)
<1> DEFINE n == Len(d.controls)
           f == [i \in 1..n |-> d.controls[i].control_id]
<1>0. ~ (Cardinality(Names(d)) < n)
  OBVIOUS
<1>1. n \in Nat
  BY DocumentTypes
<1>2. IsFiniteSet(1..n) /\ Cardinality(1..n) = n
  <2>1. 1 \in Int /\ n \in Int
    BY <1>1
  <2>2. IsFiniteSet(1..n) /\ Cardinality(1..n) = IF 1 > n THEN 0 ELSE n - 1 + 1
    BY <2>1, FS_Interval, Zenon
  <2> QED
    BY <1>1, <2>2
<1>3. f \in Surjection(1..n, Names(d))
  BY DEF Surjection, Names
<1> HIDE DEF f, n
<1>4. /\ IsFiniteSet(Names(d)) /\ Cardinality(Names(d)) <= Cardinality(1..n)
      /\ Cardinality(Names(d)) = Cardinality(1..n) => f \in Injection(1..n, Names(d))
  BY <1>2, <1>3, FS_Surjection
<1>5. Cardinality(Names(d)) \in Nat
  BY <1>4, FS_CardinalityType
<1>6. f \in Injection(1..n, Names(d))
  <2> DEFINE c == Cardinality(Names(d))
  <2>1. c \in Nat /\ c <= n /\ ~ (c < n)
    BY <1>0, <1>2, <1>4, <1>5
  <2> HIDE DEF c
  <2>2. c = n
    BY <1>1, <2>1
  <2> QED
    BY <1>2, <1>4, <2>2 DEF c
<1>7. \A i, j \in 1..n : f[i] = f[j] => i = j
  BY <1>6 DEF Injection, IsInjective
<1> QED
  BY <1>7 DEF f, n, Distinct

-----------------------------------------------------------------------------
LEMMA CatalogueInit == Init => CatalogueInv
<1> SUFFICES ASSUME Init PROVE CatalogueInv
  OBVIOUS
<1>1. /\ frameworks = <<>> /\ controls = <<>>
      /\ \A w \in Workers : req[w].phase = "idle"
  BY DEF Init, Idle
<1>2. RacesAreSeen
  BY <1>1 DEF RacesAreSeen
<1>3. RowsAreUniqueUnlessRaced /\ FrameworksAreWhole
  BY <1>1 DEF RowsAreUniqueUnlessRaced, FrameworksAreWhole
<1> QED
  BY <1>1, <1>2, <1>3 DEF CatalogueInv, InWork

LEMMA StillStands ==
  ASSUME NEW q, FoundStands(q), UNCHANGED <<frameworks, controls>>, crowded \subseteq crowded'
  PROVE  FoundStands(q)'
  BY DEF FoundStands, FrameworksOf, ControlsOf

LEMMA StillAdds ==
  ASSUME NEW q, AddsEach(q)
  PROVE  AddsEach(q)'
  BY DEF AddsEach, Names, IdsOf, Distinct

LEMMA RowsStandStill ==
  ASSUME CatalogueInv, UNCHANGED <<frameworks, controls, source, repeated>>,
         crowded \subseteq crowded'
  PROVE  RowsAreUniqueUnlessRaced' /\ FrameworksAreWhole'
<1>1. RowsAreUniqueUnlessRaced'
  BY DEF CatalogueInv, RowsAreUniqueUnlessRaced
<1>2. FrameworksAreWhole'
  BY DEF CatalogueInv, FrameworksAreWhole, ControlsOf
<1> QED
  BY <1>1, <1>2

\* A step that leaves the rows alone, and does not begin a document or look up
\* a control.
LEMMA QuietRequest ==
  ASSUME TypeOK, CatalogueInv, NEW w \in Workers, NEW q, q.phase # "looking",
         req' = [req EXCEPT ![w] = q],
         UNCHANGED <<frameworks, controls, source, crowded, repeated>>
  PROVE  CatalogueInv'
<1>1. \A v \in Workers : req'[v] = IF v = w THEN q ELSE req[v]
  BY DEF TypeOK
<1>2. RacesAreSeen'
  BY <1>1 DEF CatalogueInv, RacesAreSeen
<1>3. ASSUME NEW r \in InWork'
      PROVE  (FoundStands(r) /\ AddsEach(r))'
  <2>1. r \in InWork
    BY <1>1 DEF InWork
  <2> QED
    BY <2>1, StillStands, StillAdds DEF CatalogueInv
<1> QED
  BY <1>2, <1>3, RowsStandStill DEF CatalogueInv

LEMMA CatalogueStutter ==
  ASSUME CatalogueInv, UNCHANGED <<req, frameworks, controls, source, crowded, repeated>>
  PROVE  CatalogueInv'
<1>1. RacesAreSeen'
  BY DEF CatalogueInv, RacesAreSeen
<1>2. ASSUME NEW r \in InWork'
      PROVE  (FoundStands(r) /\ AddsEach(r))'
  <2>1. r \in InWork
    BY DEF InWork
  <2> QED
    BY <2>1, StillStands, StillAdds DEF CatalogueInv
<1> QED
  BY <1>1, <1>2, RowsStandStill DEF CatalogueInv

LEMMA FindKeepsCatalogue ==
  ASSUME TypeOK, CatalogueInv, NEW w \in Workers, NEW f \in 0..Len(frameworks),
         FindFramework(w, f)
  PROVE  CatalogueInv'
<1> DEFINE q == req[w]
           doc == Head(q.docs)
           new == [phase |-> "looking", kind |-> q.kind, docs |-> Tail(q.docs), doc |-> doc,
                   framework |-> f, todo |-> doc.controls, add |-> <<>>, fix |-> {}]
<1>1. /\ q.phase = "finding"
      /\ IF FrameworksOf(doc.key) = {} THEN f = New ELSE f \in FrameworksOf(doc.key)
      /\ req' = [req EXCEPT ![w] = new]
      /\ crowded' = IF WorkedOn(doc.key) THEN crowded \cup {doc.key} ELSE crowded
      /\ UNCHANGED <<frameworks, controls, source, repeated>>
  BY DEF FindFramework, catalogue
<1>2. \A v \in Workers : req'[v] = IF v = w THEN new ELSE req[v]
  BY <1>1 DEF TypeOK
<1>3. crowded \subseteq crowded'
  BY <1>1
<1>4. /\ new.phase = "looking" /\ new.doc = doc /\ new.framework = f
      /\ new.todo = doc.controls /\ new.add = <<>>
  OBVIOUS
<1> HIDE DEF q, doc, new
<1>5. RacesAreSeen'
  <2> SUFFICES ASSUME NEW u \in Workers, NEW v \in Workers, u # v,
                      req'[u].phase = "looking", req'[v].phase = "looking",
                      req'[u].doc.key = req'[v].doc.key
               PROVE  req'[v].doc.key \in crowded'
    BY DEF RacesAreSeen
  <2>1. CASE u # w /\ v # w
    BY <1>2, <1>3, <2>1 DEF CatalogueInv, RacesAreSeen
  <2>2. CASE u = w
    <3>1. req'[v] = req[v] /\ req'[u].doc.key = doc.key
      BY <1>2, <1>4, <2>2
    <3>2. WorkedOn(doc.key)
      BY <3>1 DEF WorkedOn
    <3> QED
      BY <1>1, <3>1, <3>2
  <2>3. CASE v = w
    <3>1. req'[u] = req[u] /\ req'[v].doc.key = doc.key
      BY <1>2, <1>4, <2>3
    <3>2. WorkedOn(doc.key)
      BY <3>1 DEF WorkedOn
    <3> QED
      BY <1>1, <3>1, <3>2
  <2> QED
    BY <2>1, <2>2, <2>3
<1>6. ASSUME NEW r \in InWork'
      PROVE  (FoundStands(r) /\ AddsEach(r))'
  <2>1. r \in InWork \/ r = new
    BY <1>2 DEF InWork
  <2>2. CASE r \in InWork
    BY <1>1, <1>3, <2>2, StillStands, StillAdds DEF CatalogueInv
  <2>3. CASE r = new
    <3>1. r.framework # New => frameworks'[r.framework] = r.doc.key
      BY <1>1, <1>4, <2>3 DEF FrameworksOf
    <3>2. r.framework = New => FrameworksOf(r.doc.key)' = {}
      BY <1>1, <1>4, <2>3 DEF FrameworksOf, New
    <3>3. Len(r.add) = 0
      BY <1>4, <2>3
    <3>4. FoundStands(r)'
      BY <3>1, <3>2, <3>3 DEF FoundStands
    <3>5. AddsEach(r)
      <4>1. Names(r.doc) = IdsOf(r.todo) /\ r.todo = r.doc.controls
        BY <1>4, <2>3 DEF Names, IdsOf
      <4>2. IdsOf(r.add) = {} /\ Distinct(r.add)
        BY <1>4, <2>3, OneId
      <4> QED
        BY <4>1, <4>2 DEF AddsEach
    <3> QED
      BY <3>4, <3>5, StillAdds
  <2> QED
    BY <2>1, <2>2, <2>3
<1> QED
  BY <1>1, <1>3, <1>5, <1>6, RowsStandStill DEF CatalogueInv

\* A control is looked up, and added if it is not there.
LEMMA LookUpKeepsCatalogue ==
  ASSUME TypeOK, CatalogueInv, NEW w \in Workers, NEW add, NEW fix,
         Looking(w), LookUp(w, add, fix),
         \/ add = <<>> /\ req[w].framework # New
         \/ /\ add = <<Head(req[w].todo)>>
            /\ ControlsOf(req[w].framework, Head(req[w].todo).control_id) = {}
  PROVE  CatalogueInv'
<1> DEFINE q == req[w]
           c == Head(q.todo)
           new == [q EXCEPT !.todo = Tail(@), !.add = @ \o add, !.fix = @ \cup fix]
<1>1. IsLooking(q) /\ q.todo # <<>> /\ q.phase = "looking"
  BY PhaseTypes DEF Looking
<1>2. /\ req' = [req EXCEPT ![w] = new]
      /\ UNCHANGED <<frameworks, controls, source, crowded, repeated>>
  BY DEF LookUp, catalogue
<1>3. /\ new.phase = "looking" /\ new.doc = q.doc /\ new.framework = q.framework
      /\ new.todo = Tail(q.todo) /\ new.add = q.add \o add
  BY <1>1 DEF IsLooking
<1>4. /\ q.todo \in Seq(Entries) /\ q.add \in Seq(Entries) /\ c \in Entries
      /\ add \in Seq(Entries)
  <2>1. q.todo \in Seq(Entries) /\ q.add \in Seq(Entries) /\ c \in Entries
    BY <1>1, Rest DEF IsLooking
  <2>2. <<>> \in Seq(Entries) /\ <<c>> \in Seq(Entries)
    BY <2>1
  <2>3. add = <<>> \/ add = <<c>>
    OBVIOUS
  <2> HIDE DEF c, q
  <2> QED
    BY <2>1, <2>2, <2>3
<1>5. FoundStands(q) /\ AddsEach(q)
  BY <1>1 DEF CatalogueInv, InWork
<1>6. \A v \in Workers : req'[v] = IF v = w THEN new ELSE req[v]
  BY <1>2 DEF TypeOK
<1>7. \/ add = <<>> /\ q.framework # New
      \/ add = <<c>> /\ ControlsOf(q.framework, c.control_id) = {}
  OBVIOUS
<1> HIDE DEF q, c, new
<1>8. IdsOf(q.add \o add) = IdsOf(q.add) \cup IdsOf(add)
  BY <1>4, ConcatIds
<1>9. IdsOf(q.todo) = IdsOf(Tail(q.todo)) \cup {c.control_id}
  BY <1>1, <1>4, TailIds DEF c
<1>10. (IdsOf(add) = {} /\ q.framework # New) \/ IdsOf(add) = {c.control_id}
  BY <1>7, OneId
<1>11. AddsEach(new)
  <2>1. new.framework = New => Names(new.doc) \subseteq IdsOf(new.add) \cup IdsOf(new.todo)
    BY <1>3, <1>5, <1>8, <1>9, <1>10 DEF AddsEach
  <2>2. ASSUME Distinct(new.doc.controls)
        PROVE  /\ Distinct(new.add) /\ Distinct(new.todo)
               /\ IdsOf(new.add) \cap IdsOf(new.todo) = {}
    <3>1. /\ Distinct(q.add) /\ Distinct(q.todo)
          /\ IdsOf(q.add) \cap IdsOf(q.todo) = {}
      BY <1>3, <1>5, <2>2 DEF AddsEach
    <3>2. Distinct(Tail(q.todo)) /\ c.control_id \notin IdsOf(Tail(q.todo))
      BY <1>1, <1>4, <3>1, TailIds DEF c
    <3>3. Distinct(add)
      BY <1>7, OneId
    <3>4. Distinct(q.add \o add)
      BY <1>4, <1>9, <1>10, <3>1, <3>3, ConcatIds
    <3> QED
      BY <1>3, <1>8, <1>9, <1>10, <3>1, <3>2, <3>4
  <2> QED
    BY <2>1, <2>2 DEF AddsEach
<1>12. FoundStands(new)
  <2>1. new.framework # New => frameworks[new.framework] = new.doc.key
    BY <1>3, <1>5 DEF FoundStands
  <2>2. ASSUME new.doc.key \notin crowded
        PROVE  new.framework = New => FrameworksOf(new.doc.key) = {}
    BY <1>3, <1>5, <2>2 DEF FoundStands
  <2>3. ASSUME new.doc.key \notin crowded, NEW i \in 1..Len(new.add)
        PROVE  ControlsOf(new.framework, new.add[i].control_id) = {}
    <3>1. new.add[i].control_id \in IdsOf(q.add) \cup IdsOf(add)
      BY <1>3, <1>8, <2>3 DEF IdsOf
    <3>2. CASE new.add[i].control_id \in IdsOf(q.add)
      BY <1>3, <1>5, <2>3, <3>2 DEF FoundStands, IdsOf
    <3>3. CASE new.add[i].control_id \in IdsOf(add)
      BY <1>3, <1>7, <3>3, OneId
    <3> QED
      BY <3>1, <3>2, <3>3
  <2> QED
    BY <2>1, <2>2, <2>3 DEF FoundStands
<1>13. RacesAreSeen'
  <2>1. \A v \in Workers : /\ req'[v].phase = "looking" <=> req[v].phase = "looking"
                           /\ req[v].phase = "looking" => req'[v].doc = req[v].doc
    BY <1>1, <1>3, <1>6 DEF q
  <2> QED
    BY <1>2, <2>1 DEF CatalogueInv, RacesAreSeen
<1>14. ASSUME NEW r \in InWork'
       PROVE  (FoundStands(r) /\ AddsEach(r))'
  <2>1. r \in InWork \/ r = new
    BY <1>6 DEF InWork
  <2>2. FoundStands(r) /\ AddsEach(r)
    BY <1>11, <1>12, <2>1 DEF CatalogueInv
  <2> QED
    BY <1>2, <2>2, StillStands, StillAdds
<1> QED
  BY <1>2, <1>13, <1>14, RowsStandStill DEF CatalogueInv

-----------------------------------------------------------------------------
LEMMA CommitKeepsCatalogue ==
  ASSUME TypeOK, CatalogueInv, NEW w \in Workers, CommitDocument(w)
  PROVE  CatalogueInv'
<1> DEFINE q == req[w]
           k == q.doc.key
           f == IF q.framework = New THEN Len(frameworks) + 1 ELSE q.framework
           n == Len(controls)
<1>1. /\ IsLooking(q)
      /\ f \in 1..Len(frameworks')
      /\ Len(frameworks') = IF q.framework = New THEN Len(frameworks) + 1 ELSE Len(frameworks)
      /\ \A g \in 1..Len(frameworks) : frameworks'[g] = frameworks[g]
      /\ q.framework = New => frameworks'[f] = k
      /\ Len(controls') = n + Len(q.add)
      /\ \A e \in 1..n : /\ controls'[e].framework = controls[e].framework
                         /\ controls'[e].control_id = controls[e].control_id
      /\ \A i \in 1..Len(q.add) :
           controls'[n + i] =
             [framework |-> f, control_id |-> q.add[i].control_id,
              sub_controls |-> q.add[i].sub_controls,
              required_tags |-> q.add[i].required_tags]
  BY CommittedRows
<1>2. /\ q.phase = "looking" /\ q.todo = <<>>
      /\ source' = IF q.framework = New THEN Append(source, Names(q.doc)) ELSE source
      /\ repeated' = IF Cardinality(Names(q.doc)) < Len(q.doc.controls)
                       THEN repeated \cup {k} ELSE repeated
      /\ req' = [req EXCEPT ![w] = AfterDocument(q)]
      /\ crowded' = crowded
  BY DEF CommitDocument
<1>3. /\ Len(frameworks) \in Nat /\ n \in Nat /\ Len(q.add) \in Nat
      /\ q.framework \in 0..Len(frameworks) /\ q.doc \in Documents
  BY <1>1 DEF TypeOK, IsLooking
<1>4. ASSUME NEW e \in 1..n
      PROVE  controls[e].framework \in 1..Len(frameworks)
  <2>1. controls[e] \in Rows
    BY DEF TypeOK
  <2> QED
    BY <2>1 DEF Rows
<1>5. AfterDocument(q).phase # "looking"
  BY DEF AfterDocument, Idle
<1>6. FoundStands(q) /\ AddsEach(q)
  BY <1>2 DEF CatalogueInv, InWork
<1>7. \A v \in Workers : req'[v] = IF v = w THEN AfterDocument(q) ELSE req[v]
  BY <1>2 DEF TypeOK
<1>8. f # New /\ (q.framework # New => f = q.framework /\ f \in 1..Len(frameworks))
      /\ (q.framework = New => f = Len(frameworks) + 1)
  BY <1>3 DEF New
<1> HIDE DEF q, k, f, n
<1>9. ASSUME NEW i \in 1..Len(q.add)
      PROVE  /\ controls'[n + i].framework = f
             /\ controls'[n + i].control_id = q.add[i].control_id
  <2>1. controls'[n + i] = [framework |-> f, control_id |-> q.add[i].control_id,
                            sub_controls |-> q.add[i].sub_controls,
                            required_tags |-> q.add[i].required_tags]
    BY <1>1
  <2> QED
    BY <2>1
<1>10. ASSUME NEW e \in 1..Len(controls'), e \notin 1..n
       PROVE  \E i \in 1..Len(q.add) : e = n + i
  <2>1. e - n \in 1..Len(q.add) /\ e = n + (e - n)
    BY <1>1, <1>3, <1>10
  <2> QED
    BY <2>1
<1>11. frameworks'[f] = k
  BY <1>1, <1>6, <1>8 DEF FoundStands, k
<1>12. ASSUME NEW g \in 1..Len(frameworks'), g \notin 1..Len(frameworks)
       PROVE  g = f /\ q.framework = New
  BY <1>1, <1>3, <1>8, <1>12
<1>13. RacesAreSeen'
  BY <1>2, <1>5, <1>7 DEF CatalogueInv, RacesAreSeen
<1>14. ASSUME NEW r \in InWork'
       PROVE  (FoundStands(r) /\ AddsEach(r))'
  <2>1. PICK v \in Workers : v # w /\ r = req[v] /\ r.phase = "looking"
    BY <1>5, <1>7 DEF InWork
  <2>2. FoundStands(r) /\ AddsEach(r)
    BY <2>1 DEF CatalogueInv, InWork
  <2>3. IsLooking(r)
    BY <2>1, PhaseTypes
  <2>4. r.framework \in 0..Len(frameworks)
    BY <2>3 DEF IsLooking
  <2>5. r.framework # New => frameworks'[r.framework] = r.doc.key
    BY <1>1, <2>2, <2>4 DEF FoundStands, New
  <2>6. ASSUME r.doc.key \notin crowded
        PROVE  /\ r.framework = New => FrameworksOf(r.doc.key)' = {}
               /\ \A i \in 1..Len(r.add) :
                    ControlsOf(r.framework, r.add[i].control_id)' = {}
    <3>1. r.doc.key # k
      BY <1>2, <2>1, <2>6 DEF CatalogueInv, RacesAreSeen, q, k
    <3>2. r.framework # f
      BY <1>8, <1>11, <2>4, <2>5, <3>1 DEF New
    <3>3. r.framework = New => FrameworksOf(r.doc.key)' = {}
      BY <1>1, <1>11, <1>12, <2>2, <2>6, <3>1 DEF FoundStands, FrameworksOf
    <3>4. ASSUME NEW i \in 1..Len(r.add), NEW e \in 1..Len(controls'),
                 controls'[e].framework = r.framework,
                 controls'[e].control_id = r.add[i].control_id
          PROVE  FALSE
      <4>1. e \in 1..n
        BY <1>9, <1>10, <3>2, <3>4
      <4>2. e \in ControlsOf(r.framework, r.add[i].control_id)
        BY <1>1, <3>4, <4>1 DEF ControlsOf, n
      <4> QED
        BY <2>2, <2>6, <4>2 DEF FoundStands
    <3>5. ASSUME NEW i \in 1..Len(r.add)
          PROVE  ControlsOf(r.framework, r.add[i].control_id)' = {}
      BY <3>4 DEF ControlsOf
    <3> QED
      BY <3>3, <3>5
  <2>7. FoundStands(r)'
    BY <1>2, <2>5, <2>6 DEF FoundStands
  <2> QED
    BY <2>2, <2>7, StillAdds
<1>15. FrameworksAreWhole'
  <2> SUFFICES ASSUME NEW g \in 1..Len(frameworks'), NEW c \in source'[g]
               PROVE  \E e \in 1..Len(controls') : /\ controls'[e].framework = g
                                                   /\ controls'[e].control_id = c
    BY DEF FrameworksAreWhole, ControlsOf
  <2>1. source \in Seq(SUBSET Ids) /\ Len(source) = Len(frameworks)
    BY DEF TypeOK
  <2>2. CASE g \in 1..Len(frameworks)
    <3>1. source'[g] = source[g]
      BY <1>2, <2>1, <2>2
    <3>2. PICK e \in 1..n : controls[e].framework = g /\ controls[e].control_id = c
      BY <2>2, <3>1 DEF CatalogueInv, FrameworksAreWhole, ControlsOf, n
    <3>3. e \in 1..Len(controls')
      BY <1>1, <1>3
    <3> QED
      BY <1>1, <3>2, <3>3
  <2>3. CASE g \notin 1..Len(frameworks)
    <3>1. g = f /\ q.framework = New /\ f = Len(frameworks) + 1
      BY <1>8, <1>12, <2>3
    <3>2. source'[g] = Names(q.doc)
      BY <1>2, <2>1, <3>1
    <3>3. c \in IdsOf(q.add)
      BY <1>2, <1>6, <3>1, <3>2, OneId DEF AddsEach
    <3>4. PICK i \in 1..Len(q.add) : c = q.add[i].control_id
      BY <3>3 DEF IdsOf
    <3>5. n + i \in 1..Len(controls')
      BY <1>1, <1>3
    <3> QED
      BY <1>9, <3>1, <3>4, <3>5
  <2> QED
    BY <2>2, <2>3
<1>16. ASSUME NEW g \in 1..Len(frameworks'), NEW h \in 1..Len(frameworks'), g # h,
              frameworks'[g] = frameworks'[h]
       PROVE  frameworks'[g] \in crowded'
  <2>1. ASSUME NEW a \in 1..Len(frameworks), q.framework = New, frameworks[a] = k
        PROVE  k \in crowded
    BY <1>6, <2>1 DEF FoundStands, FrameworksOf, k
  <2>2. CASE g \in 1..Len(frameworks) /\ h \in 1..Len(frameworks)
    BY <1>1, <1>2, <1>16, <2>2 DEF CatalogueInv, RowsAreUniqueUnlessRaced
  <2>3. CASE g \notin 1..Len(frameworks)
    <3>1. g = f /\ q.framework = New /\ h \in 1..Len(frameworks)
      BY <1>12, <1>16, <2>3
    <3> QED
      BY <1>1, <1>2, <1>11, <1>16, <2>1, <3>1
  <2>4. CASE h \notin 1..Len(frameworks)
    <3>1. h = f /\ q.framework = New /\ g \in 1..Len(frameworks)
      BY <1>12, <1>16, <2>4
    <3> QED
      BY <1>1, <1>2, <1>11, <1>16, <2>1, <3>1
  <2> QED
    BY <2>2, <2>3, <2>4
<1>17. ASSUME NEW d \in 1..n, NEW i \in 1..Len(q.add),
              controls[d].framework = f, controls[d].control_id = q.add[i].control_id
       PROVE  k \in crowded
  <2>1. f \in 1..Len(frameworks)
    BY <1>4, <1>17
  <2>2. f = q.framework
    BY <1>3, <1>8, <2>1
  <2>3. d \in ControlsOf(q.framework, q.add[i].control_id)
    BY <1>17, <2>2 DEF ControlsOf, n
  <2> QED
    BY <1>6, <2>3 DEF FoundStands, k
<1>18. ASSUME NEW i \in 1..Len(q.add), NEW j \in 1..Len(q.add), i # j,
              q.add[i].control_id = q.add[j].control_id
       PROVE  k \in repeated'
  <2>1. ~ Distinct(q.doc.controls)
    BY <1>6, <1>18 DEF AddsEach, Distinct
  <2> QED
    BY <1>2, <1>3, <2>1, RepeatsAreCounted
<1>19. ASSUME NEW d \in 1..Len(controls'), NEW e \in 1..Len(controls'), d # e,
              controls'[d].framework = controls'[e].framework,
              controls'[d].control_id = controls'[e].control_id
       PROVE  frameworks'[controls'[d].framework] \in crowded' \cup repeated'
  <2>1. CASE d \in 1..n /\ e \in 1..n
    <3>1. /\ controls[d].framework = controls[e].framework
          /\ controls[d].control_id = controls[e].control_id
      BY <1>1, <1>19, <2>1
    <3>2. frameworks[controls[d].framework] \in crowded \cup repeated
      BY <1>19, <2>1, <3>1 DEF CatalogueInv, RowsAreUniqueUnlessRaced, n
    <3>3. frameworks'[controls'[d].framework] = frameworks[controls[d].framework]
      BY <1>1, <1>4, <2>1
    <3> QED
      BY <1>2, <3>2, <3>3
  <2>2. CASE d \in 1..n /\ e \notin 1..n
    <3>1. PICK i \in 1..Len(q.add) : e = n + i
      BY <1>10, <2>2
    <3>2. controls[d].framework = f /\ controls[d].control_id = q.add[i].control_id
      BY <1>1, <1>9, <1>19, <2>2, <3>1
    <3>3. controls'[d].framework = f
      BY <1>1, <2>2, <3>2
    <3> QED
      BY <1>2, <1>11, <1>17, <2>2, <3>2, <3>3
  <2>3. CASE d \notin 1..n /\ e \in 1..n
    <3>1. PICK i \in 1..Len(q.add) : d = n + i
      BY <1>10, <2>3
    <3>2. controls[e].framework = f /\ controls[e].control_id = q.add[i].control_id
      BY <1>1, <1>9, <1>19, <2>3, <3>1
    <3>3. controls'[d].framework = f
      BY <1>9, <3>1
    <3> QED
      BY <1>2, <1>11, <1>17, <2>3, <3>2, <3>3
  <2>4. CASE d \notin 1..n /\ e \notin 1..n
    <3>1. PICK i \in 1..Len(q.add) : d = n + i
      BY <1>10, <2>4
    <3>2. PICK j \in 1..Len(q.add) : e = n + j
      BY <1>10, <2>4
    <3>3. i # j /\ q.add[i].control_id = q.add[j].control_id /\ controls'[d].framework = f
      BY <1>9, <1>19, <3>1, <3>2
    <3> QED
      BY <1>11, <1>18, <3>3
  <2> QED
    BY <2>1, <2>2, <2>3, <2>4
<1>20. RowsAreUniqueUnlessRaced'
  BY <1>16, <1>19 DEF RowsAreUniqueUnlessRaced
<1> QED
  BY <1>13, <1>14, <1>15, <1>20 DEF CatalogueInv

LEMMA CatalogueNext == TypeOK /\ CatalogueInv /\ [Next]_vars => CatalogueInv'
<1> SUFFICES ASSUME TypeOK, CatalogueInv, [Next]_vars
             PROVE  CatalogueInv'
  OBVIOUS
<1>1. ASSUME NEW w \in Workers, NEW u \in Uploads, BeginImport(w, u)
      PROVE  CatalogueInv'
  BY <1>1, QuietRequest DEF BeginImport, Begin, catalogue
<1>2. ASSUME NEW w \in Workers, BeginSeed(w)
      PROVE  CatalogueInv'
  BY <1>2, QuietRequest DEF BeginSeed, Begin, catalogue
<1>3. ASSUME NEW w \in Workers, SkipScript(w)
      PROVE  CatalogueInv'
  BY <1>3, QuietRequest DEF SkipScript, catalogue, Idle
<1>4. ASSUME NEW w \in Workers, AddControl(w)
      PROVE  CatalogueInv'
  <2> DEFINE q == req[w]
             add == IF q.kind = "seed" /\ q.framework # New THEN <<>> ELSE <<Head(q.todo)>>
  <2>1. /\ Looking(w) /\ LookUp(w, add, {})
        /\ ControlsOf(q.framework, Head(q.todo).control_id) = {}
    BY <1>4 DEF AddControl
  <2>2. \/ add = <<>> /\ q.framework # New
        \/ add = <<Head(q.todo)>>
    OBVIOUS
  <2> HIDE DEF add
  <2> QED
    BY <2>1, <2>2, LookUpKeepsCatalogue
<1>5. ASSUME NEW w \in Workers, NEW e \in 1..Len(controls), RefreshControl(w, e)
      PROVE  CatalogueInv'
  <2> DEFINE q == req[w]
             c == Head(q.todo)
             fix == IF Refreshes(q.kind, controls[e].sub_controls, c.sub_controls)
                      THEN {[row |-> e, sub_controls |-> c.sub_controls]} ELSE {}
  <2>1. Looking(w) /\ LookUp(w, <<>>, fix) /\ controls[e].framework = q.framework
    BY <1>5 DEF RefreshControl, ControlsOf
  <2>2. controls[e] \in Rows
    BY DEF TypeOK
  <2>3. q.framework # New
    BY <2>1, <2>2 DEF Rows, New
  <2> HIDE DEF fix
  <2> QED
    BY <2>1, <2>3, LookUpKeepsCatalogue
<1>6. ASSUME NEW w \in Workers, LookForTools(w)
      PROVE  CatalogueInv'
  BY <1>6, QuietRequest DEF LookForTools, catalogue
<1>7. ASSUME NEW w \in Workers, CommitTools(w)
      PROVE  CatalogueInv'
  BY <1>7, QuietRequest DEF CommitTools
<1>8. ASSUME NEW w \in Workers, FindPairs(w)
      PROVE  CatalogueInv'
  BY <1>8, QuietRequest DEF FindPairs, catalogue
<1>9. ASSUME NEW w \in Workers, CommitPairs(w)
      PROVE  CatalogueInv'
  BY <1>9, QuietRequest DEF CommitPairs, Idle
<1>10. ASSUME NEW w \in Workers, Abandon(w)
       PROVE  CatalogueInv'
  BY <1>10, QuietRequest DEF Abandon, catalogue, Idle
<1>11. ASSUME InstallRelease \/ UNCHANGED vars
       PROVE  CatalogueInv'
  BY <1>11, CatalogueStutter DEF InstallRelease, catalogue, vars
<1> QED
  BY <1>1, <1>2, <1>3, <1>4, <1>5, <1>6, <1>7, <1>8, <1>9, <1>10, <1>11,
     FindKeepsCatalogue, CommitKeepsCatalogue DEF Next

\* The inductive invariant: without a race what a request has looked for and not
\* found is still not there when it commits, and a new framework gets each
\* control of its document.
THEOREM CatalogueInvariant == Spec => []CatalogueInv
  BY CatalogueInit, CatalogueNext, TypeCorrect, PTL DEF Spec

\* Two frameworks of one name and version, or two controls of one name in a
\* framework, come of a race of import_cis_xlsx, import_nist_csf_xlsx, seed.py and
\* import_cis.py on it, or of a workbook that repeats a row.
THEOREM RowsAreUnique == Spec => []RowsAreUniqueUnlessRaced
<1>1. CatalogueInv => RowsAreUniqueUnlessRaced
  BY DEF CatalogueInv
<1> QED
  BY <1>1, CatalogueInvariant, PTL

\* A framework has every control of the document that it was made of, wherever
\* the import or the seeding was stopped.
THEOREM NothingIsHalfImported == Spec => []FrameworksAreWhole
<1>1. CatalogueInv => FrameworksAreWhole
  BY DEF CatalogueInv
<1> QED
  BY <1>1, CatalogueInvariant, PTL

-----------------------------------------------------------------------------
(***************************************************************************)
(* The crosswalk                                                           *)
(***************************************************************************)

\* The pairs that are linked share a tag, and no pair is missing among the
\* controls that a linking has read.
LinksInv ==
  /\ links \subseteq RelatedPairs
  /\ \A p \in RelatedPairs : p[1] <= linked /\ p[2] <= linked => p \in links
  /\ \A w \in Workers : req[w].phase = "storing" =>
       /\ req[w].pairs \subseteq RelatedPairs
       /\ \A p \in RelatedPairs :
            p[1] <= req[w].upto /\ p[2] <= req[w].upto => p \in req[w].pairs \cup links

\* Neither rows nor links change, and nobody has looked for pairs.
LEMMA QuietLinks ==
  ASSUME TypeOK, LinksInv, UNCHANGED <<controls, links, linked>>,
         \A v \in Workers : req'[v].phase = "storing" => req'[v] = req[v]
  PROVE  LinksInv'
  BY DEF LinksInv, RelatedPairs, Shares

LEMMA QuietLinksRequest ==
  ASSUME TypeOK, LinksInv, NEW w \in Workers, NEW q, q.phase # "storing",
         req' = [req EXCEPT ![w] = q],
         UNCHANGED <<controls, links, linked>>
  PROVE  LinksInv'
<1>1. \A v \in Workers : req'[v] = IF v = w THEN q ELSE req[v]
  BY DEF TypeOK
<1> QED
  BY <1>1, QuietLinks

LEMMA LookUpKeepsLinks ==
  ASSUME TypeOK, LinksInv, NEW w \in Workers, NEW add, NEW fix,
         Looking(w), LookUp(w, add, fix)
  PROVE  LinksInv'
<1> DEFINE new == [req[w] EXCEPT !.todo = Tail(@), !.add = @ \o add, !.fix = @ \cup fix]
<1>1. IsLooking(req[w])
  BY PhaseTypes DEF Looking
<1>2. new.phase = "looking"
  BY <1>1 DEF IsLooking
<1>3. req' = [req EXCEPT ![w] = new] /\ UNCHANGED <<controls, links, linked>>
  BY DEF LookUp, catalogue
<1> HIDE DEF new
<1> QED
  BY <1>2, <1>3, QuietLinksRequest

\* Rows are added at the end, and framework and tags of a row never change.
LEMMA CommitKeepsLinks ==
  ASSUME TypeOK, LinksInv, NEW w \in Workers, CommitDocument(w)
  PROVE  LinksInv'
<1> DEFINE n == Len(controls)
<1>1. /\ Len(controls') = n + Len(req[w].add) /\ IsLooking(req[w])
      /\ \A e \in 1..n : /\ controls'[e].framework = controls[e].framework
                         /\ controls'[e].required_tags = controls[e].required_tags
  BY CommittedRows
<1>2. n \in Nat /\ Len(req[w].add) \in Nat
  BY <1>1 DEF TypeOK, IsLooking
<1>3. 1..n \subseteq 1..Len(controls')
  BY <1>1, <1>2
<1> HIDE DEF n
<1>4. ASSUME NEW i \in 1..n, NEW j \in 1..n
      PROVE  Shares(i, j)' <=> Shares(i, j)
  BY <1>1 DEF Shares
<1>5. RelatedPairs \subseteq RelatedPairs'
  BY <1>3, <1>4 DEF RelatedPairs, n
<1>6. ASSUME NEW p \in RelatedPairs', p[1] \in 1..n, p[2] \in 1..n
      PROVE  p \in RelatedPairs
  BY <1>4, <1>6 DEF RelatedPairs, n
<1>7. ASSUME NEW p \in RelatedPairs', NEW m \in 0..n, p[1] <= m, p[2] <= m
      PROVE  p \in RelatedPairs
  <2>1. p[1] \in 1..Len(controls') /\ p[2] \in 1..Len(controls')
    BY DEF RelatedPairs
  <2>2. p[1] \in 1..n /\ p[2] \in 1..n
    BY <1>1, <1>2, <1>7, <2>1
  <2> QED
    BY <1>6, <2>2
<1>8. UNCHANGED <<links, linked>> /\ linked \in 0..n
  BY DEF CommitDocument, TypeOK, n
<1>9. ASSUME NEW v \in Workers, req'[v].phase = "storing"
      PROVE  req'[v] = req[v] /\ req[v].upto \in 0..n
  <2>1. AfterDocument(req[w]).phase # "storing"
    BY DEF AfterDocument, Idle
  <2>2. req'[v] = IF v = w THEN AfterDocument(req[w]) ELSE req[v]
    BY DEF CommitDocument, TypeOK
  <2>3. req'[v] = req[v]
    BY <1>9, <2>1, <2>2
  <2> QED
    BY <1>9, <2>3, PhaseTypes DEF n
<1>10. links' \subseteq RelatedPairs'
  BY <1>5, <1>8 DEF LinksInv
<1>11. \A p \in RelatedPairs' : p[1] <= linked' /\ p[2] <= linked' => p \in links'
  BY <1>7, <1>8 DEF LinksInv
<1>12. ASSUME NEW v \in Workers, req'[v].phase = "storing"
       PROVE  /\ req'[v].pairs \subseteq RelatedPairs'
              /\ \A p \in RelatedPairs' :
                   p[1] <= req'[v].upto /\ p[2] <= req'[v].upto
                     => p \in req'[v].pairs \cup links'
  BY <1>5, <1>7, <1>8, <1>9, <1>12 DEF LinksInv
<1> QED
  BY <1>10, <1>11, <1>12 DEF LinksInv

LEMMA LinksNext == TypeOK /\ LinksInv /\ [Next]_vars => LinksInv'
<1> SUFFICES ASSUME TypeOK, LinksInv, [Next]_vars
             PROVE  LinksInv'
  OBVIOUS
<1>1. ASSUME NEW w \in Workers, NEW u \in Uploads, BeginImport(w, u)
      PROVE  LinksInv'
  BY <1>1, QuietLinksRequest DEF BeginImport, Begin, catalogue
<1>2. ASSUME NEW w \in Workers, BeginSeed(w)
      PROVE  LinksInv'
  BY <1>2, QuietLinksRequest DEF BeginSeed, Begin, catalogue
<1>3. ASSUME NEW w \in Workers, NEW f \in 0..Len(frameworks), FindFramework(w, f)
      PROVE  LinksInv'
  BY <1>3, QuietLinksRequest DEF FindFramework, catalogue
<1>4. ASSUME NEW w \in Workers, SkipScript(w) \/ Abandon(w)
      PROVE  LinksInv'
  BY <1>4, QuietLinksRequest DEF SkipScript, Abandon, catalogue, Idle
<1>5. ASSUME NEW w \in Workers, AddControl(w)
      PROVE  LinksInv'
  BY <1>5, LookUpKeepsLinks DEF AddControl
<1>6. ASSUME NEW w \in Workers, NEW e \in 1..Len(controls), RefreshControl(w, e)
      PROVE  LinksInv'
  BY <1>6, LookUpKeepsLinks DEF RefreshControl
<1>7. ASSUME NEW w \in Workers, LookForTools(w) \/ CommitTools(w)
      PROVE  LinksInv'
  BY <1>7, QuietLinksRequest DEF LookForTools, CommitTools, catalogue
<1>8. ASSUME NEW w \in Workers, FindPairs(w)
      PROVE  LinksInv'
  <2> DEFINE new == [phase |-> "storing", pairs |-> RelatedPairs \ links, upto |-> Len(controls)]
  <2>1. \A v \in Workers : req'[v] = IF v = w THEN new ELSE req[v]
    BY <1>8 DEF FindPairs, TypeOK
  <2>2. UNCHANGED <<controls, links, linked>>
    BY <1>8 DEF FindPairs, catalogue
  <2>3. RelatedPairs' = RelatedPairs
    BY <2>2 DEF RelatedPairs, Shares
  <2>4. /\ new.pairs \subseteq RelatedPairs
        /\ \A p \in RelatedPairs : p \in new.pairs \cup links
    OBVIOUS
  <2> HIDE DEF new
  <2> QED
    BY <2>1, <2>2, <2>3, <2>4 DEF LinksInv
<1>9. ASSUME NEW w \in Workers, CommitPairs(w)
      PROVE  LinksInv'
  <2> DEFINE q == req[w]
  <2>1. /\ q.phase = "storing" /\ links' = links \cup q.pairs
        /\ linked' = IF q.upto > linked THEN q.upto ELSE linked
        /\ UNCHANGED controls
    BY <1>9 DEF CommitPairs
  <2>2. RelatedPairs' = RelatedPairs
    BY <2>1 DEF RelatedPairs, Shares
  <2>3. ASSUME NEW v \in Workers, req'[v].phase = "storing"
        PROVE  req'[v] = req[v]
    BY <1>9, <2>3 DEF CommitPairs, TypeOK, Idle
  <2>4. q.pairs \subseteq RelatedPairs
    BY <2>1 DEF LinksInv
  <2>5. \A p \in RelatedPairs : p[1] <= linked' /\ p[2] <= linked' => p \in links'
    BY <2>1 DEF LinksInv
  <2> QED
    BY <2>1, <2>2, <2>3, <2>4, <2>5 DEF LinksInv
<1>10. ASSUME InstallRelease \/ UNCHANGED vars
       PROVE  LinksInv'
  BY <1>10, QuietLinks DEF InstallRelease, catalogue, vars
<1> QED
  BY <1>1, <1>2, <1>3, <1>4, <1>5, <1>6, <1>7, <1>8, <1>9, <1>10, CommitKeepsLinks DEF Next

LEMMA LinksTell ==
  ASSUME TypeOK, LinksInv
  PROVE  CrosswalkIsComplete
<1> SUFFICES ASSUME NEW f \in 1..Len(frameworks), NEW g \in 1..Len(frameworks), f # g
             PROVE  LET told == ExplicitMappings(f, g)
                                  \cup {<<p[2], p[1]>> : p \in ExplicitMappings(g, f)}
                        related == {p \in (1..Len(controls)) \X (1..Len(controls)) :
                                      /\ controls[p[1]].framework = f
                                      /\ controls[p[2]].framework = g
                                      /\ Shares(p[1], p[2])}
                    IN /\ told \subseteq related
                       /\ \A p \in related : p[1] <= linked /\ p[2] <= linked => p \in told
                       /\ \A p \in ExplicitMappings(f, g) :
                            <<p[2], p[1]>> \notin ExplicitMappings(g, f)
  BY DEF CrosswalkIsComplete
<1> DEFINE told == ExplicitMappings(f, g) \cup {<<p[2], p[1]>> : p \in ExplicitMappings(g, f)}
           related == {p \in (1..Len(controls)) \X (1..Len(controls)) :
                         /\ controls[p[1]].framework = f
                         /\ controls[p[2]].framework = g
                         /\ Shares(p[1], p[2])}
<1>1. \A i, j : Shares(i, j) <=> Shares(j, i)
  BY DEF Shares
<1>2. \A p \in links : /\ p = <<p[1], p[2]>> /\ p[1] < p[2] /\ Shares(p[1], p[2])
                       /\ p[1] \in 1..Len(controls) /\ p[2] \in 1..Len(controls)
  BY DEF LinksInv, RelatedPairs
<1>3. told \subseteq related
  BY <1>1, <1>2 DEF ExplicitMappings
<1>4. ASSUME NEW p \in related, p[1] <= linked, p[2] <= linked
      PROVE  p \in told
  <2>1. PICK i \in 1..Len(controls), j \in 1..Len(controls) :
          /\ p = <<i, j>> /\ controls[i].framework = f /\ controls[j].framework = g
          /\ Shares(i, j)
    OBVIOUS
  <2>2. CASE i < j
    <3>1. <<i, j>> \in links
      BY <1>4, <2>1, <2>2 DEF LinksInv, RelatedPairs
    <3>2. <<i, j>> \in ExplicitMappings(f, g)
      BY <2>1, <3>1 DEF ExplicitMappings
    <3> QED
      BY <2>1, <3>2
  <2>3. CASE j < i
    <3>1. <<j, i>> \in RelatedPairs
      BY <1>1, <2>1, <2>3 DEF RelatedPairs
    <3>2. <<j, i>> \in links
      BY <1>4, <2>1, <3>1 DEF LinksInv
    <3>3. <<j, i>> \in ExplicitMappings(g, f)
      BY <2>1, <3>2 DEF ExplicitMappings
    <3> QED
      BY <2>1, <3>3
  <2>4. i # j
    BY <2>1
  <2> QED
    BY <2>2, <2>3, <2>4
<1>5. ASSUME NEW p \in ExplicitMappings(f, g), <<p[2], p[1]>> \in ExplicitMappings(g, f)
      PROVE  FALSE
  BY <1>2, <1>5 DEF ExplicitMappings
<1> QED
  BY <1>3, <1>4, <1>5

\* The two directions of get_crosswalk report each pair that shares a tag once,
\* among the controls that the last seed_crosswalks could see, and no other pair.
THEOREM CrosswalkIsWhole == Spec => []CrosswalkIsComplete
<1>1. Init => LinksInv
  <2> SUFFICES ASSUME Init PROVE LinksInv
    OBVIOUS
  <2>1. links = {} /\ controls = <<>> /\ \A w \in Workers : req[w].phase = "idle"
    BY DEF Init, Idle
  <2>2. RelatedPairs = {}
    BY <2>1 DEF RelatedPairs
  <2> QED
    BY <2>1, <2>2 DEF LinksInv
<1>2. TypeOK /\ LinksInv => CrosswalkIsComplete
  BY LinksTell
<1> QED
  BY <1>1, <1>2, LinksNext, TypeCorrect, PTL DEF Spec

-----------------------------------------------------------------------------
(***************************************************************************)
(* Seeding again                                                           *)
(***************************************************************************)
Members(s) == {s[i] : i \in 1..Len(s)}

Files == Members(SeedData[release])

\* A control of a seed file has its sub-controls in framework f, if it is there.
AsGiven(f, c) ==
  \/ c.sub_controls = NoSubs
  \/ \A e \in ControlsOf(f, c.control_id) : controls[e].sub_controls = c.sub_controls

\* The framework of a seed file is there, and its controls are as given.
InPlace(d) ==
  \E f \in FrameworksOf(d.key) : \A c \in Members(d.controls) : AsGiven(f, c)

\* A request that has found everything in place.
FindsNothing(q) ==
  /\ q.phase \in {"finding", "looking"} => q.kind = "seed" /\ Members(q.docs) \subseteq Files
  /\ q.phase = "looking" =>
       /\ q.doc \in Files
       /\ Members(q.todo) \subseteq Members(q.doc.controls)
       /\ q.framework # New /\ q.add = <<>> /\ q.fix = {}
  /\ q.phase = "adding" => q.missing = {}
  /\ q.phase = "storing" => q.pairs = {}

SettledInv ==
  settled /\ ~Twins =>
    /\ \A d \in Files : InPlace(d)
    /\ Tools \subseteq tools
    /\ RelatedPairs \subseteq links
    /\ \A q \in {req[w] : w \in Workers} : FindsNothing(q)

\* What a seeding has found out about one file: the controls that are not to do
\* any more are as given, or will be when it commits.
HasLookedUp(q) ==
  /\ Members(q.todo) \subseteq Members(q.doc.controls)
  /\ q.framework = New => Members(q.add) \subseteq Members(q.doc.controls)
  /\ q.framework # New =>
       /\ q.add = <<>>
       /\ \A c \in Members(q.doc.controls) \ Members(q.todo) :
            \/ c.sub_controls = NoSubs
            \/ \A e \in ControlsOf(q.framework, c.control_id) :
                 \/ controls[e].sub_controls = c.sub_controls
                 \/ \E x \in q.fix : x.row = e
  /\ \A x \in q.fix : \E c \in Members(q.doc.controls) :
       /\ x.row \in ControlsOf(q.framework, c.control_id)
       /\ x.sub_controls = c.sub_controls

\* What an undisturbed seeding has done stays done.
HasSeeded(q) ==
  /\ q.phase \in {"finding", "looking"} => Members(q.docs) \subseteq Files
  /\ q.phase = "finding" => \A d \in Files \ Members(q.docs) : InPlace(d)
  /\ q.phase = "looking" =>
       /\ q.doc \in Files
       /\ \A d \in Files \ (Members(q.docs) \cup {q.doc}) : InPlace(d)
       /\ HasLookedUp(q)
  /\ q.phase \notin {"finding", "looking"} => \A d \in Files : InPlace(d)
  /\ q.phase = "adding" => q.missing = Tools \ tools
  /\ q.phase \in {"linking", "storing"} => Tools \subseteq tools
  /\ q.phase = "storing" => RelatedPairs \subseteq q.pairs \cup links

SeedingInv ==
  \A w \in seeding :
    /\ req[w] # Idle
    /\ req[w].phase \in {"finding", "looking"} => req[w].kind = "seed"
    /\ \A v \in Workers : v # w => req[v] = Idle
    /\ ~Twins => HasSeeded(req[w])

-----------------------------------------------------------------------------
LEMMA MembersTail ==
  ASSUME NEW S, NEW s \in Seq(S), s # <<>>
  PROVE  Members(s) = Members(Tail(s)) \cup {Head(s)}
<1>1. /\ Len(s) \in Nat \ {0}
      /\ Head(s) = s[1] /\ Len(Tail(s)) = Len(s) - 1
      /\ \A i \in 1..Len(Tail(s)) : Tail(s)[i] = s[i + 1]
  BY EmptySeq, HeadTailProperties
<1>2. ASSUME NEW i \in 1..Len(s)
      PROVE  s[i] \in Members(Tail(s)) \cup {s[1]}
  <2>1. CASE i = 1
    BY <2>1
  <2>2. CASE i # 1
    <3>1. i - 1 \in 1..Len(Tail(s)) /\ (i - 1) + 1 = i
      BY <1>1, <2>2
    <3>2. Tail(s)[i - 1] = s[i]
      BY <1>1, <3>1
    <3> QED
      BY <3>1, <3>2 DEF Members
  <2> QED
    BY <2>1, <2>2
<1>3. ASSUME NEW i \in 1..Len(Tail(s))
      PROVE  Tail(s)[i] \in Members(s)
  <2>1. i + 1 \in 1..Len(s)
    BY <1>1
  <2> QED
    BY <1>1, <2>1 DEF Members
<1>4. s[1] \in Members(s)
  BY <1>1 DEF Members
<1>5. Members(s) \subseteq Members(Tail(s)) \cup {Head(s)}
  BY <1>1, <1>2 DEF Members
<1>6. Members(Tail(s)) \subseteq Members(s)
  BY <1>3 DEF Members
<1> QED
  BY <1>1, <1>4, <1>5, <1>6

LEMMA MembersConcat ==
  ASSUME NEW S, NEW s \in Seq(S), NEW t \in Seq(S)
  PROVE  Members(s \o t) \subseteq Members(s) \cup Members(t)
<1>1. /\ Len(s) \in Nat /\ Len(t) \in Nat /\ Len(s \o t) = Len(s) + Len(t)
      /\ \A i \in 1..Len(s) + Len(t) :
           (s \o t)[i] = IF i <= Len(s) THEN s[i] ELSE t[i - Len(s)]
  BY ConcatProperties
<1>2. ASSUME NEW i \in 1..Len(s \o t)
      PROVE  (s \o t)[i] \in Members(s) \cup Members(t)
  <2>1. CASE i <= Len(s)
    BY <1>1, <2>1 DEF Members
  <2>2. CASE ~ (i <= Len(s))
    <3>1. i - Len(s) \in 1..Len(t)
      BY <1>1, <2>2
    <3> QED
      BY <1>1, <2>2, <3>1 DEF Members
  <2> QED
    BY <2>1, <2>2
<1> QED
  BY <1>2 DEF Members

LEMMA NoMembers == Members(<<>>) = {}
  BY DEF Members

LEMMA OneMember == ASSUME NEW c PROVE Members(<<c>>) = {c}
  BY DEF Members

\* The files of a release are documents of different frameworks.
LEMMA FilesDiffer ==
  ASSUME TypeOK, NEW d \in Files
  PROVE  /\ d \in Documents /\ d.controls \in Seq(Entries)
         /\ \A e \in Files : d.key = e.key => d = e
         /\ \A a, b \in Members(d.controls) : a.control_id = b.control_id => a = b
<1> DEFINE s == SeedData[release]
<1>1. s \in Seq(Documents) \ {<<>>} /\ release \in DOMAIN SeedData
  BY DocumentsOfSeeds DEF TypeOK
<1>2. DOMAIN s = 1..Len(s)
  BY <1>1
<1>3. PICK n \in DOMAIN s : d = s[n]
  BY <1>2 DEF Files, Members
<1>4. d \in Documents
  BY <1>1, <1>2, <1>3
<1>5. d.controls \in Seq(Entries)
  BY <1>4, DocumentTypes
<1>6. \A i, j \in DOMAIN s : i # j => s[i].key # s[j].key
  BY <1>1, CatalogueAssumption
<1>7. \A i, j \in DOMAIN d.controls :
        i # j => d.controls[i].control_id # d.controls[j].control_id
  BY <1>1, <1>3, CatalogueAssumption
<1>8. DOMAIN d.controls = 1..Len(d.controls)
  BY <1>5
<1> HIDE DEF s
<1>9. ASSUME NEW e \in Files, d.key = e.key
      PROVE  d = e
  <2>1. PICK m \in DOMAIN s : e = s[m]
    BY <1>2 DEF Files, Members, s
  <2> QED
    BY <1>3, <1>6, <1>9, <2>1
<1>10. ASSUME NEW a \in Members(d.controls), NEW b \in Members(d.controls),
              a.control_id = b.control_id
       PROVE  a = b
  BY <1>7, <1>8, <1>10 DEF Members
<1> QED
  BY <1>4, <1>5, <1>9, <1>10

-----------------------------------------------------------------------------
\* Rows do not go away, and keep their names.
LEMMA TwinsStay ==
  ASSUME TypeOK, NEW w \in Workers, CommitDocument(w), Twins
  PROVE  Twins'
<1>1. /\ Len(frameworks') = IF req[w].framework = New THEN Len(frameworks) + 1
                            ELSE Len(frameworks)
      /\ \A g \in 1..Len(frameworks) : frameworks'[g] = frameworks[g]
      /\ Len(controls') = Len(controls) + Len(req[w].add)
      /\ \A e \in 1..Len(controls) : /\ controls'[e].framework = controls[e].framework
                                     /\ controls'[e].control_id = controls[e].control_id
      /\ IsLooking(req[w])
  BY CommittedRows
<1>2. /\ Len(frameworks) \in Nat /\ Len(controls) \in Nat /\ Len(req[w].add) \in Nat
  BY <1>1 DEF TypeOK, IsLooking
<1>3. 1..Len(frameworks) \subseteq 1..Len(frameworks')
  BY <1>1, <1>2
<1>4. 1..Len(controls) \subseteq 1..Len(controls')
  BY <1>1, <1>2
<1>5. ASSUME NEW f \in 1..Len(frameworks), NEW g \in 1..Len(frameworks), f # g,
             frameworks[f] = frameworks[g]
      PROVE  Twins'
  <2>1. frameworks'[f] = frameworks'[g]
    BY <1>1, <1>5
  <2> QED
    BY <1>3, <1>5, <2>1 DEF Twins
<1>6. ASSUME NEW i \in 1..Len(controls), NEW j \in 1..Len(controls), i # j,
             controls[i].framework = controls[j].framework,
             controls[i].control_id = controls[j].control_id
      PROVE  Twins'
  <2>1. /\ controls'[i].framework = controls'[j].framework
        /\ controls'[i].control_id = controls'[j].control_id
    BY <1>1, <1>6
  <2> QED
    BY <1>4, <1>6, <2>1 DEF Twins
<1> QED
  BY <1>5, <1>6 DEF Twins

\* Nothing that the invariants look at has changed.
LEMMA InPlaceStill ==
  ASSUME NEW d, UNCHANGED <<frameworks, controls>>
  PROVE  InPlace(d)' <=> InPlace(d)
  BY DEF InPlace, FrameworksOf, ControlsOf, AsGiven, Members

LEMMA FilesStill ==
  ASSUME UNCHANGED release
  PROVE  Files' = Files
  BY DEF Files, Members

LEMMA TwinsStill ==
  ASSUME UNCHANGED <<frameworks, controls>>
  PROVE  Twins' <=> Twins
  BY DEF Twins

LEMMA RelatedStill ==
  ASSUME UNCHANGED controls
  PROVE  RelatedPairs' = RelatedPairs
  BY DEF RelatedPairs, Shares

LEMMA FindsNothingStill ==
  ASSUME NEW q, FindsNothing(q), UNCHANGED release
  PROVE  FindsNothing(q)'
<1>1. Files' = Files
  BY FilesStill
<1> QED
  BY <1>1 DEF FindsNothing, Members

LEMMA HasLookedUpStill ==
  ASSUME NEW q, HasLookedUp(q), UNCHANGED controls
  PROVE  HasLookedUp(q)'
  BY DEF HasLookedUp, ControlsOf, Members

LEMMA HasSeededStill ==
  ASSUME NEW q, HasSeeded(q), UNCHANGED <<frameworks, controls, tools, links, release>>
  PROVE  HasSeeded(q)'
<1>1. Files' = Files /\ RelatedPairs' = RelatedPairs
  BY FilesStill, RelatedStill
<1>2. \A d \in Files : InPlace(d)' <=> InPlace(d)
  BY InPlaceStill
<1>3. q.phase = "looking" => HasLookedUp(q)'
  BY HasLookedUpStill DEF HasSeeded
<1>4. q.phase \in {"finding", "looking"} => (Members(q.docs) \subseteq Files)'
  BY <1>1 DEF HasSeeded, Members
<1>5. q.phase = "finding" => (\A d \in Files \ Members(q.docs) : InPlace(d))'
  BY <1>1, <1>2 DEF HasSeeded, Members
<1>6. q.phase = "looking" =>
        (q.doc \in Files /\ \A d \in Files \ (Members(q.docs) \cup {q.doc}) : InPlace(d))'
  BY <1>1, <1>2 DEF HasSeeded, Members
<1>7. q.phase \notin {"finding", "looking"} => (\A d \in Files : InPlace(d))'
  BY <1>1, <1>2 DEF HasSeeded
<1>8. /\ q.phase = "adding" => q.missing = Tools \ tools'
      /\ q.phase \in {"linking", "storing"} => Tools \subseteq tools'
      /\ q.phase = "storing" => RelatedPairs' \subseteq q.pairs \cup links'
  BY <1>1 DEF HasSeeded
<1> QED
  BY <1>3, <1>4, <1>5, <1>6, <1>7, <1>8 DEF HasSeeded

\* The commit of one file leaves those of the others in place.
LEMMA InPlaceStays ==
  ASSUME TypeOK, NEW w \in Workers, CommitDocument(w), FoundStands(req[w]),
         HasLookedUp(req[w]), NEW d, InPlace(d), d.key # req[w].doc.key
  PROVE  InPlace(d)'
<1> DEFINE q == req[w]
           f == IF q.framework = New THEN Len(frameworks) + 1 ELSE q.framework
           n == Len(controls)
<1>1. /\ IsLooking(q)
      /\ Len(frameworks') = IF q.framework = New THEN Len(frameworks) + 1 ELSE Len(frameworks)
      /\ \A g \in 1..Len(frameworks) : frameworks'[g] = frameworks[g]
      /\ Len(controls') = n + Len(q.add)
      /\ \A e \in 1..n : /\ controls'[e].framework = controls[e].framework
                         /\ controls'[e].control_id = controls[e].control_id
      /\ \A e \in 1..n : (\A x \in q.fix : x.row # e) => controls'[e] = controls[e]
      /\ \A i \in 1..Len(q.add) :
           controls'[n + i] =
             [framework |-> f, control_id |-> q.add[i].control_id,
              sub_controls |-> q.add[i].sub_controls,
              required_tags |-> q.add[i].required_tags]
  BY CommittedRows
<1>2. Len(frameworks) \in Nat /\ n \in Nat /\ Len(q.add) \in Nat
  BY <1>1 DEF TypeOK, IsLooking
<1>3. PICK g \in FrameworksOf(d.key) : \A c \in Members(d.controls) : AsGiven(g, c)
  BY DEF InPlace
<1>4. g \in 1..Len(frameworks) /\ frameworks[g] = d.key
  BY <1>3 DEF FrameworksOf
<1>5. g # f /\ g # q.framework
  BY <1>2, <1>4 DEF FoundStands, New
<1>9. ASSUME NEW i \in 1..Len(q.add)
      PROVE  controls'[n + i].framework = f
  <2>1. controls'[n + i] =
          [framework |-> f, control_id |-> q.add[i].control_id,
           sub_controls |-> q.add[i].sub_controls,
           required_tags |-> q.add[i].required_tags]
    BY <1>1
  <2> HIDE DEF q, f
  <2> QED
    BY <2>1
<1>6. g \in FrameworksOf(d.key)'
  BY <1>1, <1>2, <1>4 DEF FrameworksOf
<1>7. ASSUME NEW c \in Members(d.controls), c.sub_controls # NoSubs,
             NEW e \in ControlsOf(g, c.control_id)'
      PROVE  controls'[e].sub_controls = c.sub_controls
  <2>1. /\ e \in 1..Len(controls') /\ controls'[e].framework = g
        /\ controls'[e].control_id = c.control_id
    BY DEF ControlsOf
  <2>2. e \in 1..n
    <3> SUFFICES ASSUME ~ (e \in 1..n) PROVE FALSE
      OBVIOUS
    <3>1. e - n \in 1..Len(q.add) /\ n + (e - n) = e
      BY <1>1, <1>2, <2>1
    <3> QED
      BY <1>5, <1>9, <2>1, <3>1
  <2>3. e \in ControlsOf(g, c.control_id)
    BY <1>1, <2>1, <2>2 DEF ControlsOf
  <2>4. \A x \in q.fix : x.row # e
    BY <1>5, <2>3 DEF HasLookedUp, ControlsOf
  <2>5. controls'[e] = controls[e]
    BY <1>1, <2>2, <2>4
  <2> QED
    BY <1>3, <1>7, <2>3, <2>5 DEF AsGiven
<1>8. \A c \in Members(d.controls) : AsGiven(g, c)'
  BY <1>7 DEF AsGiven
<1> QED
  BY <1>6, <1>8 DEF InPlace, Members

\* The commit of a file puts it in place.
LEMMA InPlaceNew ==
  ASSUME TypeOK, NEW w \in Workers, CommitDocument(w), NEW q, q = req[w],
         FoundStands(q), HasLookedUp(q), q.doc \in Files
  PROVE  InPlace(q.doc)'
<1> DEFINE d == q.doc
           n == Len(controls)
<1>0. PICK f : f = IF q.framework = New THEN Len(frameworks) + 1 ELSE q.framework
  OBVIOUS
<1>1. /\ IsLooking(q)
      /\ f \in 1..Len(frameworks')
      /\ Len(frameworks') = IF q.framework = New THEN Len(frameworks) + 1 ELSE Len(frameworks)
      /\ \A g \in 1..Len(frameworks) : frameworks'[g] = frameworks[g]
      /\ q.framework = New => frameworks'[f] = d.key
      /\ Len(controls') = n + Len(q.add)
      /\ \A e \in 1..n : /\ controls'[e].framework = controls[e].framework
                         /\ controls'[e].control_id = controls[e].control_id
      /\ \A e \in 1..n : (\A x \in q.fix : x.row # e) => controls'[e] = controls[e]
      /\ \A e \in 1..n : (\E x \in q.fix : x.row = e)
           => \E x \in q.fix : x.row = e /\ controls'[e].sub_controls = x.sub_controls
      /\ \A i \in 1..Len(q.add) :
           controls'[n + i] =
             [framework |-> f, control_id |-> q.add[i].control_id,
              sub_controls |-> q.add[i].sub_controls,
              required_tags |-> q.add[i].required_tags]
  BY <1>0, CommittedRows
<1>2. /\ Len(frameworks) \in Nat /\ n \in Nat /\ Len(q.add) \in Nat
      /\ q.framework \in 0..Len(frameworks)
  BY <1>1 DEF TypeOK, IsLooking
<1>3. q.todo = <<>>
  BY DEF CommitDocument
<1>4. f \in FrameworksOf(d.key)'
  BY <1>0, <1>1, <1>2 DEF FrameworksOf, FoundStands, New
<1>5. \A a, b \in Members(d.controls) : a.control_id = b.control_id => a = b
  BY FilesDiffer
<1>6. ASSUME NEW c \in Members(d.controls), c.sub_controls # NoSubs,
             NEW e \in ControlsOf(f, c.control_id)'
      PROVE  controls'[e].sub_controls = c.sub_controls
  <2>1. /\ e \in 1..Len(controls') /\ controls'[e].framework = f
        /\ controls'[e].control_id = c.control_id
    BY DEF ControlsOf
  <2>2. CASE ~ (e \in 1..n)
    <3>1. PICK i \in 1..Len(q.add) : n + i = e
      <4>1. e - n \in 1..Len(q.add) /\ n + (e - n) = e
        BY <1>1, <1>2, <2>1, <2>2
      <4> QED
        BY <4>1
    <3>2. q.framework = New
      <4>1. q.framework # New => Len(q.add) = 0
        BY DEF HasLookedUp
      <4> QED
        BY <3>1, <4>1
    <3>3. q.add[i] \in Members(d.controls)
      BY <3>1, <3>2 DEF HasLookedUp, Members
    <3>4. /\ controls'[e].control_id = q.add[i].control_id
          /\ controls'[e].sub_controls = q.add[i].sub_controls
      <4>1. controls'[e] =
              [framework |-> f, control_id |-> q.add[i].control_id,
               sub_controls |-> q.add[i].sub_controls,
               required_tags |-> q.add[i].required_tags]
        BY <1>1, <3>1
      <4> QED
        BY <4>1
    <3> QED
      BY <1>5, <2>1, <3>3, <3>4
  <2>3. CASE e \in 1..n
    <3>1. controls[e].framework = f /\ controls[e].control_id = c.control_id
      BY <1>1, <2>1, <2>3
    <3>2. controls[e].framework \in 1..Len(frameworks)
      <4>1. controls[e] \in Rows
        BY <2>3 DEF TypeOK
      <4> QED
        BY <4>1 DEF Rows
    <3>3. q.framework # New /\ f = q.framework
      BY <1>0, <1>2, <3>1, <3>2
    <3>4. e \in ControlsOf(q.framework, c.control_id)
      BY <2>3, <3>1, <3>3 DEF ControlsOf
    <3>5. CASE \E x \in q.fix : x.row = e
      <4>1. PICK x \in q.fix : x.row = e /\ controls'[e].sub_controls = x.sub_controls
        BY <1>1, <2>3, <3>5
      <4>2. PICK a \in Members(d.controls) :
              e \in ControlsOf(q.framework, a.control_id) /\ x.sub_controls = a.sub_controls
        BY <4>1 DEF HasLookedUp
      <4>3. a = c
        BY <1>5, <3>1, <4>2 DEF ControlsOf
      <4> QED
        BY <4>1, <4>2, <4>3
    <3>6. CASE \A x \in q.fix : x.row # e
      <4>1. controls'[e] = controls[e]
        BY <1>1, <2>3, <3>6
      <4>2. Members(q.todo) = {}
        BY <1>3, NoMembers
      <4>3. controls[e].sub_controls = c.sub_controls
        BY <1>6, <3>3, <3>4, <3>6, <4>2 DEF HasLookedUp
      <4> QED
        BY <4>1, <4>3
    <3> QED
      BY <3>5, <3>6
  <2> QED
    BY <2>2, <2>3
<1>7. \A c \in Members(d.controls) : AsGiven(f, c)'
  BY <1>6 DEF AsGiven
<1> QED
  BY <1>4, <1>7 DEF InPlace, Members

-----------------------------------------------------------------------------
\* Of the steps that change one request and nothing that the catalogue holds.
LEMMA SettledStill ==
  ASSUME TypeOK, SettledInv, NEW w \in Workers, NEW q,
         req' = [req EXCEPT ![w] = q],
         UNCHANGED <<frameworks, controls, tools, links, release>>,
         settled' => settled,
         settled /\ ~Twins => FindsNothing(q)
  PROVE  SettledInv'
<1> SUFFICES ASSUME settled', ~Twins'
             PROVE  /\ (\A d \in Files : InPlace(d))'
                    /\ Tools \subseteq tools'
                    /\ RelatedPairs' \subseteq links'
                    /\ \A r \in {req'[v] : v \in Workers} : FindsNothing(r)'
  BY DEF SettledInv
<1>1. settled /\ ~Twins
  BY TwinsStill
<1>2. Files' = Files /\ RelatedPairs' = RelatedPairs
  BY FilesStill, RelatedStill
<1>3. (\A d \in Files : InPlace(d))'
  BY <1>1, <1>2, InPlaceStill DEF SettledInv
<1>4. Tools \subseteq tools' /\ RelatedPairs' \subseteq links'
  BY <1>1, <1>2 DEF SettledInv
<1>5. ASSUME NEW r \in {req'[v] : v \in Workers}
      PROVE  FindsNothing(r)'
  <2>1. r = q \/ r \in {req[v] : v \in Workers}
    BY DEF TypeOK
  <2>2. FindsNothing(r)
    BY <1>1, <2>1 DEF SettledInv
  <2> QED
    BY <2>2, FindsNothingStill
<1> QED
  BY <1>3, <1>4, <1>5

\* While somebody seeds undisturbed, nobody else is at work.
LEMMA OnlySeeding ==
  ASSUME SeedingInv, NEW w \in Workers, req[w] # Idle, NEW v \in seeding, seeding \subseteq Workers
  PROVE  v = w
  BY DEF SeedingInv

LEMMA SeedingStep ==
  ASSUME TypeOK, SeedingInv, NEW w \in Workers, NEW q, req[w] # Idle,
         req' = [req EXCEPT ![w] = q],
         seeding' \subseteq seeding,
         w \in seeding' =>
           /\ q # Idle
           /\ q.phase \in {"finding", "looking"} => q.kind = "seed"
           /\ ~Twins' => HasSeeded(q)'
  PROVE  SeedingInv'
<1>1. \A v \in Workers : req'[v] = IF v = w THEN q ELSE req[v]
  BY DEF TypeOK
<1> SUFFICES ASSUME NEW v \in seeding'
             PROVE  /\ req'[v] # Idle
                    /\ req'[v].phase \in {"finding", "looking"} => req'[v].kind = "seed"
                    /\ \A u \in Workers : u # v => req'[u] = Idle
                    /\ ~Twins' => HasSeeded(req[v])'
  BY DEF SeedingInv, Idle
<1>2. v = w /\ v \in seeding
  BY OnlySeeding DEF TypeOK
<1>3. req'[v] = q
  BY <1>1, <1>2
<1>4. \A u \in Workers : u # v => req'[u] = Idle
  BY <1>1, <1>2 DEF SeedingInv
<1>5. ~Twins' => HasSeeded(req[v])'
  <2> SUFFICES ASSUME ~Twins' PROVE HasSeeded(req[v])'
    OBVIOUS
  <2>1. HasSeeded(q)'
    BY <1>2
  <2> QED
    BY <1>3, <2>1
<1> QED
  BY <1>2, <1>3, <1>4, <1>5

-----------------------------------------------------------------------------
LEMMA BeginSeedKeeps ==
  ASSUME TypeOK, SettledInv, SeedingInv, NEW w \in Workers, BeginSeed(w)
  PROVE  SettledInv' /\ SeedingInv'
<1> DEFINE docs == SeedData[release]
<1>1. PICK q : q = [phase |-> "finding", kind |-> "seed", docs |-> docs]
  OBVIOUS
<1>2. /\ q.phase = "finding" /\ q.kind = "seed" /\ q.docs = docs /\ q # Idle
  BY <1>1 DEF Idle
<1>3. /\ req' = [req EXCEPT ![w] = q]
      /\ UNCHANGED <<frameworks, controls, tools, links, release, settled>>
      /\ seeding' = IF \A v \in Workers : req[v] = Idle THEN {w} ELSE {}
  BY <1>1 DEF BeginSeed, Begin, catalogue
<1>4. Members(q.docs) = Files
  BY <1>2 DEF Files
<1>5. FindsNothing(q) /\ HasSeeded(q)
  BY <1>2, <1>4 DEF FindsNothing, HasSeeded
<1>6. SettledInv'
  BY <1>3, <1>5, SettledStill
<1>7. HasSeeded(q)'
  BY <1>3, <1>5, HasSeededStill
<1>8. \A v \in Workers : req'[v] = IF v = w THEN q ELSE req[v]
  BY <1>3 DEF TypeOK
<1>9. ASSUME NEW v \in seeding'
      PROVE  /\ req'[v] # Idle
             /\ req'[v].phase \in {"finding", "looking"} => req'[v].kind = "seed"
             /\ \A u \in Workers : u # v => req'[u] = Idle
             /\ ~Twins' => HasSeeded(req[v])'
  <2>1. v = w /\ \A u \in Workers : req[u] = Idle
    BY <1>3
  <2>2. req'[v] = q
    BY <1>8, <2>1
  <2>3. HasSeeded(req[v])'
    BY <1>7, <2>2
  <2> QED
    BY <1>2, <1>8, <2>1, <2>2, <2>3
<1>10. SeedingInv'
  BY <1>9 DEF SeedingInv, Idle
<1> QED
  BY <1>6, <1>10

LEMMA FindFrameworkKeeps ==
  ASSUME TypeOK, SettledInv, SeedingInv, NEW w \in Workers, NEW f \in 0..Len(frameworks),
         FindFramework(w, f)
  PROVE  SettledInv' /\ SeedingInv'
<1> DEFINE q == req[w]
           doc == Head(q.docs)
<1>1. PICK new : new = [phase |-> "looking", kind |-> q.kind, docs |-> Tail(q.docs), doc |-> doc,
                        framework |-> f, todo |-> doc.controls, add |-> <<>>, fix |-> {}]
  OBVIOUS
<1>2. /\ q.phase = "finding"
      /\ IF FrameworksOf(doc.key) = {} THEN f = New ELSE f \in FrameworksOf(doc.key)
      /\ req' = [req EXCEPT ![w] = new]
      /\ UNCHANGED <<frameworks, controls, tools, links, release, settled, seeding>>
  BY <1>1 DEF FindFramework, catalogue
<1>3. /\ new.phase = "looking" /\ new.kind = q.kind /\ new.docs = Tail(q.docs)
      /\ new.doc = doc /\ new.framework = f /\ new.todo = doc.controls /\ new.add = <<>>
      /\ new.fix = {} /\ new # Idle
  BY <1>1 DEF Idle
<1>4. Members(q.docs) = Members(Tail(q.docs)) \cup {doc}
  <2>1. q.docs \in Seq(Documents) /\ q.docs # <<>>
    BY <1>2, PhaseTypes DEF Finding
  <2> QED
    BY <2>1, MembersTail
<1>5. q \in {req[v] : v \in Workers} /\ q # Idle
  BY <1>2 DEF Idle
<1> HIDE DEF q, doc
<1>6. ASSUME settled, ~Twins
      PROVE  FindsNothing(new)
  <2>1. q.kind = "seed" /\ Members(q.docs) \subseteq Files
    BY <1>2, <1>5, <1>6 DEF SettledInv, FindsNothing
  <2>2. doc \in Files /\ Members(new.docs) \subseteq Files
    BY <1>3, <1>4, <2>1
  <2>3. f # New
    <3>1. FrameworksOf(doc.key) # {}
      BY <1>6, <2>2 DEF SettledInv, InPlace
    <3> QED
      BY <1>2, <3>1 DEF FrameworksOf, New
  <2> QED
    BY <1>3, <2>1, <2>2, <2>3 DEF FindsNothing
<1>7. SettledInv'
  BY <1>2, <1>6, SettledStill
<1>8. ASSUME w \in seeding, ~Twins'
      PROVE  HasSeeded(new)'
  <2>1. HasSeeded(q)
    BY <1>2, <1>8, TwinsStill DEF SeedingInv, q
  <2>2. /\ Members(q.docs) \subseteq Files
        /\ \A d \in Files \ Members(q.docs) : InPlace(d)
    BY <1>2, <2>1 DEF HasSeeded
  <2>3. HasLookedUp(new)
    BY <1>3, NoMembers DEF HasLookedUp
  <2>4. HasSeeded(new)
    BY <1>3, <1>4, <2>2, <2>3 DEF HasSeeded
  <2> QED
    BY <1>2, <2>4, HasSeededStill
<1>9. w \in seeding => q.kind = "seed"
  BY <1>2 DEF SeedingInv, q
<1>10. SeedingInv'
  BY <1>2, <1>3, <1>5, <1>8, <1>9, SeedingStep DEF q
<1> QED
  BY <1>7, <1>10

\* Where a file of a settled catalogue is, if no two rows have one name.
LEMMA TheFramework ==
  ASSUME TypeOK, ~Twins, NEW d, InPlace(d),
         NEW f \in 1..Len(frameworks), frameworks[f] = d.key
  PROVE  \A c \in Members(d.controls) : AsGiven(f, c)
  BY DEF InPlace, FrameworksOf, Twins

\* What a request is after it has looked up one control.
LookedUp(q, add, fix) == [q EXCEPT !.todo = Tail(@), !.add = @ \o add, !.fix = @ \cup fix]

LEMMA LookUpRequest ==
  ASSUME NEW w, NEW add, NEW fix, LookUp(w, add, fix)
  PROVE  req' = [req EXCEPT ![w] = LookedUp(req[w], add, fix)]
  BY DEF LookUp, LookedUp

\* What a seeding adds and refreshes for control c.
MayLookUp(q, c, add, fix) ==
  /\ q.kind = "seed" /\ q.framework # New => add = <<>>
  /\ q.framework = New => add \in {<<>>, <<c>>}
  /\ \A x \in fix : /\ x.row \in ControlsOf(q.framework, c.control_id)
                   /\ x.sub_controls = c.sub_controls
  /\ q.kind = "seed" =>
       \A x \in fix : x.sub_controls # NoSubs /\ controls[x.row].sub_controls # x.sub_controls
  /\ q.kind = "seed" /\ q.framework # New /\ ~Twins =>
       \/ c.sub_controls = NoSubs
       \/ \A e \in ControlsOf(q.framework, c.control_id) :
            controls[e].sub_controls = c.sub_controls \/ \E x \in fix : x.row = e

LEMMA LookUpKeeps ==
  ASSUME TypeOK, CatalogueInv, SettledInv, SeedingInv, NEW w \in Workers,
         NEW add \in Seq(Entries), NEW fix, Looking(w), LookUp(w, add, fix),
         NEW c, c = Head(req[w].todo), MayLookUp(req[w], c, add, fix)
  PROVE  SettledInv' /\ SeedingInv'
<1> DEFINE q == req[w]
           looked == LookedUp(q, add, fix)
<1>0. req' = [req EXCEPT ![w] = looked]
  BY LookUpRequest
<1>1. PICK new : new = looked
  OBVIOUS
<1>2. IsLooking(q) /\ q.todo # <<>> /\ q \in {req[v] : v \in Workers}
  BY PhaseTypes DEF Looking
<1>3. /\ new.phase = "looking" /\ new.kind = q.kind /\ new.docs = q.docs /\ new.doc = q.doc
      /\ new.framework = q.framework /\ new.todo = Tail(q.todo) /\ new.add = q.add \o add
      /\ new.fix = q.fix \cup fix /\ new # Idle /\ q.phase = "looking" /\ q # Idle
  <2>1. /\ looked.phase = q.phase /\ looked.kind = q.kind /\ looked.docs = q.docs
        /\ looked.doc = q.doc /\ looked.framework = q.framework /\ looked.todo = Tail(q.todo)
        /\ looked.add = q.add \o add /\ looked.fix = q.fix \cup fix
    BY <1>2 DEF IsLooking, LookedUp
  <2> HIDE DEF looked
  <2>2. q.phase = "looking"
    BY <1>2 DEF IsLooking
  <2> QED
    BY <1>1, <2>1, <2>2 DEF Idle
<1>4. /\ req' = [req EXCEPT ![w] = new]
      /\ UNCHANGED <<frameworks, controls, tools, links, release, settled, seeding>>
  <2> HIDE DEF looked
  <2> QED
    BY <1>0, <1>1 DEF LookUp, catalogue
<1>5. Members(q.todo) = Members(new.todo) \cup {c}
  BY <1>2, <1>3, MembersTail DEF IsLooking
<1>6. q.add = <<>> /\ add = <<>> => new.add = <<>>
  BY <1>3
<1>7. Members(new.add) \subseteq Members(q.add) \cup Members(add)
  BY <1>2, <1>3, MembersConcat DEF IsLooking
<1>8. FoundStands(q)
  BY <1>2, <1>3 DEF CatalogueInv, InWork
<1>9. q.framework # New =>
        q.framework \in 1..Len(frameworks) /\ frameworks[q.framework] = q.doc.key
  <2>1. q.framework \in 0..Len(frameworks) /\ Len(frameworks) \in Nat
    BY <1>2 DEF IsLooking, TypeOK
  <2> QED
    BY <1>8, <2>1 DEF FoundStands, New
<1> HIDE DEF q, looked
<1>10. ASSUME settled, ~Twins
       PROVE  FindsNothing(new)
  <2>1. FindsNothing(q) /\ \A d \in Files : InPlace(d)
    BY <1>2, <1>10 DEF SettledInv
  <2>2. /\ q.kind = "seed" /\ Members(q.docs) \subseteq Files /\ q.doc \in Files
        /\ Members(q.todo) \subseteq Members(q.doc.controls)
        /\ q.framework # New /\ q.add = <<>> /\ q.fix = {}
    BY <1>3, <2>1 DEF FindsNothing
  <2>3. add = <<>>
    BY <2>2 DEF q, MayLookUp
  <2>4. AsGiven(q.framework, c)
    BY <1>5, <1>9, <1>10, <2>1, <2>2, TheFramework
  <2>5. fix = {}
    BY <2>2, <2>4 DEF AsGiven, q, MayLookUp
  <2> QED
    BY <1>3, <1>5, <1>6, <2>2, <2>3, <2>5 DEF FindsNothing
<1>11. SettledInv'
  BY <1>4, <1>10, SettledStill
<1>12. ASSUME w \in seeding, ~Twins'
       PROVE  HasSeeded(new)'
  <2>1. HasSeeded(q) /\ q.kind = "seed" /\ ~Twins
    BY <1>3, <1>4, <1>12, TwinsStill DEF SeedingInv, q
  <2>2. /\ Members(q.docs) \subseteq Files /\ q.doc \in Files
        /\ \A d \in Files \ (Members(q.docs) \cup {q.doc}) : InPlace(d)
        /\ HasLookedUp(q)
    BY <1>3, <2>1 DEF HasSeeded
  <2>3. Members(q.todo) \subseteq Members(q.doc.controls) /\ c \in Members(q.doc.controls)
    BY <1>5, <2>2 DEF HasLookedUp
  <2>4. q.framework = New => Members(new.add) \subseteq Members(q.doc.controls)
    <3>1. q.framework = New => Members(add) \subseteq {c}
      BY NoMembers, OneMember DEF q, MayLookUp
    <3> QED
      BY <1>7, <2>2, <2>3, <3>1 DEF HasLookedUp
  <2>5. ASSUME q.framework # New
        PROVE  new.add = <<>>
    BY <1>6, <2>1, <2>2, <2>5 DEF HasLookedUp, q, MayLookUp
  <2>6. ASSUME q.framework # New, NEW a \in Members(q.doc.controls) \ Members(new.todo)
        PROVE  \/ a.sub_controls = NoSubs
               \/ \A e \in ControlsOf(q.framework, a.control_id) :
                    \/ controls[e].sub_controls = a.sub_controls
                    \/ \E x \in new.fix : x.row = e
    <3>1. CASE a = c
      BY <1>3, <2>1, <2>6, <3>1 DEF q, MayLookUp
    <3>2. CASE a # c
      <4>1. a \in Members(q.doc.controls) \ Members(q.todo)
        BY <1>5, <2>6, <3>2
      <4> QED
        BY <1>3, <2>2, <2>6, <4>1 DEF HasLookedUp
    <3> QED
      BY <3>1, <3>2
  <2>7. ASSUME NEW x \in new.fix
        PROVE  \E a \in Members(q.doc.controls) :
                 /\ x.row \in ControlsOf(q.framework, a.control_id)
                 /\ x.sub_controls = a.sub_controls
    BY <1>3, <2>2, <2>3 DEF HasLookedUp, q, MayLookUp
  <2>8. HasLookedUp(new)
    BY <1>3, <1>5, <2>3, <2>4, <2>5, <2>6, <2>7 DEF HasLookedUp
  <2>9. HasSeeded(new)
    BY <1>3, <2>2, <2>8 DEF HasSeeded
  <2> QED
    BY <1>4, <2>9, HasSeededStill
<1>13. w \in seeding => q.kind = "seed"
  BY <1>3 DEF SeedingInv, q
<1>14. SeedingInv'
  BY <1>3, <1>4, <1>12, <1>13, SeedingStep DEF q
<1> QED
  BY <1>11, <1>14

LEMMA AddControlKeeps ==
  ASSUME TypeOK, CatalogueInv, SettledInv, SeedingInv, NEW w \in Workers, AddControl(w)
  PROVE  SettledInv' /\ SeedingInv'
<1> DEFINE q == req[w]
           c == Head(q.todo)
           add == IF q.kind = "seed" /\ q.framework # New THEN <<>> ELSE <<c>>
<1>1. /\ Looking(w) /\ ControlsOf(q.framework, c.control_id) = {}
      /\ LookUp(w, add, {})
  BY DEF AddControl
<1>2. c \in Entries
  BY <1>1, PhaseTypes, Rest DEF Looking, IsLooking
<1>3. add \in Seq(Entries)
  BY <1>2
<1>4. q.kind = "seed" /\ q.framework # New => add = <<>>
  OBVIOUS
<1>5. q.framework = New => add \in {<<>>, <<c>>}
  OBVIOUS
<1>6. MayLookUp(q, c, add, {})
  BY <1>1, <1>4, <1>5 DEF MayLookUp
<1> HIDE DEF add, c
<1> QED
  BY <1>1, <1>3, <1>6, LookUpKeeps DEF c

LEMMA RefreshControlKeeps ==
  ASSUME TypeOK, CatalogueInv, SettledInv, SeedingInv, NEW w \in Workers,
         NEW e \in 1..Len(controls), RefreshControl(w, e)
  PROVE  SettledInv' /\ SeedingInv'
<1> DEFINE q == req[w]
<1>0. PICK c : c = Head(q.todo)
  OBVIOUS
<1> DEFINE refresh == Refreshes(q.kind, controls[e].sub_controls, c.sub_controls)
           fix == IF refresh THEN {[row |-> e, sub_controls |-> c.sub_controls]} ELSE {}
<1>1. /\ Looking(w) /\ e \in ControlsOf(q.framework, c.control_id)
      /\ LookUp(w, <<>>, fix)
  BY <1>0 DEF RefreshControl
<1>2. \A x \in fix : x.row = e /\ x.sub_controls = c.sub_controls
  OBVIOUS
<1>3. q.kind = "seed" =>
        \A x \in fix : x.sub_controls # NoSubs /\ controls[x.row].sub_controls # x.sub_controls
  BY DEF Refreshes
<1>4. ASSUME q.kind = "seed", c.sub_controls # NoSubs, controls[e].sub_controls # c.sub_controls
      PROVE  \E x \in fix : x.row = e
  BY <1>4 DEF Refreshes
<1>5. <<>> \in Seq(Entries)
  OBVIOUS
<1> HIDE DEF fix, refresh
<1>6. q.kind = "seed" /\ q.framework # New /\ ~Twins =>
        \/ c.sub_controls = NoSubs
        \/ \A r \in ControlsOf(q.framework, c.control_id) :
             controls[r].sub_controls = c.sub_controls \/ \E x \in fix : x.row = r
  <2>1. ~Twins => ControlsOf(q.framework, c.control_id) \subseteq {e}
    BY <1>1 DEF Twins, ControlsOf
  <2> QED
    BY <1>4, <2>1
<1>7. \A x \in fix : /\ x.row \in ControlsOf(q.framework, c.control_id)
                   /\ x.sub_controls = c.sub_controls
  BY <1>1, <1>2
<1>8. q.framework = New => <<>> \in {<<>>, <<c>>}
  OBVIOUS
<1>9. MayLookUp(q, c, <<>>, fix)
  BY <1>3, <1>6, <1>7, <1>8 DEF MayLookUp
<1> QED
  BY <1>0, <1>1, <1>5, <1>9, LookUpKeeps

\* A seeding that found a file in place commits nothing.
LEMMA NothingToCommit ==
  ASSUME TypeOK, NEW w \in Workers, CommitDocument(w),
         req[w].framework # New, req[w].add = <<>>, req[w].fix = {}
  PROVE  UNCHANGED <<frameworks, controls>>
<1>1. /\ IsLooking(req[w]) /\ controls' \in Seq(Rows')
      /\ Len(controls') = Len(controls) + Len(req[w].add)
      /\ \A e \in 1..Len(controls) :
           (\A x \in req[w].fix : x.row # e) => controls'[e] = controls[e]
  BY CommittedRows
<1>2. controls \in Seq(Rows) /\ Len(controls) \in Nat /\ Len(<<>>) = 0
  BY DEF TypeOK
<1>3. Len(controls') = Len(controls)
  BY <1>1, <1>2
<1>4. \A e \in 1..Len(controls) : controls'[e] = controls[e]
  BY <1>1
<1>5. controls' = controls
  <2>1. controls = [e \in 1..Len(controls) |-> controls[e]]
    BY <1>2
  <2>2. controls' = [e \in 1..Len(controls') |-> controls'[e]]
    BY <1>1
  <2> QED
    BY <1>3, <1>4, <2>1, <2>2
<1>6. frameworks' = frameworks
  BY DEF CommitDocument
<1> QED
  BY <1>5, <1>6

LEMMA CommitDocumentKeeps ==
  ASSUME TypeOK, CatalogueInv, SettledInv, SeedingInv, NEW w \in Workers, CommitDocument(w)
  PROVE  SettledInv' /\ SeedingInv'
<1>1. PICK q : q = req[w]
  OBVIOUS
<1>2. PICK new : new = AfterDocument(q)
  OBVIOUS
<1>3. /\ q.phase = "looking" /\ q # Idle /\ q.todo = <<>>
      /\ req' = [req EXCEPT ![w] = new]
      /\ UNCHANGED <<tools, links, release, settled, seeding>>
      /\ q \in {req[v] : v \in Workers} /\ q \in InWork
  BY <1>1, <1>2 DEF CommitDocument, Idle, InWork
<1>4. IsLooking(q) /\ FoundStands(q)
  BY <1>1, <1>3, PhaseTypes DEF CatalogueInv
<1>5. q.kind = "seed" =>
        /\ new # Idle
        /\ q.docs = <<>> => new.phase = "tools"
        /\ q.docs # <<>> => new.phase = "finding" /\ new.kind = "seed" /\ new.docs = q.docs
  BY <1>2 DEF AfterDocument, Idle
<1>6. ASSUME settled', ~Twins'
      PROVE  SettledInv'
  <2>1. settled /\ ~Twins
    BY <1>3, <1>6, TwinsStay
  <2>2. FindsNothing(q)
    BY <1>3, <2>1 DEF SettledInv
  <2>3. UNCHANGED <<frameworks, controls>>
    BY <1>1, <1>3, <2>2, NothingToCommit DEF FindsNothing
  <2>4. FindsNothing(new)
    BY <1>3, <1>5, <2>2 DEF FindsNothing
  <2> QED
    BY <1>3, <2>3, <2>4, SettledStill
<1>7. SettledInv'
  BY <1>6 DEF SettledInv
<1>8. w \in seeding => q.kind = "seed"
  BY <1>1, <1>3 DEF SeedingInv
<1>9. ASSUME w \in seeding, ~Twins'
      PROVE  HasSeeded(new)'
  <2>1. HasSeeded(q)
    BY <1>1, <1>9, TwinsStay DEF SeedingInv
  <2>2. /\ Members(q.docs) \subseteq Files /\ q.doc \in Files
        /\ \A d \in Files \ (Members(q.docs) \cup {q.doc}) : InPlace(d)
        /\ HasLookedUp(q)
    BY <1>3, <2>1 DEF HasSeeded
  <2>3. Files' = Files
    BY <1>3, FilesStill
  <2>4. ASSUME NEW d \in Files \ Members(q.docs)
        PROVE  InPlace(d)'
    <3>1. CASE d = q.doc
      <4>1. InPlace(q.doc)'
        BY <1>1, <1>4, <2>2, InPlaceNew
      <4> QED
        BY <3>1, <4>1
    <3>2. CASE d # q.doc
      <4>1. d.key # q.doc.key
        BY <2>2, <3>2, FilesDiffer
      <4> QED
        BY <1>1, <1>4, <2>2, <3>2, <4>1, InPlaceStays
    <3> QED
      BY <3>1, <3>2
  <2>5. CASE q.docs = <<>>
    <3>1. \A d \in Files : InPlace(d)'
      BY <2>4, <2>5, NoMembers
    <3> QED
      BY <1>5, <1>8, <1>9, <2>3, <2>5, <3>1 DEF HasSeeded
  <2>6. CASE q.docs # <<>>
    <3>1. /\ (Members(new.docs) \subseteq Files)'
          /\ (\A d \in Files \ Members(new.docs) : InPlace(d))'
      BY <1>5, <1>8, <1>9, <2>2, <2>3, <2>4, <2>6 DEF Members
    <3>2. new.phase = "finding"
      BY <1>5, <1>8, <1>9, <2>6
    <3> QED
      BY <3>1, <3>2 DEF HasSeeded
  <2> QED
    BY <2>5, <2>6
<1>10. w \in seeding' =>
         /\ new # Idle
         /\ new.phase \in {"finding", "looking"} => new.kind = "seed"
         /\ ~Twins' => HasSeeded(new)'
  BY <1>3, <1>5, <1>8, <1>9
<1>11. SeedingInv'
  BY <1>1, <1>3, <1>10, SeedingStep
<1> QED
  BY <1>7, <1>11

\* The tables of tools and links are looked at; the result is a new request.
LEMMA LookingAgain ==
  ASSUME TypeOK, SettledInv, SeedingInv, NEW w \in Workers, LookForTools(w) \/ FindPairs(w)
  PROVE  SettledInv' /\ SeedingInv'
<1>1. PICK q : q = req[w]
  OBVIOUS
<1>2. /\ q # Idle /\ q \in {req[v] : v \in Workers}
      /\ UNCHANGED <<frameworks, controls, tools, links, release, settled, seeding>>
      /\ q.phase \in {"tools", "linking"}
  BY <1>1 DEF LookForTools, FindPairs, catalogue, Idle
<1>3. PICK new : /\ req' = [req EXCEPT ![w] = new]
                 /\ \/ q.phase = "tools" /\ new = [phase |-> "adding", missing |-> Tools \ tools]
                    \/ q.phase = "linking"
                         /\ new = [phase |-> "storing", pairs |-> RelatedPairs \ links,
                                   upto |-> Len(controls)]
  BY <1>1 DEF LookForTools, FindPairs
<1>4. /\ new # Idle /\ new.phase \in {"adding", "storing"}
      /\ new.phase = "adding" => new.missing = Tools \ tools
      /\ new.phase = "storing" => q.phase = "linking" /\ new.pairs = RelatedPairs \ links
  BY <1>3 DEF Idle
<1>5. settled /\ ~Twins => FindsNothing(new)
  BY <1>4 DEF FindsNothing, SettledInv
<1>6. SettledInv'
  BY <1>2, <1>3, <1>5, SettledStill
<1>7. ASSUME w \in seeding, ~Twins'
      PROVE  HasSeeded(new)'
  <2>1. HasSeeded(q)
    BY <1>1, <1>2, <1>7, TwinsStill DEF SeedingInv
  <2>2. HasSeeded(new)
    BY <1>2, <1>4, <2>1 DEF HasSeeded
  <2> QED
    BY <1>2, <2>2, HasSeededStill
<1>8. SeedingInv'
  BY <1>1, <1>2, <1>3, <1>4, <1>7, SeedingStep
<1> QED
  BY <1>6, <1>8

LEMMA CommitToolsKeeps ==
  ASSUME TypeOK, SettledInv, SeedingInv, NEW w \in Workers, CommitTools(w)
  PROVE  SettledInv' /\ SeedingInv'
<1>1. PICK q : q = req[w]
  OBVIOUS
<1>2. PICK new : new = [phase |-> "linking"]
  OBVIOUS
<1>3. /\ q.phase = "adding" /\ q # Idle /\ q \in {req[v] : v \in Workers}
      /\ tools' = tools \cup q.missing
      /\ req' = [req EXCEPT ![w] = new]
      /\ UNCHANGED <<frameworks, controls, links, release, settled, seeding>>
      /\ new.phase = "linking" /\ new # Idle
  BY <1>1, <1>2 DEF CommitTools, Idle
<1>4. ASSUME settled', ~Twins'
      PROVE  SettledInv'
  <2>1. settled /\ ~Twins
    BY <1>3, <1>4, TwinsStill
  <2>2. tools' = tools
    BY <1>3, <2>1 DEF SettledInv, FindsNothing
  <2>3. FindsNothing(new)
    BY <1>3 DEF FindsNothing
  <2> QED
    BY <1>3, <2>2, <2>3, SettledStill
<1>5. SettledInv'
  BY <1>4 DEF SettledInv
<1>6. ASSUME w \in seeding, ~Twins'
      PROVE  HasSeeded(new)'
  <2>1. HasSeeded(q)
    BY <1>1, <1>3, <1>6, TwinsStill DEF SeedingInv
  <2>2. \A d \in Files : InPlace(d)
    BY <1>3, <2>1 DEF HasSeeded
  <2>3. (\A d \in Files : InPlace(d))'
    BY <1>3, <2>2, FilesStill, InPlaceStill
  <2>4. Tools \subseteq tools'
    BY <1>3, <2>1 DEF HasSeeded
  <2> QED
    BY <1>3, <2>3, <2>4 DEF HasSeeded
<1>7. SeedingInv'
  BY <1>1, <1>3, <1>6, SeedingStep
<1> QED
  BY <1>5, <1>7

\* An undisturbed seeding that has gone through settles the catalogue.
LEMMA CommitPairsKeeps ==
  ASSUME TypeOK, SettledInv, SeedingInv, NEW w \in Workers, CommitPairs(w)
  PROVE  SettledInv' /\ SeedingInv'
<1>1. PICK q : q = req[w]
  OBVIOUS
<1>2. /\ q.phase = "storing" /\ q # Idle /\ q \in {req[v] : v \in Workers}
      /\ links' = links \cup q.pairs
      /\ req' = [req EXCEPT ![w] = Idle]
      /\ settled' = (settled \/ w \in seeding)
      /\ seeding' = seeding \ {w}
      /\ UNCHANGED <<frameworks, controls, tools, release>>
  BY <1>1 DEF CommitPairs, Idle
<1>3. FindsNothing(Idle)
  BY DEF FindsNothing, Idle
<1>4. ASSUME settled, ~Twins'
      PROVE  SettledInv'
  <2>1. ~Twins
    BY <1>2, <1>4, TwinsStill
  <2>2. links' = links
    BY <1>2, <1>4, <2>1 DEF SettledInv, FindsNothing
  <2> QED
    BY <1>2, <1>3, <1>4, <2>2, SettledStill
<1>5. ASSUME w \in seeding, ~Twins'
      PROVE  SettledInv'
  <2>1. HasSeeded(q)
    BY <1>1, <1>2, <1>5, TwinsStill DEF SeedingInv
  <2>2. /\ \A d \in Files : InPlace(d)
        /\ Tools \subseteq tools /\ RelatedPairs \subseteq q.pairs \cup links
    BY <1>2, <2>1 DEF HasSeeded
  <2>3. Files' = Files /\ RelatedPairs' = RelatedPairs
    BY <1>2, FilesStill, RelatedStill
  <2>4. (\A d \in Files : InPlace(d))'
    BY <1>2, <2>2, <2>3, InPlaceStill
  <2>5. \A v \in Workers : req'[v] = Idle
    BY <1>1, <1>2, <1>5 DEF SeedingInv, TypeOK
  <2>6. FindsNothing(Idle)'
    BY DEF FindsNothing, Idle
  <2>7. \A r \in {req'[v] : v \in Workers} : FindsNothing(r)'
    BY <2>5, <2>6
  <2> QED
    BY <1>2, <2>2, <2>3, <2>4, <2>7 DEF SettledInv
<1>6. SettledInv'
  BY <1>2, <1>4, <1>5 DEF SettledInv
<1>7. SeedingInv'
  BY <1>1, <1>2, SeedingStep
<1> QED
  BY <1>6, <1>7

LEMMA StoppedKeeps ==
  ASSUME TypeOK, SettledInv, SeedingInv, NEW w \in Workers, SkipScript(w) \/ Abandon(w)
  PROVE  SettledInv' /\ SeedingInv'
<1>1. /\ req[w] # Idle /\ req' = [req EXCEPT ![w] = Idle]
      /\ UNCHANGED <<frameworks, controls, tools, links, release, settled>>
      /\ seeding' \subseteq seeding /\ w \notin seeding'
  BY DEF SkipScript, Abandon, catalogue, Idle, SeedingInv
<1>2. FindsNothing(Idle)
  BY DEF FindsNothing, Idle
<1> QED
  BY <1>1, <1>2, SettledStill, SeedingStep

\* Somebody imports, or a new release is installed.
LEMMA Unsettled ==
  ASSUME seeding' = {}, settled' = FALSE
  PROVE  SettledInv' /\ SeedingInv'
  BY DEF SettledInv, SeedingInv

LEMMA SeedingStutter ==
  ASSUME TypeOK, SettledInv, SeedingInv, UNCHANGED vars
  PROVE  SettledInv' /\ SeedingInv'
<1>1. UNCHANGED <<frameworks, controls, tools, links, release, settled, seeding, req>>
  BY DEF vars
<1>2. Files' = Files /\ RelatedPairs' = RelatedPairs /\ (Twins' <=> Twins)
  BY <1>1, FilesStill, RelatedStill, TwinsStill
<1>3. SettledInv'
  BY <1>1, <1>2, InPlaceStill, FindsNothingStill DEF SettledInv
<1>4. ASSUME NEW w \in seeding, ~Twins
      PROVE  HasSeeded(req[w])'
  <2>1. PICK q : q = req[w]
    OBVIOUS
  <2>2. HasSeeded(q)'
    BY <1>1, <1>4, <2>1, HasSeededStill DEF SeedingInv
  <2> QED
    BY <1>1, <2>1, <2>2
<1>5. SeedingInv'
  BY <1>1, <1>2, <1>4 DEF SeedingInv, Idle
<1> QED
  BY <1>3, <1>5

LEMMA SeedingNext ==
  TypeOK /\ CatalogueInv /\ SettledInv /\ SeedingInv /\ [Next]_vars => SettledInv' /\ SeedingInv'
<1> SUFFICES ASSUME TypeOK, CatalogueInv, SettledInv, SeedingInv, [Next]_vars
             PROVE  SettledInv' /\ SeedingInv'
  OBVIOUS
<1>1. ASSUME NEW w \in Workers, NEW u \in Uploads, BeginImport(w, u)
      PROVE  SettledInv' /\ SeedingInv'
  BY <1>1, Unsettled DEF BeginImport
<1>2. ASSUME InstallRelease
      PROVE  SettledInv' /\ SeedingInv'
  BY <1>2, Unsettled DEF InstallRelease
<1> QED
  BY <1>1, <1>2, BeginSeedKeeps, FindFrameworkKeeps, AddControlKeeps, RefreshControlKeeps,
     CommitDocumentKeeps, LookingAgain, CommitToolsKeeps, CommitPairsKeeps, StoppedKeeps,
     SeedingStutter
  DEF Next

LEMMA SeedingInvariant == Spec => [](SettledInv /\ SeedingInv)
<1>1. Init => SettledInv /\ SeedingInv
  BY DEF Init, SettledInv, SeedingInv
<1> QED
  BY <1>1, SeedingNext, CatalogueInvariant, TypeCorrect, PTL DEF Spec

\* seed.py, "Safe to re-run": after an undisturbed seeding, seedings of the same
\* release change nothing, however they are interrupted or overlap.
THEOREM ReseedingChangesNothing == Spec => ReseedingIsIdle
<1>1. TypeOK /\ SettledInv /\ [Next]_vars =>
        [settled /\ settled' /\ ~Twins => UNCHANGED catalogue]_vars
  <2> SUFFICES ASSUME TypeOK, SettledInv, [Next]_vars, settled, settled', ~Twins
               PROVE  UNCHANGED catalogue
    OBVIOUS
  <2>1. \A w \in Workers : FindsNothing(req[w])
    BY DEF SettledInv
  <2>2. ASSUME NEW w \in Workers, CommitDocument(w)
        PROVE  UNCHANGED catalogue
    BY <2>1, <2>2, NothingToCommit DEF FindsNothing, CommitDocument, catalogue
  <2>3. ASSUME NEW w \in Workers, CommitTools(w)
        PROVE  UNCHANGED catalogue
    BY <2>1, <2>3 DEF FindsNothing, CommitTools, catalogue
  <2>4. ASSUME NEW w \in Workers, CommitPairs(w)
        PROVE  UNCHANGED catalogue
    BY <2>1, <2>4 DEF FindsNothing, CommitPairs, catalogue
  <2> QED
    BY <2>2, <2>3, <2>4
    DEF Next, BeginImport, BeginSeed, FindFramework, SkipScript, AddControl, RefreshControl,
        LookUp, LookForTools, FindPairs, Abandon, InstallRelease, catalogue, vars
<1> QED
  BY <1>1, SeedingInvariant, TypeCorrect, PTL DEF Spec, ReseedingIsIdle

-----------------------------------------------------------------------------
(***************************************************************************)
(* The report                                                              *)
(***************************************************************************)
\* The instance counts as FiniteSets does.
LEMMA SameCardinality ==
  ASSUME NEW S
  PROVE  /\ R!Cardinality(S) = Cardinality(S)
         /\ R!IsFiniteSet(S) <=> IsFiniteSet(S)
  BY DEF R!Cardinality, Cardinality, R!IsFiniteSet, IsFiniteSet

\* More tools in scope provide no fewer tags.
LEMMA AvailableMonotone ==
  ASSUME NEW cap, NEW S, NEW T, S \subseteq T
  PROVE  R!Available(cap, S) \subseteq R!Available(cap, T)
  BY DEF R!Available

\* More tags available give a control no worse status.
LEMMA TagStatusMonotone ==
  ASSUME NEW tags, NEW A, NEW B, A \subseteq B
  PROVE  R!Better[R!TagStatus(tags, B)] >= R!Better[R!TagStatus(tags, A)]
<1>1. CASE tags \subseteq A
  <2>1. tags \subseteq B
    BY <1>1
  <2> QED
    BY <1>1, <2>1 DEF R!TagStatus, R!Better
<1>2. CASE ~ (tags \subseteq A) /\ tags \cap A # {}
  <2>1. tags \cap B # {}
    BY <1>2
  <2> QED
    BY <1>2, <2>1 DEF R!TagStatus, R!Better
<1>3. CASE ~ (tags \subseteq A) /\ tags \cap A = {}
  <2>1. R!TagStatus(tags, A) = "not_covered"
    BY <1>3 DEF R!TagStatus
  <2> QED
    BY <2>1 DEF R!TagStatus, R!Better
<1> QED
  BY <1>1, <1>2, <1>3

\* Only the required tags among the available ones matter.
LEMMA TagStatusSameTags ==
  ASSUME NEW tags, NEW A, NEW B, tags \cap A = tags \cap B
  PROVE  R!TagStatus(tags, A) = R!TagStatus(tags, B)
<1>1. tags \subseteq A <=> tags \subseteq B
  OBVIOUS
<1> QED
  BY <1>1 DEF R!TagStatus

-----------------------------------------------------------------------------
LEMMA ReportTypeInit == R!Init => R!TypeOK
  BY ReportAssumption DEF R!CoverageAssumption, R!Init, R!TypeOK, R!Notes, R!NoNote, R!Times

LEMMA ReportTypeNext == R!TypeOK /\ [R!Next]_reportVars => R!TypeOK'
<1> SUFFICES ASSUME R!TypeOK, [R!Next]_reportVars
             PROVE  R!TypeOK'
  OBVIOUS
<1>1. CASE R!UpdateTools
  BY <1>1 DEF R!UpdateTools, R!TypeOK
<1>2. CASE R!DeleteTool
  BY <1>2 DEF R!DeleteTool, R!TypeOK
<1>3. CASE R!CreateTool
  BY <1>3 DEF R!CreateTool, R!TypeOK
<1>4. CASE R!UploadTools
  BY <1>4 DEF R!UploadTools, R!TypeOK
<1>5. CASE R!OverrideControl
  <2> PICK c \in Controls, o \in Overrides \cup {R!Null} :
        \/ note' = [note EXCEPT ![c].override_status = o]
        \/ \E e \in R!Times : note' = [note EXCEPT ![c].override_status = o,
                                                   ![c].override_expires = e]
    BY <1>5 DEF R!OverrideControl
  <2>1. note[c] \in R!Notes
    BY DEF R!TypeOK
  <2>2. note' \in [Controls -> R!Notes]
    BY <2>1 DEF R!TypeOK, R!Notes
  <2> QED
    BY <1>5, <2>2 DEF R!OverrideControl, R!TypeOK
<1>6. CASE R!SetApplicable
  <2> PICK c \in Controls, b \in BOOLEAN :
        note' = [note EXCEPT ![c].is_applicable = b]
    BY <1>6 DEF R!SetApplicable
  <2>1. note[c] \in R!Notes
    BY DEF R!TypeOK
  <2>2. note' \in [Controls -> R!Notes]
    BY <2>1 DEF R!TypeOK, R!Notes
  <2> QED
    BY <1>6, <2>2 DEF R!SetApplicable, R!TypeOK
<1>7. CASE R!Tick
  BY <1>7, ReportAssumption DEF R!CoverageAssumption, R!Tick, R!TypeOK, R!Times
<1>8. CASE UNCHANGED reportVars
  BY <1>8 DEF reportVars, R!TypeOK
<1> QED
  BY <1>1, <1>2, <1>3, <1>4, <1>5, <1>6, <1>7, <1>8 DEF R!Next

\* The catalogue bounds the scope, and every note is one.
THEOREM ReportTypeCorrect == R!Spec => []R!TypeOK
  BY ReportTypeInit, ReportTypeNext, PTL DEF R!Spec, R!vars, reportVars

-----------------------------------------------------------------------------
LEMMA MoreToolsStep ==
  ASSUME R!TypeOK, selected \subseteq selected', UNCHANGED <<required, caps, note, now>>,
         NEW c \in Controls
  PROVE  R!Better[R!Status[c]]' >= R!Better[R!Status[c]]
<1> DEFINE A == R!Available(caps, selected)
           B == R!Available(caps, selected')
<1>1. A \subseteq B
  BY AvailableMonotone
<1>2. /\ R!Status[c] = R!ControlStatus(required[c], A, note[c], now)
      /\ R!Status[c]' = R!ControlStatus(required[c], B, note[c], now)
  BY DEF R!Status, R!StatusWith
<1>3. CASE ~ note[c].is_applicable
  BY <1>2, <1>3 DEF R!ControlStatus, R!Better
<1>4. CASE note[c].is_applicable /\ R!InForce(note[c], now)
  <2>1. note[c].override_status \in Overrides
    BY <1>4 DEF R!TypeOK, R!Notes, R!InForce
  <2>2. R!Status[c] = note[c].override_status /\ R!Status[c]' = note[c].override_status
    BY <1>2, <1>4 DEF R!ControlStatus
  <2>3. R!Better[note[c].override_status] \in Int
    <3>1. Overrides \subseteq DOMAIN R!Better
      BY ReportAssumption DEF R!Better, R!CoverageAssumption
    <3>2. \A o \in DOMAIN R!Better : R!Better[o] \in Int
      BY DEF R!Better
    <3> QED
      BY <2>1, <3>1, <3>2
  <2>4. R!Better[R!Status[c]]' = R!Better[note[c].override_status]
    BY <2>2 DEF R!Better
  <2> QED
    BY <2>2, <2>3, <2>4
<1>5. CASE note[c].is_applicable /\ ~ R!InForce(note[c], now)
  <2>1. /\ R!Status[c] = R!TagStatus(required[c], A)
        /\ R!Status[c]' = R!TagStatus(required[c], B)
    BY <1>2, <1>5 DEF R!ControlStatus
  <2> QED
    BY <1>1, <2>1, TagStatusMonotone
<1> QED
  BY <1>3, <1>4, <1>5

\* Adding tools to the scope makes no control worse.
THEOREM MoreToolsHelp == MCSpec => MoreToolsNeverWorsen
<1>1. R!TypeOK /\ [R!Next]_reportVars =>
        [ /\ selected \subseteq selected'
          /\ UNCHANGED <<required, caps, note, now>>
          => \A c \in Controls : R!Better[R!Status[c]]' >= R!Better[R!Status[c]] ]_reportVars
  BY MoreToolsStep
<1> QED
  BY <1>1, ReportTypeCorrect, PartsAreIndependent, PTL
     DEF R!Spec, R!vars, reportVars, R!MoreToolsNeverWorsen, MoreToolsNeverWorsen

-----------------------------------------------------------------------------
LEMMA NothingMissing ==
  ASSUME R!TypeOK, R!Recommended = {}
  PROVE  R!Status = R!StatusWith(toolRows)
<1> DEFINE A == R!Available(caps, selected)
           B == R!Available(caps, toolRows)
           missing == R!MissingTags(required, A)
<1>1. A \subseteq B
  BY AvailableMonotone DEF R!TypeOK
<1>2. \A t \in toolRows \ selected : caps[t] \cap missing = {}
  BY DEF R!Recommended, R!Recommendations
<1>3. ASSUME NEW c \in Controls
      PROVE  required[c] \cap A = required[c] \cap B
  <2>1. SUFFICES ASSUME NEW g \in required[c], g \in B, g \notin A
                 PROVE  FALSE
    BY <1>1
  <2>2. PICK t \in toolRows : g \in caps[t]
    BY <2>1 DEF R!Available
  <2>3. t \notin selected
    BY <2>1, <2>2 DEF R!Available
  <2>4. g \in missing
    BY <2>1 DEF R!MissingTags, R!TypeOK
  <2> QED
    BY <1>2, <2>2, <2>3, <2>4
<1>4. ASSUME NEW c \in Controls
      PROVE  R!TagStatus(required[c], A) = R!TagStatus(required[c], B)
  BY <1>3, TagStatusSameTags
<1>5. ASSUME NEW c \in Controls
      PROVE  R!ControlStatus(required[c], A, note[c], now)
               = R!ControlStatus(required[c], B, note[c], now)
  BY <1>4 DEF R!ControlStatus
<1> QED
  BY <1>5 DEF R!Status, R!StatusWith

\* When no tool is recommended there is nothing the catalogue could add.
THEOREM RecommendationsAreComplete == MCSpec => []NothingLeftToRecommend
<1>1. R!TypeOK => R!NothingLeftToRecommend
  BY NothingMissing DEF R!NothingLeftToRecommend
<1> QED
  BY <1>1, ReportTypeCorrect, PartsAreIndependent, PTL DEF NothingLeftToRecommend

-----------------------------------------------------------------------------
\* The loop of the crosswalk and the one of the engine count the same.
LEMMA SameCounts ==
  ASSUME R!TypeOK
  PROVE  R!CrosswalkPredictsReport
<1> DEFINE A == R!Available(caps, selected)
           new == [c \in Controls |-> R!NoNote]
           status == [c \in Controls |-> R!ControlStatus(required[c], A, R!NoNote, now)]
           whole == {c \in DOMAIN required : required[c] = {} \/ required[c] \subseteq A}
           part == {c \in DOMAIN required \ whole : required[c] \cap A # {}}
           applicable == {c \in Controls : new[c].is_applicable}
<1>1. \A c \in Controls : status[c] = R!TagStatus(required[c], A)
  BY DEF R!ControlStatus, R!NoNote, R!InForce
<1>2. applicable = Controls /\ DOMAIN required = Controls
  BY DEF R!NoNote, R!TypeOK
<1>3. whole = {c \in applicable : status[c] = "covered"}
  BY <1>1, <1>2 DEF R!TagStatus
<1>4. part = {c \in applicable : status[c] = "partial"}
  BY <1>1, <1>2 DEF R!TagStatus
<1>5. DOMAIN required \ (whole \cup part)
        = {c \in applicable : status[c] \notin {"covered", "partial"}}
  BY <1>2, <1>3, <1>4
<1>6. /\ R!OtherFrameworkCounts(required, A)
           = [covered |-> Cardinality(whole), partial |-> Cardinality(part),
              not_covered |-> Cardinality(DOMAIN required \ (whole \cup part))]
      /\ R!Counts(Controls, status, new)
           = [covered |-> Cardinality({c \in applicable : status[c] = "covered"}),
              partial |-> Cardinality({c \in applicable : status[c] = "partial"}),
              not_covered |-> Cardinality({c \in applicable :
                                             status[c] \notin {"covered", "partial"}})]
  BY SameCardinality DEF R!OtherFrameworkCounts, R!Counts
<1> HIDE DEF whole, part, applicable, status, new, A
<1>7. R!OtherFrameworkCounts(required, A) = R!Counts(Controls, status, new)
  BY <1>3, <1>4, <1>5, <1>6
<1> QED
  BY <1>7 DEF R!CrosswalkPredictsReport, A, status, new

\* What the crosswalk predicts is what the report will say.
THEOREM CrosswalkIsFaithful == MCSpec => []CrosswalkPredictsReport
  BY SameCounts, ReportTypeCorrect, PartsAreIndependent, PTL DEF CrosswalkPredictsReport

-----------------------------------------------------------------------------
\* Unless an override takes a control out of scope, the controls in scope are
\* those that are applicable, and each has one of the three statuses.
LEMMA ScopeIsApplicable ==
  ASSUME R!TypeOK, \A c \in Controls : note[c].override_status # "not_applicable"
  PROVE  /\ R!InScope = {c \in Controls : note[c].is_applicable}
         /\ \A c \in R!InScope : R!Status[c] \in {"covered", "partial", "not_covered"}
<1> DEFINE A == R!Available(caps, selected)
<1>1. ASSUME NEW c \in Controls, ~ note[c].is_applicable
      PROVE  R!Status[c] = "not_applicable"
  BY <1>1 DEF R!Status, R!StatusWith, R!ControlStatus
<1>2. ASSUME NEW c \in Controls, note[c].is_applicable
      PROVE  R!Status[c] \in {"covered", "partial", "not_covered"}
  <2>1. CASE R!InForce(note[c], now)
    <3>1. note[c].override_status \in Overrides
      BY <2>1 DEF R!TypeOK, R!Notes, R!InForce
    <3>2. note[c].override_status \in {"covered", "partial", "not_covered"}
      BY <3>1, ReportAssumption DEF R!CoverageAssumption
    <3> QED
      BY <1>2, <2>1, <3>2 DEF R!Status, R!StatusWith, R!ControlStatus
  <2>2. CASE ~ R!InForce(note[c], now)
    <3>1. R!Status[c] = R!TagStatus(required[c], A)
      BY <1>2, <2>2 DEF R!Status, R!StatusWith, R!ControlStatus
    <3> QED
      BY <3>1 DEF R!TagStatus
  <2> QED
    BY <2>1, <2>2
<1>3. ASSUME NEW c \in Controls
      PROVE  R!Status[c] # "not_applicable" <=> note[c].is_applicable
  <2>1. CASE note[c].is_applicable
    BY <1>2, <2>1
  <2>2. CASE ~ note[c].is_applicable
    BY <1>1, <2>2
  <2> QED
    BY <2>1, <2>2
<1> QED
  BY <1>2, <1>3 DEF R!InScope

LEMMA DisjointUnion ==
  ASSUME NEW S, IsFiniteSet(S), NEW T, IsFiniteSet(T), S \cap T = {}
  PROVE  /\ IsFiniteSet(S \cup T)
         /\ Cardinality(S \cup T) = Cardinality(S) + Cardinality(T)
<1>1. Cardinality(S \cap T) = 0
  BY FS_EmptySet
<1>2. /\ IsFiniteSet(S \cup T)
      /\ Cardinality(S \cup T) = Cardinality(S) + Cardinality(T) - Cardinality(S \cap T)
  BY FS_Union, Zenon
<1>3. Cardinality(S) \in Nat /\ Cardinality(T) \in Nat
  BY FS_CardinalityType
<1> QED
  BY <1>1, <1>2, <1>3

\* Three statuses partition a finite set of controls, and so do their counts.
LEMMA ThreeCounts ==
  ASSUME NEW S, IsFiniteSet(S), NEW status,
         \A c \in S : status[c] \in {"covered", "partial", "not_covered"}
  PROVE  LET cov == {c \in S : status[c] = "covered"}
             part == {c \in S : status[c] = "partial"}
             none == {c \in S : status[c] \notin {"covered", "partial"}}
         IN /\ Cardinality(cov) \in Nat /\ Cardinality(part) \in Nat
            /\ Cardinality(none) \in Nat
            /\ Cardinality(S) = Cardinality(cov) + Cardinality(part) + Cardinality(none)
<1> DEFINE cov == {c \in S : status[c] = "covered"}
           part == {c \in S : status[c] = "partial"}
           none == {c \in S : status[c] \notin {"covered", "partial"}}
<1>1. cov \in SUBSET S /\ part \in SUBSET S /\ none \in SUBSET S
  OBVIOUS
<1>2. /\ cov \cap part = {} /\ (cov \cup part) \cap none = {}
      /\ S = (cov \cup part) \cup none
  OBVIOUS
<1> HIDE DEF cov, part, none
<1>3. IsFiniteSet(cov) /\ IsFiniteSet(part) /\ IsFiniteSet(none)
  BY <1>1, FS_Subset
<1>4. /\ Cardinality(cov) \in Nat /\ Cardinality(part) \in Nat
      /\ Cardinality(none) \in Nat
  BY <1>3, FS_CardinalityType
<1>5. Cardinality({}) = 0
  BY FS_EmptySet
<1>6. /\ IsFiniteSet(cov \cup part)
      /\ Cardinality(cov \cup part) = Cardinality(cov) + Cardinality(part)
  BY <1>2, <1>3, <1>4, DisjointUnion
<1>7. Cardinality((cov \cup part) \cup none)
        = Cardinality(cov \cup part) + Cardinality(none)
  BY <1>2, <1>3, <1>6, DisjointUnion
<1> QED
  BY <1>2, <1>4, <1>6, <1>7 DEF cov, part, none

\* Twice the covered and once the partly covered controls are the total weight.
LEMMA WeightsAreCounted ==
  ASSUME NEW S, IsFiniteSet(S), NEW status,
         \A c \in S : status[c] \in {"covered", "partial", "not_covered"}
  PROVE  Cardinality({p \in S \X {1, 2} : p[2] <= R!Weight[status[p[1]]]})
           = 2 * Cardinality({c \in S : status[c] = "covered"})
               + Cardinality({c \in S : status[c] = "partial"})
<1> DEFINE cov == {c \in S : status[c] = "covered"}
           part == {c \in S : status[c] = "partial"}
           weights == {p \in S \X {1, 2} : p[2] <= R!Weight[status[p[1]]]}
<1>1. ASSUME NEW c \in S, NEW n \in {1, 2}
      PROVE  n <= R!Weight[status[c]]
               <=> c \in cov \/ (c \in part /\ n = 1)
  <2>1. CASE status[c] = "covered"
    BY <2>1 DEF R!Weight
  <2>2. CASE status[c] = "partial"
    BY <2>2 DEF R!Weight
  <2>3. CASE status[c] = "not_covered"
    BY <2>3 DEF R!Weight
  <2> QED
    BY <2>1, <2>2, <2>3
<1>2. weights = (cov \X {1, 2}) \cup (part \X {1})
  <2>1. ASSUME NEW p \in S \X {1, 2}
        PROVE  p \in weights <=> p \in (cov \X {1, 2}) \cup (part \X {1})
    <3>1. PICK c \in S, n \in {1, 2} : p = <<c, n>>
      OBVIOUS
    <3>2. p \in weights <=> n <= R!Weight[status[c]]
      BY <3>1
    <3> HIDE DEF weights
    <3> QED
      BY <1>1, <3>1, <3>2
  <2>2. weights \subseteq S \X {1, 2}
    OBVIOUS
  <2>3. (cov \X {1, 2}) \cup (part \X {1}) \subseteq S \X {1, 2}
    OBVIOUS
  <2> HIDE DEF weights, cov, part
  <2> QED
    BY <2>1, <2>2, <2>3
<1>3. (cov \X {1, 2}) \cap (part \X {1}) = {}
  OBVIOUS
<1>4. IsFiniteSet(cov) /\ IsFiniteSet(part)
  BY FS_Subset
<1> HIDE DEF cov, part, weights
<1>5. Cardinality(cov) \in Nat /\ Cardinality(part) \in Nat
  BY <1>4, FS_CardinalityType
<1>6. /\ IsFiniteSet({1, 2}) /\ Cardinality({1, 2}) = 2
      /\ IsFiniteSet({1}) /\ Cardinality({1}) = 1
  <2>1. 1..2 = {1, 2} /\ 1..1 = {1}
    OBVIOUS
  <2>2. /\ IsFiniteSet(1..2)
        /\ Cardinality(1..2) = IF 1 > 2 THEN 0 ELSE 2 - 1 + 1
        /\ IsFiniteSet(1..1)
        /\ Cardinality(1..1) = IF 1 > 1 THEN 0 ELSE 1 - 1 + 1
    <3>1. 1 \in Int /\ 2 \in Int
      OBVIOUS
    <3> QED
      BY <3>1, FS_Interval, Zenon
  <2> QED
    BY <2>1, <2>2
<1>7. /\ IsFiniteSet(cov \X {1, 2})
      /\ Cardinality(cov \X {1, 2}) = Cardinality(cov) * Cardinality({1, 2})
      /\ IsFiniteSet(part \X {1})
      /\ Cardinality(part \X {1}) = Cardinality(part) * Cardinality({1})
  BY <1>4, <1>6, FS_Product, Zenon
<1>8. Cardinality((cov \X {1, 2}) \cup (part \X {1}))
        = Cardinality(cov \X {1, 2}) + Cardinality(part \X {1})
  BY <1>3, <1>7, DisjointUnion, Zenon
<1>9. Cardinality(weights) = 2 * Cardinality(cov) + Cardinality(part)
  BY <1>2, <1>5, <1>6, <1>7, <1>8
<1> QED
  BY <1>9 DEF weights, cov, part

LEMMA MeanOfWeights == R!TypeOK => R!ScoreIsMean
<1> SUFFICES ASSUME R!TypeOK,
                    \A c \in Controls : note[c].override_status # "not_applicable"
             PROVE  R!ScoreAsDocumented
  BY DEF R!ScoreIsMean
<1> DEFINE cov == Cardinality({c \in R!InScope : R!Status[c] = "covered"})
           part == Cardinality({c \in R!InScope : R!Status[c] = "partial"})
           none == Cardinality({c \in R!InScope : R!Status[c] \notin {"covered", "partial"}})
<1>1. /\ R!InScope = {c \in Controls : note[c].is_applicable}
      /\ \A c \in R!InScope : R!Status[c] \in {"covered", "partial", "not_covered"}
  BY ScopeIsApplicable
<1>2. IsFiniteSet(R!InScope)
  BY ReportAssumption, FS_Subset, SameCardinality DEF R!CoverageAssumption, R!InScope
<1>3. R!Counts(Controls, R!Status, note) = [covered |-> cov, partial |-> part, not_covered |-> none]
  BY <1>1, SameCardinality DEF R!Counts
<1>4. /\ cov \in Nat /\ part \in Nat /\ none \in Nat
      /\ Cardinality(R!InScope) = cov + part + none
  BY <1>1, <1>2, ThreeCounts
<1>5. R!TotalWeight = 2 * cov + part
  BY <1>1, <1>2, WeightsAreCounted, SameCardinality DEF R!TotalWeight
<1>6. R!InScope = {} <=> Cardinality(R!InScope) = 0
  BY <1>2, FS_EmptySet
<1> HIDE DEF cov, part, none
<1>7. R!ReportedScore = IF cov + part + none = 0 THEN 0
                      ELSE R!Rounded(1000 * (2 * cov + part), 2 * (cov + part + none))
  BY <1>3 DEF R!ReportedScore, R!Score
<1> QED
  BY <1>4, <1>5, <1>6, <1>7, SameCardinality DEF R!ScoreAsDocumented

\* The score is (covered + half the partial) / applicable, as the README has it,
\* whatever the number of controls, unless an override takes one out of scope.
THEOREM ScoreIsTheMean == MCSpec => []ScoreIsMean
  BY MeanOfWeights, ReportTypeCorrect, PartsAreIndependent, PTL DEF ScoreIsMean

-----------------------------------------------------------------------------
(***************************************************************************)
(* WorkbookParser (W): the first and the last of a set of rows, and the     *)
(* lists that are made of their cells                                      *)
(***************************************************************************)
\* Sets of naturals have a first element.
LEMMA FirstExists ==
  ASSUME NEW S, S \subseteq Nat, S # {}
  PROVE  W!FirstOf(S) \in S /\ \A j \in S : W!FirstOf(S) <= j
<1> DEFINE Less == OpToRel(<, Nat)
<1>1. IsWellFoundedOn(Less, Nat)
  BY NatLessThanWellFounded, Zenon
<1>2. \A x, y \in Nat : x < y => <<x, y>> \in Less
  BY Zenon DEF OpToRel
<1> HIDE DEF Less
<1>3. PICK x \in S : \A y \in S : ~ (<<y, x>> \in Less)
  BY <1>1, WFMin, Zenon
<1>4. ASSUME NEW j \in S
      PROVE  x <= j
  <2>1. x \in Nat /\ j \in Nat
    OBVIOUS
  <2>2. ~ (j < x)
    BY <1>2, <1>3, <2>1
  <2> QED
    BY <2>1, <2>2
<1> QED
  BY <1>3, <1>4 DEF W!FirstOf

\* So have those within a bound a last one.
LEMMA LastExists ==
  ASSUME NEW n \in Nat, NEW S, S \subseteq 1..n, S # {}
  PROVE  W!LastOf(S) \in S /\ \A j \in S : W!LastOf(S) >= j
<1> DEFINE T == {n - i : i \in S}
<1>1. T \subseteq Nat /\ T # {}
  <2>1. \A i \in S : n - i \in Nat
    OBVIOUS
  <2> QED
    BY <2>1
<1>2. W!FirstOf(T) \in T /\ \A j \in T : W!FirstOf(T) <= j
  BY <1>1, FirstExists
<1>3. PICK x \in S : W!FirstOf(T) = n - x
  BY <1>2
<1>4. \A j \in S : x >= j
  <2> TAKE j \in S
  <2>1. n - x <= n - j
    BY <1>2, <1>3
  <2> QED
    BY <2>1
<1> QED
  BY <1>4 DEF W!LastOf

\* A row that comes after all others is the last, and the first only of its own.
LEMMA OneMore ==
  ASSUME NEW n \in Nat, NEW S, S \subseteq 1..n
  PROVE  /\ W!LastOf(S \cup {n + 1}) = n + 1
         /\ W!FirstOf(S \cup {n + 1}) = IF S = {} THEN n + 1 ELSE W!FirstOf(S)
         /\ S # {} => W!FirstOf(S) \in S
<1> DEFINE T == S \cup {n + 1}
<1>1. T \subseteq 1..(n + 1) /\ T # {}
  OBVIOUS
<1>2. W!LastOf(T) \in T /\ \A j \in T : W!LastOf(T) >= j
  BY <1>1, LastExists, n + 1 \in Nat
<1>3. W!LastOf(T) = n + 1
  <2>1. W!LastOf(T) >= n + 1 /\ W!LastOf(T) \in 1..(n + 1)
    BY <1>1, <1>2
  <2> QED
    BY <2>1
<1>4. W!FirstOf(T) \in T /\ \A j \in T : W!FirstOf(T) <= j
  <2>1. T \subseteq Nat
    BY <1>1
  <2> HIDE DEF T
  <2> QED
    BY <1>1, <2>1, FirstExists
<1>5. ASSUME S # {}
      PROVE  W!FirstOf(S) \in S /\ W!FirstOf(T) = W!FirstOf(S)
  <2>1. W!FirstOf(S) \in S /\ \A j \in S : W!FirstOf(S) <= j
    <3>1. S \subseteq Nat
      OBVIOUS
    <3> QED
      BY <1>5, <3>1, FirstExists
  <2>2. W!FirstOf(S) \in 1..n /\ W!FirstOf(T) \in 1..(n + 1)
    BY <1>1, <1>4, <2>1
  <2>3. W!FirstOf(T) <= W!FirstOf(S)
    BY <1>4, <2>1
  <2>4. W!FirstOf(T) # n + 1
    BY <2>2, <2>3
  <2>5. W!FirstOf(S) <= W!FirstOf(T)
    BY <1>4, <2>1, <2>4
  <2> QED
    BY <2>1, <2>2, <2>3, <2>5
<1>6. S = {} => W!FirstOf(T) = n + 1
  BY <1>4
<1> QED
  BY <1>3, <1>5, <1>6

\* W counts as FiniteSets does.
LEMMA ListsCounted ==
  ASSUME NEW list, NEW S, NEW said
  PROVE  W!Lists(list, S, said) <=>
           /\ Len(list) = Cardinality(S)
           /\ \A i \in S : list[Cardinality({j \in S : j <= i})] = said[i]
BY DEF W!Lists, W!Cardinality, Cardinality, W!IsFiniteSet, IsFiniteSet

\* The list of the cells of some rows is continued by that of a row after them.
LEMMA ListGrows ==
  ASSUME NEW n \in Nat, NEW S, S \subseteq 1..n, NEW X, NEW list \in Seq(X), NEW x \in X,
         NEW said, NEW more, W!Lists(list, S, said), \A i \in S : more[i] = said[i],
         more[n + 1] = x
  PROVE  W!Lists(Append(list, x), S \cup {n + 1}, more)
<1> DEFINE T == S \cup {n + 1}
<1>1. IsFiniteSet(S) /\ n + 1 \notin S
  <2>1. IsFiniteSet(1..n) /\ S \in SUBSET (1..n)
    BY FS_Interval
  <2>2. n + 1 \notin 1..n
    OBVIOUS
  <2> QED
    BY <2>1, <2>2, FS_Subset
<1>2. Cardinality(T) = Cardinality(S) + 1 /\ Cardinality(S) \in Nat
  BY <1>1, FS_AddElement, FS_CardinalityType
<1>3. Len(list) = Cardinality(S) /\ \A i \in S : list[Cardinality({j \in S : j <= i})] = said[i]
  BY ListsCounted
<1>4. ASSUME NEW i \in S
      PROVE  Append(list, x)[Cardinality({j \in T : j <= i})] = more[i]
  <2> DEFINE B == {j \in S : j <= i}
  <2>1. {j \in T : j <= i} = B
    OBVIOUS
  <2>2. B \in SUBSET S /\ B # {}
    OBVIOUS
  <2> HIDE DEF B
  <2>3. IsFiniteSet(B) /\ Cardinality(B) <= Cardinality(S)
    BY <1>1, <2>2, FS_Subset
  <2>4. Cardinality(B) \in Nat /\ Cardinality(B) # 0
    BY <2>2, <2>3, FS_CardinalityType, FS_EmptySet
  <2>5. Cardinality(B) \in 1..Len(list)
    BY <1>2, <1>3, <2>3, <2>4
  <2>6. list[Cardinality(B)] = said[i]
    BY <1>3 DEF B
  <2> QED
    <3>1. Append(list, x)[Cardinality(B)] = list[Cardinality(B)]
      BY <2>5, AppendProperties
    <3> QED
      BY <2>1, <2>6, <3>1
<1>5. {j \in T : j <= n + 1} = T
  <2>1. \A j \in T : j <= n + 1
    OBVIOUS
  <2> QED
    BY <2>1
<1>6. Append(list, x)[Cardinality(T)] = x /\ Len(Append(list, x)) = Cardinality(T)
  BY <1>2, <1>3, AppendProperties
<1> QED
  BY <1>4, <1>5, <1>6, ListsCounted

LEMMA ListOfNone ==
  ASSUME NEW said
  PROVE  W!Lists(<<>>, {}, said)
BY FS_EmptySet, ListsCounted

LEMMA ListStays ==
  ASSUME NEW list, NEW S, NEW said, NEW more, W!Lists(list, S, said),
         \A i \in S : more[i] = said[i]
  PROVE  W!Lists(list, S, more)
BY DEF W!Lists

-----------------------------------------------------------------------------
Cells == [title : Texts \cup {W!None}] \cup [code : Groups]

Titles ==
  Texts \cup {W!None, W!Stub} \cup ((Texts \cup {W!None}) \X {W!None, "function"})

FiledControls == [id : Groups, title : Titles, subs : Seq(Cells)]

\* ControlsInOrder of any controls.
Ordered(made, M) ==
  /\ {made[i].id : i \in 1..Len(made)} = {g \in Groups : M[g] # {}}
  /\ \A i, j \in 1..Len(made) :
       i < j => W!FirstOf(M[made[i].id]) < W!FirstOf(M[made[j].id])

\* The control of g, which M has, is kept, or is added at the end.
OneFiled(old, new, M, g) ==
  \/ M[g] # {} /\ Len(new) = Len(old) /\ \A i \in 1..Len(old) : new[i].id = old[i].id
  \/ /\ M[g] = {} /\ Len(new) = Len(old) + 1 /\ new[Len(new)].id = g
     /\ \A i \in 1..Len(old) : new[i].id = old[i].id

\* A row that goes to a group keeps the order: the group has a control, or gets
\* one at the end.
LEMMA OrderKept ==
  ASSUME NEW n \in Nat, NEW M, \A h \in Groups : M[h] \subseteq 1..n,
         NEW g \in Groups, NEW M2,
         \A h \in Groups : M2[h] = IF h = g THEN M[h] \cup {n + 1} ELSE M[h],
         NEW old \in Seq(FiledControls), Ordered(old, M),
         NEW new \in Seq(FiledControls), OneFiled(old, new, M, g)
  PROVE  Ordered(new, M2)
<1>1. Len(old) \in Nat /\ Len(new) \in Nat /\ \A i \in 1..Len(old) : old[i].id \in Groups
  <2>1. \A i \in 1..Len(old) : old[i] \in FiledControls
    OBVIOUS
  <2> QED
    BY <2>1 DEF FiledControls
<1>2. \A h \in Groups : M[h] # {} =>
        W!FirstOf(M2[h]) = W!FirstOf(M[h]) /\ W!FirstOf(M[h]) \in 1..n
  <2> TAKE h \in Groups
  <2> HAVE M[h] # {}
  <2>1. W!FirstOf(M[h]) \in M[h] /\ W!FirstOf(M[h] \cup {n + 1}) = W!FirstOf(M[h])
    BY OneMore
  <2> QED
    BY <2>1
<1>3. \A i \in 1..Len(old) : M[old[i].id] # {}
  BY DEF Ordered
<1>4. \A i, j \in 1..Len(old) :
        i < j => W!FirstOf(M2[old[i].id]) < W!FirstOf(M2[old[j].id])
  BY <1>1, <1>2, <1>3 DEF Ordered
<1>5. {h \in Groups : M2[h] # {}} = {h \in Groups : M[h] # {}} \cup {g}
  OBVIOUS
<1>6. CASE M[g] # {} /\ Len(new) = Len(old) /\ \A i \in 1..Len(old) : new[i].id = old[i].id
  <2>1. {new[i].id : i \in 1..Len(new)} = {old[i].id : i \in 1..Len(old)}
    BY <1>6
  <2>2. {new[i].id : i \in 1..Len(new)} = {h \in Groups : M2[h] # {}}
    BY <1>5, <1>6, <2>1 DEF Ordered
  <2> QED
    BY <1>4, <1>6, <2>2 DEF Ordered
<1>7. CASE /\ M[g] = {} /\ Len(new) = Len(old) + 1 /\ new[Len(new)].id = g
           /\ \A i \in 1..Len(old) : new[i].id = old[i].id
  <2>1. {new[i].id : i \in 1..Len(new)} = {old[i].id : i \in 1..Len(old)} \cup {g}
    <3>1. 1..Len(new) = 1..Len(old) \cup {Len(new)}
      BY <1>1, <1>7
    <3> QED
      BY <1>7, <3>1
  <2>2. {new[i].id : i \in 1..Len(new)} = {h \in Groups : M2[h] # {}}
    BY <1>5, <2>1 DEF Ordered
  <2>3. W!FirstOf(M2[g]) = n + 1
    BY <1>7, OneMore
  <2>4. ASSUME NEW i \in 1..Len(new), NEW j \in 1..Len(new), i < j
        PROVE  W!FirstOf(M2[new[i].id]) < W!FirstOf(M2[new[j].id])
    <3>1. i \in 1..Len(old)
      BY <1>1, <1>7, <2>4
    <3>2. CASE j \in 1..Len(old)
      BY <1>4, <1>7, <2>4, <3>1, <3>2
    <3>3. CASE j = Len(new)
      BY <1>1, <1>2, <1>3, <1>7, <2>3, <3>1, <3>3
    <3> QED
      BY <1>1, <1>7, <3>2, <3>3
  <2> QED
    BY <2>2, <2>4 DEF Ordered
<1> QED
  BY <1>6, <1>7 DEF OneFiled

-----------------------------------------------------------------------------
\* CisSafeguardsAreFiled of one control, given the rows of the book and which of
\* them are its own.
CisFilled(control, list, mine) ==
  LET titled == {j \in mine : list[j].number = 0 /\ list[j].title # W!None}
  IN /\ W!Lists(control.subs, {j \in mine : list[j].number # 0},
              [i \in 1..Len(list) |-> [title |-> list[i].title]])
     /\ control.title = IF titled # {} THEN list[W!LastOf(titled)].title
                        ELSE IF list[W!FirstOf(mine)].number = 0 THEN W!None
                        ELSE W!Stub

\* A row of another control changes nothing.
LEMMA CisStays ==
  ASSUME NEW list \in Seq(W!CisRows), NEW row \in W!CisRows, NEW mine,
         mine \subseteq 1..Len(list), mine # {},
         NEW control, CisFilled(control, list, mine)
  PROVE  CisFilled(control, Append(list, row), mine)
<1> DEFINE more == Append(list, row)
           n == Len(list)
           titled == {j \in mine : list[j].number = 0 /\ list[j].title # W!None}
           cells(l) == [i \in 1..Len(l) |-> [title |-> l[i].title]]
<1>1. n \in Nat /\ Len(more) = n + 1 /\ \A i \in 1..n : more[i] = list[i]
  BY AppendProperties
<1> HIDE DEF more, n
<1>2. {j \in mine : more[j].number # 0} = {j \in mine : list[j].number # 0}
  BY <1>1 DEF n
<1>3. {j \in mine : more[j].number = 0 /\ more[j].title # W!None} = titled
  BY <1>1 DEF n
<1>4. \A i \in mine : cells(more)[i] = cells(list)[i]
  BY <1>1 DEF n
<1>5. W!Lists(control.subs, {j \in mine : more[j].number # 0}, cells(more))
  <2> DEFINE S == {j \in mine : list[j].number # 0}
  <2>1. W!Lists(control.subs, S, cells(list))
    BY DEF CisFilled
  <2>2. \A i \in S : cells(more)[i] = cells(list)[i]
    BY <1>4
  <2>3. {j \in mine : more[j].number # 0} = S
    BY <1>2
  <2> HIDE DEF S, cells
  <2> QED
    BY <2>1, <2>2, <2>3, ListStays
<1>6. titled # {} => W!LastOf(titled) \in mine
  <2>1. titled \subseteq 1..n
    BY DEF n
  <2> QED
    BY <1>1, <2>1, LastExists
<1>7. W!FirstOf(mine) \in mine
  <2>1. mine \subseteq Nat
    BY <1>1 DEF n
  <2> QED
    BY <2>1, FirstExists
<1>8. \A i \in mine : more[i] = list[i]
  BY <1>1 DEF n
<1> HIDE DEF titled, cells
<1>9. control.title = IF titled # {} THEN list[W!LastOf(titled)].title
                     ELSE IF list[W!FirstOf(mine)].number = 0 THEN W!None ELSE W!Stub
  BY DEF CisFilled, titled
<1>10. control.title = IF titled # {} THEN more[W!LastOf(titled)].title
                     ELSE IF more[W!FirstOf(mine)].number = 0 THEN W!None ELSE W!Stub
  BY <1>6, <1>7, <1>8, <1>9
<1> QED
  BY <1>3, <1>5, <1>10 DEF CisFilled, cells, more

\* One of its own is listed below it if it is a safeguard's, and may give it a
\* title if it is its own.
LEMMA CisGains ==
  ASSUME NEW list \in Seq(W!CisRows), NEW row \in W!CisRows, NEW mine,
         mine \subseteq 1..Len(list), mine # {},
         NEW old \in FiledControls, CisFilled(old, list, mine), NEW new,
         new.subs = IF row.number # 0 THEN Append(old.subs, [title |-> row.title]) ELSE old.subs,
         new.title = IF row.number = 0 /\ row.title # W!None THEN row.title ELSE old.title
  PROVE  CisFilled(new, Append(list, row), mine \cup {Len(list) + 1})
<1> DEFINE more == Append(list, row)
           n == Len(list)
           cells(l) == [i \in 1..Len(l) |-> [title |-> l[i].title]]
           numbered(l, S) == {j \in S : l[j].number # 0}
           titled(l, S) == {j \in S : l[j].number = 0 /\ l[j].title # W!None}
           all == mine \cup {n + 1}
<1>1. n \in Nat /\ Len(more) = n + 1 /\ more[n + 1] = row
        /\ \A i \in mine : more[i] = list[i]
  BY AppendProperties
<1>2. CisFilled(old, more, mine)
  BY CisStays
<1> HIDE DEF more, n
<1>3. old.subs \in Seq(Cells) /\ [title |-> row.title] \in Cells /\ mine \subseteq 1..n
  BY DEF FiledControls, Cells, W!CisRows, n
<1>4. /\ W!Lists(old.subs, numbered(more, mine), cells(more))
      /\ old.title = IF titled(more, mine) # {} THEN more[W!LastOf(titled(more, mine))].title
                     ELSE IF more[W!FirstOf(mine)].number = 0 THEN W!None ELSE W!Stub
  BY <1>2 DEF CisFilled
<1>5. numbered(more, all) = IF row.number # 0 THEN numbered(more, mine) \cup {n + 1}
                            ELSE numbered(more, mine)
  BY <1>1
<1>6. titled(more, all) = IF row.number = 0 /\ row.title # W!None
                            THEN titled(more, mine) \cup {n + 1} ELSE titled(more, mine)
  BY <1>1
<1>7. cells(more)[n + 1] = [title |-> row.title]
  BY <1>1
<1>8. numbered(more, mine) \subseteq 1..n /\ titled(more, mine) \subseteq 1..n
  BY <1>3
<1> HIDE DEF numbered, titled, cells
<1>9. W!Lists(new.subs, numbered(more, all), cells(more))
  <2>1. CASE row.number # 0
    <3> DEFINE S == numbered(more, mine)
               said == cells(more)
               x == [title |-> row.title]
    <3>1. /\ S \subseteq 1..n /\ W!Lists(old.subs, S, said) /\ \A i \in S : said[i] = said[i]
          /\ said[n + 1] = x /\ x \in Cells /\ old.subs \in Seq(Cells) /\ n \in Nat
      BY <1>1, <1>3, <1>4, <1>7, <1>8
    <3>2. new.subs = Append(old.subs, x) /\ numbered(more, all) = S \cup {n + 1}
      BY <1>5, <2>1
    <3> HIDE DEF S, said, x
    <3>3. W!Lists(Append(old.subs, x), S \cup {n + 1}, said)
      BY <3>1, ListGrows
    <3> QED
      BY <3>2, <3>3 DEF said
  <2>2. CASE row.number = 0
    BY <1>4, <1>5, <2>2
  <2> QED
    BY <2>1, <2>2
<1>10. W!FirstOf(all) = W!FirstOf(mine)
  BY <1>1, <1>3, OneMore
<1>11. new.title = IF titled(more, all) # {} THEN more[W!LastOf(titled(more, all))].title
                   ELSE IF more[W!FirstOf(all)].number = 0 THEN W!None ELSE W!Stub
  <2>1. CASE row.number = 0 /\ row.title # W!None
    <3>1. W!LastOf(titled(more, all)) = n + 1 /\ titled(more, all) # {}
      BY <1>1, <1>6, <1>8, <2>1, OneMore
    <3> QED
      BY <1>1, <2>1, <3>1
  <2>2. CASE ~ (row.number = 0 /\ row.title # W!None)
    BY <1>4, <1>6, <1>10, <2>2
  <2> QED
    BY <2>1, <2>2
<1> QED
  BY <1>9, <1>11 DEF CisFilled, numbered, titled, cells, all, more, n

\* The row that makes a control.
LEMMA CisBegins ==
  ASSUME NEW list \in Seq(W!CisRows), NEW row \in W!CisRows, NEW new,
         new.subs = IF row.number # 0 THEN <<[title |-> row.title]>> ELSE <<>>,
         new.title = IF row.number # 0 THEN W!Stub ELSE row.title
  PROVE  CisFilled(new, Append(list, row), {Len(list) + 1})
<1> DEFINE more == Append(list, row)
           n == Len(list)
           cells == [i \in 1..Len(more) |-> [title |-> more[i].title]]
           numbered == {j \in {n + 1} : more[j].number # 0}
           titled == {j \in {n + 1} : more[j].number = 0 /\ more[j].title # W!None}
<1>1. n \in Nat /\ Len(more) = n + 1 /\ more[n + 1] = row
  BY AppendProperties
<1>2. W!FirstOf({n + 1}) = n + 1 /\ W!LastOf({n + 1}) = n + 1
  BY <1>1, OneMore, {} \subseteq 1..n, {} \cup {n + 1} = {n + 1}
<1> HIDE DEF more, n
<1>3. numbered = IF row.number # 0 THEN {n + 1} ELSE {}
  BY <1>1
<1>4. titled = IF row.number = 0 /\ row.title # W!None THEN {n + 1} ELSE {}
  BY <1>1
<1>5. cells[n + 1] = [title |-> row.title]
  BY <1>1
<1> HIDE DEF numbered, titled, cells
<1>6. W!Lists(new.subs, numbered, cells)
  <2>1. CASE row.number # 0
    <3>1. W!Lists(<<>>, {}, cells)
      BY ListOfNone
    <3>2. [title |-> row.title] \in Cells /\ <<>> \in Seq(Cells)
      BY DEF Cells, W!CisRows
    <3>3. W!Lists(Append(<<>>, [title |-> row.title]), {} \cup {n + 1}, cells)
      BY <1>1, <1>5, <3>1, <3>2, ListGrows, {} \subseteq 1..n
    <3>4. Append(<<>>, [title |-> row.title]) = <<[title |-> row.title]>>
      BY <3>2
    <3> QED
      BY <1>3, <2>1, <3>3, <3>4
  <2>2. CASE row.number = 0
    BY <1>3, <2>2, ListOfNone
  <2> QED
    BY <2>1, <2>2
<1>7. new.title = IF titled # {} THEN more[W!LastOf(titled)].title
                  ELSE IF more[W!FirstOf({n + 1})].number = 0 THEN W!None ELSE W!Stub
  BY <1>1, <1>2, <1>4
<1> QED
  BY <1>6, <1>7 DEF CisFilled, numbered, titled, cells, more, n

\* The control of the row's group, which M has, gains the row, or begins with it
\* at the end.
CisGiven(old, new, M, row) ==
  \/ /\ M[row.group] # {} /\ Len(new) = Len(old)
     /\ \A i \in 1..Len(old) :
          /\ new[i].id = old[i].id
          /\ old[i].id # row.group => new[i] = old[i]
          /\ old[i].id = row.group =>
               /\ new[i].subs = IF row.number # 0 THEN Append(old[i].subs, [title |-> row.title])
                                ELSE old[i].subs
               /\ new[i].title = IF row.number = 0 /\ row.title # W!None THEN row.title
                                 ELSE old[i].title
  \/ /\ M[row.group] = {} /\ Len(new) = Len(old) + 1 /\ new[Len(new)].id = row.group
     /\ \A i \in 1..Len(old) : new[i] = old[i]
     /\ new[Len(new)].subs = IF row.number # 0 THEN <<[title |-> row.title]>> ELSE <<>>
     /\ new[Len(new)].title = IF row.number # 0 THEN W!Stub ELSE row.title

\* A row that goes to a group, in a list of controls that are all filed: the
\* group's control gains it, or it begins one at the end.
LEMMA CisFiles ==
  ASSUME NEW list \in Seq(W!CisRows), NEW row \in W!CisRows,
         NEW M, \A h \in Groups : M[h] \subseteq 1..Len(list),
         NEW g \in Groups, NEW M2,
         \A h \in Groups : M2[h] = IF h = g THEN M[h] \cup {Len(list) + 1} ELSE M[h],
         NEW old \in Seq(FiledControls), Ordered(old, M),
         \A i \in 1..Len(old) : CisFilled(old[i], list, M[old[i].id]),
         NEW new \in Seq(FiledControls), g = row.group,
         CisGiven(old, new, M, row)
  PROVE  /\ Ordered(new, M2)
         /\ \A i \in 1..Len(new) : CisFilled(new[i], Append(list, row), M2[new[i].id])
<1>1. Len(list) \in Nat /\ Len(old) \in Nat
  OBVIOUS
<1>2. Ordered(new, M2)
  <2> DEFINE n == Len(list)
  <2>0. /\ n \in Nat /\ \A h \in Groups : M[h] \subseteq 1..n
        /\ \A h \in Groups : M2[h] = IF h = g THEN M[h] \cup {n + 1} ELSE M[h]
    BY <1>1
  <2> HIDE DEF n
  <2>1. OneFiled(old, new, M, g)
    BY DEF OneFiled, CisGiven
  <2> QED
    BY <2>0, <2>1, OrderKept
<1>3. \A i \in 1..Len(old) :
        /\ old[i] \in FiledControls /\ old[i].id \in Groups
        /\ M[old[i].id] \subseteq 1..Len(list) /\ M[old[i].id] # {}
  <2>1. \A i \in 1..Len(old) : old[i] \in FiledControls
    OBVIOUS
  <2> QED
    BY <2>1 DEF FiledControls, Ordered
<1>4. ASSUME NEW i \in 1..Len(old), new[i] = old[i], old[i].id # g
      PROVE  CisFilled(new[i], Append(list, row), M2[new[i].id])
  <2>1. CisFilled(old[i], Append(list, row), M[old[i].id])
    BY <1>3, CisStays
  <2>2. M2[new[i].id] = M[old[i].id]
    BY <1>3, <1>4
  <2> QED
    BY <1>4, <2>1, <2>2
<1>5. ASSUME NEW i \in 1..Len(old), M[g] # {}, old[i].id = g
      PROVE  CisFilled(new[i], Append(list, row), M2[new[i].id])
  <2>1. /\ new[i].id = g
        /\ new[i].subs = IF row.number # 0 THEN Append(old[i].subs, [title |-> row.title])
                         ELSE old[i].subs
        /\ new[i].title = IF row.number = 0 /\ row.title # W!None THEN row.title ELSE old[i].title
    BY <1>5 DEF CisGiven
  <2>2. CisFilled(old[i], list, M[g]) /\ M2[g] = M[g] \cup {Len(list) + 1}
    BY <1>5
  <2>3. old[i] \in FiledControls /\ M[g] \subseteq 1..Len(list) /\ M[g] # {}
    BY <1>3, <1>5
  <2>4. CisFilled(new[i], Append(list, row), M[g] \cup {Len(list) + 1})
    BY <2>1, <2>2, <2>3, CisGains
  <2> QED
    BY <2>1, <2>2, <2>4
<1>6. CASE M[g] # {} /\ Len(new) = Len(old)
  <2>1. \A i \in 1..Len(old) : old[i].id # g => new[i] = old[i]
    BY <1>6 DEF CisGiven
  <2> QED
    BY <1>2, <1>4, <1>5, <1>6, <2>1
<1>7. CASE M[g] = {} /\ Len(new) = Len(old) + 1
  <2>1. CisFilled(new[Len(new)], Append(list, row), {Len(list) + 1})
    BY <1>7, CisBegins DEF CisGiven
  <2>2. M2[g] = {Len(list) + 1} /\ new[Len(new)].id = g
    BY <1>7 DEF CisGiven
  <2>3. \A i \in 1..Len(old) : new[i] = old[i] /\ old[i].id # g
    BY <1>3, <1>7 DEF CisGiven
  <2>4. \A i \in 1..Len(new) : i \in 1..Len(old) \/ i = Len(new)
    BY <1>1, <1>7
  <2> QED
    BY <1>2, <1>4, <2>1, <2>2, <2>3, <2>4
<1> QED
  BY <1>6, <1>7 DEF CisGiven

-----------------------------------------------------------------------------
\* Reading one row more.
LEMMA DataGrows ==
  ASSUME NEW X, rowsRead \in Seq(X), NEW row \in X, rowsRead' = Append(rowsRead, row), book' = book
  PROVE  /\ Len(rowsRead) \in Nat /\ Len(rowsRead') = Len(rowsRead) + 1 /\ rowsRead' \in Seq(X)
         /\ W!DataRows \subseteq 1..Len(rowsRead)
         /\ W!InHeader => W!DataRows = {} /\ W!DataRows' = {}
         /\ ~ W!InHeader => W!DataRows' = W!DataRows \cup {Len(rowsRead) + 1}
         /\ \A i \in 1..Len(rowsRead) : rowsRead'[i] = rowsRead[i] /\ rowsRead[i] \in X
         /\ rowsRead'[Len(rowsRead) + 1] = row
<1>1. /\ Len(rowsRead) \in Nat /\ Len(rowsRead') = Len(rowsRead) + 1 /\ rowsRead' \in Seq(X)
      /\ \A i \in 1..Len(rowsRead) : rowsRead'[i] = rowsRead[i] /\ rowsRead[i] \in X
      /\ rowsRead'[Len(rowsRead) + 1] = row
      /\ rowsRead = <<>> <=> Len(rowsRead) = 0
  BY AppendProperties, EmptySeq
<1>2. W!InHeader => W!DataRows = {} /\ W!DataRows' = {}
  BY <1>1 DEF W!InHeader, W!DataRows
<1>3. ~ W!InHeader => W!DataRows' = W!DataRows \cup {Len(rowsRead) + 1}
  <2> SUFFICES ASSUME ~ W!InHeader
               PROVE  W!DataRows' = W!DataRows \cup {Len(rowsRead) + 1}
    OBVIOUS
  <2>1. book.headed \/ Len(rowsRead) + 1 > 1
    BY <1>1 DEF W!InHeader
  <2>2. 1..Len(rowsRead') = 1..Len(rowsRead) \cup {Len(rowsRead) + 1}
    BY <1>1
  <2> QED
    BY <2>1, <2>2 DEF W!DataRows
<1> QED
  BY <1>1, <1>2, <1>3 DEF W!DataRows

\* A control is found if some row has been given to its group.
LEMMA FindsOrdered ==
  ASSUME NEW M, Ordered(parsed, M), NEW g \in Groups
  PROVE  W!Find(g) = {} <=> M[g] = {}
BY DEF Ordered, W!Find

\* The rows of a group grow by the row that is kept and names it.
LEMMA CisRowsGrow ==
  ASSUME rowsRead \in Seq(W!CisRows), NEW row \in W!CisRows, W!Turn("cis", row)
  PROVE  \A h \in Groups :
           /\ W!CisRowsOf[h] \subseteq 1..Len(rowsRead)
           /\ W!CisRowsOf'[h] = 
                IF ~ W!InHeader /\ W!CisKept(row) /\ row.group = h
                  THEN W!CisRowsOf[h] \cup {Len(rowsRead) + 1} ELSE W!CisRowsOf[h]
<1> TAKE h \in Groups
<1>1. rowsRead' = Append(rowsRead, row) /\ book' = book
  BY DEF W!Turn
<1>2. /\ Len(rowsRead) \in Nat
      /\ W!DataRows \subseteq 1..Len(rowsRead)
      /\ W!InHeader => W!DataRows = {} /\ W!DataRows' = {}
      /\ ~ W!InHeader => W!DataRows' = W!DataRows \cup {Len(rowsRead) + 1}
      /\ \A i \in 1..Len(rowsRead) : rowsRead'[i] = rowsRead[i]
      /\ rowsRead'[Len(rowsRead) + 1] = row
  BY <1>1, DataGrows
<1>3. /\ W!CisRowsOf[h] = {i \in W!DataRows : rowsRead[i].group = h /\ W!CisKept(rowsRead[i])}
      /\ W!CisRowsOf'[h] = {i \in W!DataRows' : rowsRead'[i].group = h /\ W!CisKept(rowsRead[i])'}
  BY DEF W!CisRowsOf
<1>4. \A i \in 1..Len(rowsRead) : W!CisKept(rowsRead[i])' <=> W!CisKept(rowsRead[i])
  BY <1>1, <1>2 DEF W!CisKept, W!RowIg
<1>5. {i \in W!DataRows : rowsRead'[i].group = h /\ W!CisKept(rowsRead[i])'} = W!CisRowsOf[h]
  BY <1>2, <1>3, <1>4
<1>6. ASSUME NEW i, i = Len(rowsRead) + 1
      PROVE  W!CisKept(rowsRead[i])' <=> W!CisKept(row)
  BY <1>1, <1>2, <1>6 DEF W!CisKept, W!RowIg
<1>7. CASE W!InHeader
  BY <1>2, <1>3, <1>7
<1>8. CASE ~ W!InHeader
  BY <1>2, <1>3, <1>5, <1>6, <1>8
<1> QED
  BY <1>2, <1>3, <1>7, <1>8

\* A control with another list or another title.
LEMMA ControlExcept ==
  ASSUME NEW c \in FiledControls, NEW x
  PROVE  /\ [c EXCEPT !.subs = x] = [id |-> c.id, title |-> c.title, subs |-> x]
         /\ [c EXCEPT !.title = x] = [id |-> c.id, title |-> x, subs |-> c.subs]
BY DEF FiledControls

\* What Filed does to the controls.
LEMMA FiledShape ==
  ASSUME parsed \in Seq(FiledControls), NEW g \in Groups, NEW title \in Titles,
         NEW sub \in Cells, NEW new, new = W!Filed(g, W!NewControl(g, title, <<>>), sub)
  PROVE  /\ new \in Seq(FiledControls)
         /\ W!Find(g) # {} =>
              /\ Len(new) = Len(parsed)
              /\ \A i \in 1..Len(parsed) :
                   /\ new[i].id = parsed[i].id
                   /\ parsed[i].id # g => new[i] = parsed[i]
                   /\ parsed[i].id = g => /\ new[i].subs = Append(parsed[i].subs, sub)
                                            /\ new[i].title = parsed[i].title
         /\ W!Find(g) = {} =>
              /\ Len(new) = Len(parsed) + 1 /\ new[Len(new)].id = g
              /\ \A i \in 1..Len(parsed) : new[i] = parsed[i]
              /\ new[Len(new)].subs = <<sub>> /\ new[Len(new)].title = title
<1>1. Len(parsed) \in Nat /\ \A i \in 1..Len(parsed) :
        /\ parsed[i] \in FiledControls
        /\ parsed[i] = [id |-> parsed[i].id, title |-> parsed[i].title,
                          subs |-> parsed[i].subs]
        /\ parsed[i].id \in Groups /\ parsed[i].title \in Titles
        /\ parsed[i].subs \in Seq(Cells)
  <2>1. Len(parsed) \in Nat /\ \A i \in 1..Len(parsed) : parsed[i] \in FiledControls
    OBVIOUS
  <2> QED
    BY <2>1 DEF FiledControls
<1>2. CASE W!Find(g) = {}
  <2> DEFINE added == [id |-> g, title |-> title, subs |-> <<sub>>]
  <2>1. new = Append(parsed, added)
    BY <1>2 DEF W!Filed, W!NewControl
  <2>2. added \in FiledControls
    BY DEF FiledControls
  <2>3. added.id = g /\ added.title = title /\ added.subs = <<sub>>
    OBVIOUS
  <2> HIDE DEF added
  <2> QED
    BY <1>1, <1>2, <2>1, <2>2, <2>3, AppendProperties
<1>3. CASE W!Find(g) # {}
  <2> DEFINE gains(i) == [parsed[i] EXCEPT !.subs = Append(@, sub)]
  <2>1. \A i \in 1..Len(parsed) :
          /\ gains(i) = [id |-> parsed[i].id, title |-> parsed[i].title,
                         subs |-> Append(parsed[i].subs, sub)]
          /\ gains(i) \in FiledControls
    <3> TAKE i \in 1..Len(parsed)
    <3>1. gains(i) = [id |-> parsed[i].id, title |-> parsed[i].title,
                      subs |-> Append(parsed[i].subs, sub)]
      BY <1>1, ControlExcept
    <3>2. Append(parsed[i].subs, sub) \in Seq(Cells)
      BY <1>1, AppendProperties
    <3> QED
      BY <1>1, <3>1, <3>2 DEF FiledControls
  <2>2. new = [i \in 1..Len(parsed) |-> IF i \in W!Find(g) THEN gains(i) ELSE parsed[i]]
    BY <1>3 DEF W!Filed
  <2>3. \A i \in 1..Len(parsed) : i \in W!Find(g) <=> parsed[i].id = g
    BY DEF W!Find
  <2>4. /\ \A i \in 1..Len(parsed) : gains(i).id = parsed[i].id
                                       /\ gains(i).title = parsed[i].title
                                       /\ gains(i).subs = Append(parsed[i].subs, sub)
    BY <2>1
  <2> HIDE DEF gains
  <2>5. new \in [1..Len(parsed) -> FiledControls]
    BY <1>1, <2>1, <2>2
  <2>6. new \in Seq(FiledControls) /\ Len(new) = Len(parsed)
    BY <1>1, <2>5, LenProperties
  <2> QED
    BY <1>1, <1>3, <2>2, <2>3, <2>4, <2>6
<1> QED
  BY <1>2, <1>3

\* What a title does to the controls.
LEMMA RetitledShape ==
  ASSUME parsed \in Seq(FiledControls), NEW row \in W!CisRows,
         NEW new, new = W!Retitled(row)
  PROVE  /\ new \in Seq(FiledControls) /\ Len(new) = Len(parsed)
         /\ \A i \in 1..Len(parsed) :
              /\ new[i].id = parsed[i].id
              /\ parsed[i].id # row.group => new[i] = parsed[i]
              /\ new[i].subs = parsed[i].subs
              /\ parsed[i].id = row.group =>
                   new[i].title = IF row.title # W!None THEN row.title ELSE parsed[i].title
<1>1. Len(parsed) \in Nat /\ \A i \in 1..Len(parsed) :
        /\ parsed[i] \in FiledControls
        /\ parsed[i] = [id |-> parsed[i].id, title |-> parsed[i].title,
                          subs |-> parsed[i].subs]
        /\ parsed[i].id \in Groups /\ parsed[i].title \in Titles
        /\ parsed[i].subs \in Seq(Cells)
  <2>1. Len(parsed) \in Nat /\ \A i \in 1..Len(parsed) : parsed[i] \in FiledControls
    OBVIOUS
  <2> QED
    BY <2>1 DEF FiledControls
<1>2. row.title \in Titles
  BY DEF W!CisRows, Titles
<1> DEFINE named(i) == [parsed[i] EXCEPT !.title = row.title]
<1>3. \A i \in 1..Len(parsed) :
        /\ named(i) \in FiledControls /\ named(i).id = parsed[i].id
        /\ named(i).subs = parsed[i].subs /\ named(i).title = row.title
  <2> TAKE i \in 1..Len(parsed)
  <2>1. named(i) = [id |-> parsed[i].id, title |-> row.title, subs |-> parsed[i].subs]
    BY <1>1, ControlExcept
  <2> QED
    BY <1>1, <1>2, <2>1 DEF FiledControls
<1>4. \A i \in 1..Len(parsed) : i \in W!Find(row.group) <=> parsed[i].id = row.group
  BY DEF W!Find
<1>5. new = [i \in 1..Len(parsed) |->
               IF i \in W!Find(row.group) /\ row.title # W!None THEN named(i) ELSE parsed[i]]
  BY DEF W!Retitled
<1> HIDE DEF named
<1>6. new \in [1..Len(parsed) -> FiledControls]
  BY <1>1, <1>3, <1>5
<1>7. new \in Seq(FiledControls) /\ Len(new) = Len(parsed)
  BY <1>1, <1>6, LenProperties
<1> QED
  BY <1>1, <1>3, <1>4, <1>5, <1>7

-----------------------------------------------------------------------------
\* CisSafeguardsAreFiled, in the words of the lemmas.
CisAll ==
  /\ Ordered(parsed, W!CisRowsOf)
  /\ \A i \in 1..Len(parsed) : CisFilled(parsed[i], rowsRead, W!CisRowsOf[parsed[i].id])

LEMMA CisReads ==
  /\ W!CisSafeguardsAreFiled <=> (book.format = "cis" => CisAll)
  /\ W!CisSafeguardsAreFiled' <=> (book'.format = "cis" => CisAll')
<1>1. W!CisSafeguardsAreFiled <=> (book.format = "cis" => CisAll)
  BY DEF W!CisSafeguardsAreFiled, CisAll, W!ControlsInOrder, Ordered, CisFilled,
         W!CisSubs, W!CisTitle
<1>2. W!CisSafeguardsAreFiled' <=> (book'.format = "cis" => CisAll')
  BY DEF W!CisSafeguardsAreFiled, CisAll, W!ControlsInOrder, Ordered, CisFilled,
         W!CisSubs, W!CisTitle
<1> QED
  BY <1>1, <1>2

\* A row that goes nowhere leaves the controls as they should be.
LEMMA CisRowPasses ==
  ASSUME rowsRead \in Seq(W!CisRows), parsed \in Seq(FiledControls), CisAll,
         NEW row \in W!CisRows, W!Turn("cis", row), W!InHeader \/ ~ W!CisKept(row),
         parsed' = parsed
  PROVE  CisAll'
<1>1. \A h \in Groups :
        W!CisRowsOf[h] \subseteq 1..Len(rowsRead) /\ W!CisRowsOf'[h] = W!CisRowsOf[h]
  BY CisRowsGrow
<1>2. rowsRead' = Append(rowsRead, row)
  BY DEF W!Turn
<1>3. \A i \in 1..Len(parsed) : parsed[i].id \in Groups
  <2>1. \A i \in 1..Len(parsed) : parsed[i] \in FiledControls
    OBVIOUS
  <2> QED
    BY <2>1 DEF FiledControls
<1>4. Ordered(parsed', W!CisRowsOf')
  BY <1>1, <1>3 DEF Ordered, CisAll
<1>5. ASSUME NEW i \in 1..Len(parsed)
      PROVE  CisFilled(parsed'[i], rowsRead', W!CisRowsOf'[parsed'[i].id])
  <2>1. W!CisRowsOf[parsed[i].id] \subseteq 1..Len(rowsRead) /\ W!CisRowsOf[parsed[i].id] # {}
    BY <1>1, <1>3 DEF CisAll, Ordered
  <2>2. CisFilled(parsed[i], rowsRead, W!CisRowsOf[parsed[i].id])
    BY DEF CisAll
  <2>3. CisFilled(parsed[i], Append(rowsRead, row), W!CisRowsOf[parsed[i].id])
    BY <2>1, <2>2, CisStays
  <2> QED
    BY <1>1, <1>2, <1>3, <2>3
<1>6. CisAll' = (/\ Ordered(parsed', W!CisRowsOf')
                 /\ \A i \in 1..Len(parsed') :
                      CisFilled(parsed'[i], rowsRead', W!CisRowsOf'[parsed'[i].id]))
  BY DEF CisAll, Ordered, CisFilled
<1> QED
  BY <1>4, <1>5, <1>6

\* Nor does one that is filed.
LEMMA CisRowFiled ==
  ASSUME rowsRead \in Seq(W!CisRows), parsed \in Seq(FiledControls), CisAll, W!WorkbookAssumption,
         NEW row \in W!CisRows, W!FileSafeguard(row) \/ W!FileControl(row)
  PROVE  CisAll' /\ parsed' \in Seq(FiledControls)
<1>1. W!Turn("cis", row) /\ ~ W!InHeader /\ W!CisKept(row) /\ rowsRead' = Append(rowsRead, row)
  BY DEF W!FileSafeguard, W!FileControl, W!Turn
<1>2. row.group \in Groups
  BY <1>1 DEF W!CisKept, W!CisRows
<1>3. \A h \in Groups :
        /\ W!CisRowsOf[h] \subseteq 1..Len(rowsRead)
        /\ W!CisRowsOf'[h] = IF h = row.group
             THEN W!CisRowsOf[h] \cup {Len(rowsRead) + 1}
             ELSE W!CisRowsOf[h]
  BY <1>1, CisRowsGrow
<1>4. W!Find(row.group) = {} <=> W!CisRowsOf[row.group] = {}
  BY <1>2, FindsOrdered DEF CisAll
<1>5. row.title \in Titles /\ W!Stub \in Titles /\ row.number \in {0, 1}
  BY DEF W!CisRows, Titles
<1>6. parsed' \in Seq(FiledControls) /\ CisGiven(parsed, parsed', W!CisRowsOf, row)
  <2>1. CASE W!FileSafeguard(row)
    <3>1. row.number # 0 /\ [title |-> row.title] \in Cells
      BY <2>1 DEF W!FileSafeguard, Cells, W!CisRows
    <3>2. parsed' = W!Filed(row.group, W!NewControl(row.group, W!Stub, <<>>), [title |-> row.title])
      BY <2>1 DEF W!FileSafeguard
    <3>3. /\ parsed' \in Seq(FiledControls)
          /\ W!Find(row.group) # {} =>
              /\ Len(parsed') = Len(parsed)
              /\ \A i \in 1..Len(parsed) :
                   /\ parsed'[i].id = parsed[i].id
                   /\ parsed[i].id # row.group => parsed'[i] = parsed[i]
                   /\ parsed[i].id = row.group =>
                        /\ parsed'[i].subs = Append(parsed[i].subs, [title |-> row.title])
                        /\ parsed'[i].title = parsed[i].title
          /\ W!Find(row.group) = {} =>
              /\ Len(parsed') = Len(parsed) + 1 /\ parsed'[Len(parsed')].id = row.group
              /\ \A i \in 1..Len(parsed) : parsed'[i] = parsed[i]
              /\ parsed'[Len(parsed')].subs = <<[title |-> row.title]>>
              /\ parsed'[Len(parsed')].title = W!Stub
      BY <1>2, <1>5, <3>1, <3>2, FiledShape
    <3>4. CASE W!Find(row.group) = {}
      BY <1>4, <3>1, <3>3, <3>4 DEF CisGiven
    <3>5. CASE W!Find(row.group) # {}
      BY <1>4, <3>1, <3>3, <3>5 DEF CisGiven
    <3> QED
      BY <3>3, <3>4, <3>5
  <2>2. CASE W!FileControl(row) /\ W!Find(row.group) = {}
    <3> DEFINE added == [id |-> row.group, title |-> row.title, subs |-> <<>>]
    <3>1. row.number = 0 /\ parsed' = Append(parsed, added)
      BY <2>2 DEF W!FileControl, W!NewControl
    <3>2. /\ added \in FiledControls /\ added.id = row.group
          /\ added.title = row.title /\ added.subs = <<>>
      BY <1>2, <1>5 DEF FiledControls
    <3> HIDE DEF added
    <3> QED
      BY <1>4, <2>2, <3>1, <3>2, AppendProperties DEF CisGiven
  <2>3. CASE W!FileControl(row) /\ W!Find(row.group) # {}
    <3>1. row.number = 0 /\ parsed' = W!Retitled(row)
      BY <2>3 DEF W!FileControl
    <3>2. /\ parsed' \in Seq(FiledControls) /\ Len(parsed') = Len(parsed)
          /\ \A i \in 1..Len(parsed) :
              /\ parsed'[i].id = parsed[i].id
              /\ parsed[i].id # row.group => parsed'[i] = parsed[i]
              /\ parsed'[i].subs = parsed[i].subs
              /\ parsed[i].id = row.group =>
                   parsed'[i].title = IF row.title # W!None THEN row.title ELSE parsed[i].title
      BY <3>1, RetitledShape
    <3> QED
      BY <1>4, <2>3, <3>1, <3>2 DEF CisGiven
  <2> QED
    BY <2>1, <2>2, <2>3
<1>7. /\ Ordered(parsed', W!CisRowsOf')
      /\ \A i \in 1..Len(parsed') :
           CisFilled(parsed'[i], Append(rowsRead, row), W!CisRowsOf'[parsed'[i].id])
  <2>1. /\ Ordered(parsed, W!CisRowsOf)
        /\ \A i \in 1..Len(parsed) : CisFilled(parsed[i], rowsRead, W!CisRowsOf[parsed[i].id])
    BY DEF CisAll
  <2> QED
    BY <1>2, <1>3, <1>6, <2>1, CisFiles
<1>8. CisAll' = (/\ Ordered(parsed', W!CisRowsOf')
                 /\ \A i \in 1..Len(parsed') :
                      CisFilled(parsed'[i], rowsRead', W!CisRowsOf'[parsed'[i].id]))
  BY DEF CisAll, Ordered, CisFilled
<1> QED
  BY <1>1, <1>6, <1>7, <1>8

-----------------------------------------------------------------------------
\* NistSubcategoriesAreFiled of one category, given the rows of the book, which
\* of them are its own and the titles in force.
NistFilled(control, list, mine, titles) ==
  /\ W!Lists(control.subs, mine, [i \in 1..Len(list) |-> [code |-> list[i].sub]])
  /\ control.title = titles[W!FirstOf(mine)]

LEMMA NistStays ==
  ASSUME NEW list \in Seq(W!NistRows), NEW row \in W!NistRows, NEW mine,
         mine \subseteq 1..Len(list), mine # {}, NEW titles, NEW after,
         \A i \in mine : after[i] = titles[i],
         NEW control, NistFilled(control, list, mine, titles)
  PROVE  NistFilled(control, Append(list, row), mine, after)
<1> DEFINE n == Len(list)
           more == Append(list, row)
           cells(l) == [i \in 1..Len(l) |-> [code |-> l[i].sub]]
<1>1. n \in Nat /\ Len(more) = n + 1 /\ \A i \in 1..n : more[i] = list[i]
  BY AppendProperties
<1>2. W!FirstOf(mine) \in mine
  <2>1. mine \subseteq Nat
    OBVIOUS
  <2> QED
    BY <2>1, FirstExists
<1> HIDE DEF more, n
<1>3. \A i \in mine : cells(more)[i] = cells(list)[i]
  BY <1>1 DEF n
<1>4. W!Lists(control.subs, mine, cells(list)) /\ control.title = titles[W!FirstOf(mine)]
  BY DEF NistFilled
<1> HIDE DEF cells
<1>5. W!Lists(control.subs, mine, cells(more))
  BY <1>3, <1>4, ListStays
<1>6. control.title = after[W!FirstOf(mine)]
  BY <1>2, <1>4
<1> QED
  BY <1>5, <1>6 DEF NistFilled, cells, more

\* The control of group g, which M has, gains the row's subcategory, or begins
\* with it at the end, under the title in force.
NistGiven(old, new, M, row, g, title) ==
  \/ /\ M[g] # {} /\ Len(new) = Len(old)
     /\ \A i \in 1..Len(old) :
          /\ new[i].id = old[i].id
          /\ old[i].id # g => new[i] = old[i]
          /\ old[i].id = g => /\ new[i].subs = Append(old[i].subs, [code |-> row.sub])
                              /\ new[i].title = old[i].title
  \/ /\ M[g] = {} /\ Len(new) = Len(old) + 1 /\ new[Len(new)].id = g
     /\ \A i \in 1..Len(old) : new[i] = old[i]
     /\ new[Len(new)].subs = <<[code |-> row.sub]>>
     /\ new[Len(new)].title = title

\* The row of a subcategory, added to a list that has some or to none.
LEMMA NistGains ==
  ASSUME NEW list \in Seq(W!NistRows), NEW row \in W!NistRows, row.sub \in Groups,
         NEW mine, mine \subseteq 1..Len(list), NEW titles,
         NEW subs \in Seq(Cells), mine = {} => subs = <<>>,
         mine # {} => W!Lists(subs, mine, [i \in 1..Len(list) |-> [code |-> list[i].sub]]),
         NEW new, new.subs = Append(subs, [code |-> row.sub]),
         new.title = titles[IF mine = {} THEN Len(list) + 1 ELSE W!FirstOf(mine)]
  PROVE  NistFilled(new, Append(list, row), mine \cup {Len(list) + 1}, titles)
<1> DEFINE n == Len(list)
           more == Append(list, row)
           cells(l) == [i \in 1..Len(l) |-> [code |-> l[i].sub]]
           x == [code |-> row.sub]
<1>1. n \in Nat /\ Len(more) = n + 1 /\ more[n + 1] = row /\ \A i \in 1..n : more[i] = list[i]
  BY AppendProperties
<1>2. x \in Cells /\ mine \subseteq 1..n
  BY DEF Cells
<1> HIDE DEF more, n
<1>3. cells(more)[n + 1] = x /\ \A i \in mine : cells(more)[i] = cells(list)[i]
  BY <1>1, <1>2 DEF n
<1>4. mine # {} => W!Lists(subs, mine, cells(list))
  BY DEF n
<1>5. new.subs = Append(subs, x) /\ new.title = titles[W!FirstOf(mine \cup {n + 1})]
  BY <1>1, <1>2, OneMore DEF n
<1> HIDE DEF cells, x
<1>6. W!Lists(subs, mine, cells(more))
  BY <1>3, <1>4, ListStays, ListOfNone
<1>7. W!Lists(Append(subs, x), mine \cup {n + 1}, cells(more))
  BY <1>1, <1>2, <1>3, <1>6, ListGrows
<1> QED
  BY <1>5, <1>7 DEF NistFilled, cells, more, n

LEMMA NistFiles ==
  ASSUME NEW list \in Seq(W!NistRows), NEW row \in W!NistRows, row.sub \in Groups,
         NEW M, \A h \in Groups : M[h] \subseteq 1..Len(list),
         NEW g \in Groups, NEW M2,
         \A h \in Groups : M2[h] = IF h = g THEN M[h] \cup {Len(list) + 1} ELSE M[h],
         NEW titles, NEW after, \A h \in Groups : \A i \in M[h] : after[i] = titles[i],
         NEW old \in Seq(FiledControls), Ordered(old, M),
         \A i \in 1..Len(old) : NistFilled(old[i], list, M[old[i].id], titles),
         NEW new \in Seq(FiledControls),
         NistGiven(old, new, M, row, g, after[Len(list) + 1])
  PROVE  /\ Ordered(new, M2)
         /\ \A i \in 1..Len(new) : NistFilled(new[i], Append(list, row), M2[new[i].id], after)
<1>1. Len(list) \in Nat /\ Len(old) \in Nat
  OBVIOUS
<1>2. Ordered(new, M2)
  <2> DEFINE n == Len(list)
  <2>0. /\ n \in Nat /\ \A h \in Groups : M[h] \subseteq 1..n
        /\ \A h \in Groups : M2[h] = IF h = g THEN M[h] \cup {n + 1} ELSE M[h]
    BY <1>1
  <2> HIDE DEF n
  <2>1. OneFiled(old, new, M, g)
    BY DEF OneFiled, NistGiven
  <2> QED
    BY <2>0, <2>1, OrderKept
<1>3. \A i \in 1..Len(old) :
        /\ old[i] \in FiledControls /\ old[i].id \in Groups /\ old[i].subs \in Seq(Cells)
        /\ M[old[i].id] \subseteq 1..Len(list) /\ M[old[i].id] # {}
        /\ \A j \in M[old[i].id] : after[j] = titles[j]
  <2>1. \A i \in 1..Len(old) : old[i] \in FiledControls
    OBVIOUS
  <2> QED
    BY <2>1 DEF FiledControls, Ordered
<1>4. ASSUME NEW i \in 1..Len(old), new[i] = old[i], old[i].id # g
      PROVE  NistFilled(new[i], Append(list, row), M2[new[i].id], after)
  <2>1. NistFilled(old[i], Append(list, row), M[old[i].id], after)
    BY <1>3, NistStays
  <2>2. M2[new[i].id] = M[old[i].id]
    BY <1>3, <1>4
  <2> QED
    BY <1>4, <2>1, <2>2
<1>5. ASSUME NEW i \in 1..Len(old), M[g] # {}, old[i].id = g
      PROVE  NistFilled(new[i], Append(list, row), M2[new[i].id], after)
  <2>1. /\ new[i].id = g /\ new[i].subs = Append(old[i].subs, [code |-> row.sub])
        /\ new[i].title = old[i].title
    BY <1>5 DEF NistGiven
  <2>2. NistFilled(old[i], list, M[g], titles) /\ M2[g] = M[g] \cup {Len(list) + 1}
    BY <1>5
  <2>3. old[i].subs \in Seq(Cells) /\ M[g] \subseteq 1..Len(list) /\ M[g] # {}
        /\ \A j \in M[g] : after[j] = titles[j]
    BY <1>3, <1>5
  <2>4. W!FirstOf(M[g]) \in M[g]
    <3>1. M[g] \subseteq Nat
      BY <2>3
    <3> QED
      BY <2>3, <3>1, FirstExists
  <2>5. /\ W!Lists(old[i].subs, M[g], [j \in 1..Len(list) |-> [code |-> list[j].sub]])
        /\ new[i].title = after[W!FirstOf(M[g])]
    BY <2>1, <2>2, <2>3, <2>4 DEF NistFilled
  <2>6. NistFilled(new[i], Append(list, row), M[g] \cup {Len(list) + 1}, after)
    BY <2>1, <2>3, <2>5, NistGains
  <2> QED
    BY <2>1, <2>2, <2>6
<1>6. CASE M[g] # {} /\ Len(new) = Len(old)
  <2>1. \A i \in 1..Len(old) : old[i].id # g => new[i] = old[i]
    BY <1>6 DEF NistGiven
  <2> QED
    BY <1>2, <1>4, <1>5, <1>6, <2>1
<1>7. CASE M[g] = {} /\ Len(new) = Len(old) + 1
  <2>1. /\ new[Len(new)].subs = Append(<<>>, [code |-> row.sub])
        /\ new[Len(new)].title = after[Len(list) + 1] /\ new[Len(new)].id = g
        /\ \A i \in 1..Len(old) : new[i] = old[i]
    BY <1>7 DEF NistGiven
  <2>2. NistFilled(new[Len(new)], Append(list, row), {} \cup {Len(list) + 1}, after)
    BY <2>1, NistGains, <<>> \in Seq(Cells), {} \subseteq 1..Len(list)
  <2>3. M2[g] = {} \cup {Len(list) + 1}
    BY <1>7
  <2>4. \A i \in 1..Len(old) : old[i].id # g
    BY <1>3, <1>7
  <2>5. \A i \in 1..Len(new) : i \in 1..Len(old) \/ i = Len(new)
    BY <1>1, <1>7
  <2> QED
    BY <1>2, <1>4, <2>1, <2>2, <2>3, <2>4, <2>5
<1> QED
  BY <1>6, <1>7 DEF NistGiven

-----------------------------------------------------------------------------
\* The labels in force at the row read last, and the title and the group of each
\* row that has a subcategory.
LabelAt(L) == L \in 1..Len(rowsRead) /\ L \in W!DataRows /\ rowsRead[L].category \in Groups

NistTitles == [i \in 1..Len(rowsRead) |-> W!NistTitle(i)]

CurrentHolds ==
  LET L == W!LabelRow(Len(rowsRead))
  IN /\ current \in [category : Groups \cup {W!None}, label : Texts \cup {W!None},
                     function : {W!None, "function"}]
     /\ L = 0 => current.category = W!None
     /\ L # 0 => current.category = rowsRead[L].category /\ current.label = rowsRead[L].label
     /\ current.function =
          IF \E j \in W!DataRows : rowsRead[j].function # W!None THEN "function" ELSE W!None

\* What is in force at a row stays, and a row with a category is in force at once.
LEMMA LabelsStay ==
  ASSUME rowsRead \in Seq(W!NistRows), NEW row \in W!NistRows, W!Turn("nist", row)
  PROVE  /\ \A i \in 0..Len(rowsRead) :
              /\ W!LabelRow(i)' = W!LabelRow(i)
              /\ W!LabelRow(i) # 0 => LabelAt(W!LabelRow(i)) /\ W!LabelRow(i) <= i
         /\ \A i : i = Len(rowsRead) + 1 =>
              W!LabelRow(i)' = IF W!InHeader THEN 0
                             ELSE IF row.category # W!None THEN i ELSE W!LabelRow(Len(rowsRead))
         /\ W!InHeader => W!LabelRow(Len(rowsRead)) = 0
<1> DEFINE above(i) == {j \in W!DataRows : j <= i /\ rowsRead[j].category # W!None}
           over(i) == {j \in W!DataRows' : j <= i /\ rowsRead'[j].category # W!None}
           n == Len(rowsRead)
<1>1. rowsRead' = Append(rowsRead, row) /\ book' = book
  BY DEF W!Turn
<1>2. /\ n \in Nat
      /\ W!DataRows \subseteq 1..n
      /\ W!InHeader => W!DataRows = {} /\ W!DataRows' = {}
      /\ ~ W!InHeader => W!DataRows' = W!DataRows \cup {n + 1}
      /\ \A i \in 1..n : rowsRead'[i] = rowsRead[i] /\ rowsRead[i] \in W!NistRows
      /\ rowsRead'[n + 1] = row
  BY <1>1, DataGrows
<1>3. \A i : /\ W!LabelRow(i) = IF above(i) = {} THEN 0 ELSE W!LastOf(above(i))
             /\ W!LabelRow(i)' = IF over(i) = {} THEN 0 ELSE W!LastOf(over(i))
  BY DEF W!LabelRow, W!LastOf
<1>4. \A i \in 1..n : rowsRead[i].category \in Groups \cup {W!None}
  BY <1>2 DEF W!NistRows
<1> HIDE DEF n
<1>5. \A i \in 0..n : over(i) = above(i)
  <2> TAKE i \in 0..n
  <2>1. CASE W!InHeader
    BY <1>2, <2>1
  <2>2. CASE ~ W!InHeader
    <3>1. \A j \in W!DataRows' : j <= i <=> j \in W!DataRows /\ j <= i
      BY <1>2, <2>2
    <3>2. \A j \in W!DataRows : j \in W!DataRows' /\ rowsRead'[j] = rowsRead[j]
      BY <1>2, <2>2
    <3> QED
      BY <3>1, <3>2
  <2> QED
    BY <2>1, <2>2
<1>6. ASSUME NEW i \in 0..n, W!LabelRow(i) # 0
      PROVE  LabelAt(W!LabelRow(i)) /\ W!LabelRow(i) <= i
  <2>1. above(i) # {} /\ above(i) \subseteq 1..n /\ W!LabelRow(i) = W!LastOf(above(i))
    BY <1>2, <1>3, <1>6
  <2>2. W!LastOf(above(i)) \in above(i)
    BY <1>2, <2>1, LastExists
  <2> QED
    BY <1>2, <1>4, <2>1, <2>2 DEF LabelAt, n
<1>7. W!InHeader => W!LabelRow(n) = 0
  BY <1>2, <1>3
<1>8. ASSUME NEW i, i = n + 1
      PROVE  W!LabelRow(i)' = IF W!InHeader THEN 0
                            ELSE IF row.category # W!None THEN i ELSE W!LabelRow(n)
  <2>1. CASE W!InHeader
    BY <1>2, <1>3, <2>1
  <2>2. CASE ~ W!InHeader
    <3>1. over(i) = IF row.category # W!None THEN above(n) \cup {i} ELSE above(n)
      <4>1. \A j \in W!DataRows' : j <= i /\ (j \in W!DataRows \/ j = i)
        <5>1. W!DataRows' = W!DataRows \cup {i} /\ n \in Nat /\ i = n + 1
          BY <1>2, <1>8, <2>2
        <5>2. \A j \in W!DataRows : j \in 1..n
          BY <1>2
        <5> HIDE DEF n
        <5>3. \A j \in W!DataRows : j <= i
          BY <5>1, <5>2
        <5> QED
          BY <5>1, <5>3
      <4>2. i \in W!DataRows' /\ rowsRead'[i] = row
        BY <1>2, <1>8, <2>2
      <4>3. \A j \in W!DataRows : j \in W!DataRows' /\ rowsRead'[j] = rowsRead[j] /\ j <= n /\ j # i
        BY <1>2, <1>8, <2>2
      <4> QED
        BY <4>1, <4>2, <4>3
    <3>2. above(n) \subseteq 1..n
      BY <1>2
    <3>3. W!LastOf(above(n) \cup {i}) = i
      BY <1>2, <1>8, <3>2, OneMore
    <3> HIDE DEF above, over
    <3> QED
      BY <1>3, <2>2, <3>1, <3>3
  <2> QED
    BY <2>1, <2>2
<1> QED
  BY <1>3, <1>5, <1>6, <1>7, <1>8 DEF n

LEMMA CurrentKept ==
  ASSUME rowsRead \in Seq(W!NistRows), NEW row \in W!NistRows, W!Turn("nist", row), CurrentHolds,
         current' = IF W!InHeader THEN current ELSE W!Carried(row)
  PROVE  CurrentHolds'
<1> DEFINE n == Len(rowsRead)
<1>1. rowsRead' = Append(rowsRead, row) /\ book' = book
  BY DEF W!Turn
<1>2. /\ n \in Nat /\ Len(rowsRead') = n + 1
      /\ W!DataRows \subseteq 1..n
      /\ W!InHeader => W!DataRows = {} /\ W!DataRows' = {}
      /\ ~ W!InHeader => W!DataRows' = W!DataRows \cup {n + 1}
      /\ \A i \in 1..n : rowsRead'[i] = rowsRead[i]
      /\ rowsRead'[n + 1] = row
  BY <1>1, DataGrows
<1>3. \A i : i = n + 1 => W!LabelRow(Len(rowsRead))' = W!LabelRow(i)'
  BY <1>2 DEF W!LabelRow
<1>4. W!LabelRow(Len(rowsRead))' = IF W!InHeader THEN 0
                             ELSE IF row.category # W!None THEN n + 1 ELSE W!LabelRow(n)
  BY <1>3, LabelsStay
<1>5. W!LabelRow(n) # 0 => W!LabelRow(n) \in 1..n
  BY <1>2, LabelsStay DEF LabelAt
<1>6. W!InHeader => W!LabelRow(n) = 0
  BY LabelsStay
<1>7. /\ row.category \in Groups \cup {W!None} /\ row.label \in Texts
      /\ row.function \in {W!None, "function"}
  BY DEF W!NistRows
<1> DEFINE L == W!LabelRow(Len(rowsRead))
           T == [category : Groups \cup {W!None}, label : Texts \cup {W!None},
                 function : {W!None, "function"}]
<1>8. /\ current \in T
      /\ L = 0 => current.category = W!None
      /\ L # 0 => current.category = rowsRead[L].category /\ current.label = rowsRead[L].label
      /\ current.function =
           IF \E j \in W!DataRows : rowsRead[j].function # W!None THEN "function" ELSE W!None
  BY DEF CurrentHolds
<1>9. (\E j \in W!DataRows' : rowsRead'[j].function # W!None) <=>
        \/ ~ W!InHeader /\ row.function # W!None
        \/ \E j \in W!DataRows : rowsRead[j].function # W!None
  BY <1>2
<1>10. /\ current' \in T
       /\ L' = 0 => current'.category = W!None
       /\ L' # 0 => current'.category = rowsRead'[L'].category
                    /\ current'.label = rowsRead'[L'].label
       /\ current'.function =
            IF \E j \in W!DataRows' : rowsRead'[j].function # W!None THEN "function" ELSE W!None
  <2>1. CASE W!InHeader
    <3>1. current' = current /\ L' = 0 /\ L = 0
      BY <1>4, <1>6, <2>1
    <3> QED
      BY <1>8, <1>9, <2>1, <3>1
  <2>2. CASE ~ W!InHeader
    <3> DEFINE cat == IF row.category # W!None THEN row.category ELSE current.category
               lab == IF row.category # W!None THEN row.label ELSE current.label
               fun == IF row.function # W!None THEN row.function ELSE current.function
    <3>1. current' = [category |-> cat, label |-> lab, function |-> fun]
      BY <2>2 DEF W!Carried
    <3>2. current'.category = cat /\ current'.label = lab /\ current'.function = fun
      BY <3>1
    <3>3. current' \in T
      BY <1>7, <1>8, <3>1
    <3>4. L' = IF row.category # W!None THEN n + 1 ELSE L
      BY <1>4, <2>2
    <3>5. current'.function =
            IF \E j \in W!DataRows' : rowsRead'[j].function # W!None THEN "function" ELSE W!None
      BY <1>7, <1>8, <1>9, <2>2, <3>2
    <3>6. CASE row.category # W!None
      BY <1>2, <3>2, <3>3, <3>4, <3>5, <3>6
    <3>7. CASE row.category = W!None
      BY <1>2, <1>5, <1>8, <3>2, <3>3, <3>4, <3>5, <3>7
    <3> QED
      BY <3>6, <3>7
  <2> QED
    BY <2>1, <2>2
<1> QED
  BY <1>10 DEF CurrentHolds

\* The rows of a category grow by the row of a subcategory below it, under the
\* titles that were in force at each.
LEMMA NistRowsGrow ==
  ASSUME rowsRead \in Seq(W!NistRows), NEW row \in W!NistRows, W!Turn("nist", row), CurrentHolds,
         W!None \notin Groups
  PROVE  /\ \A h \in Groups :
              /\ W!NistRowsOf[h] \subseteq 1..Len(rowsRead)
              /\ W!NistRowsOf'[h] = 
                   IF ~ W!InHeader /\ row.sub # W!None /\ W!Carried(row).category = h
                     THEN W!NistRowsOf[h] \cup {Len(rowsRead) + 1} ELSE W!NistRowsOf[h]
              /\ \A i \in W!NistRowsOf[h] : NistTitles'[i] = NistTitles[i]
         /\ ~ W!InHeader /\ W!Carried(row).category # W!None =>
              NistTitles'[Len(rowsRead) + 1] = <<W!Carried(row).label, W!Carried(row).function>>
<1> DEFINE n == Len(rowsRead)
           fun(i) == \E j \in W!DataRows : j <= i /\ rowsRead[j].function # W!None
<1>1. rowsRead' = Append(rowsRead, row) /\ book' = book
  BY DEF W!Turn
<1>2. /\ n \in Nat /\ Len(rowsRead') = n + 1
      /\ W!DataRows \subseteq 1..n
      /\ W!InHeader => W!DataRows = {} /\ W!DataRows' = {}
      /\ ~ W!InHeader => W!DataRows' = W!DataRows \cup {n + 1}
      /\ \A i \in 1..n : rowsRead'[i] = rowsRead[i]
      /\ rowsRead'[n + 1] = row
  BY <1>1, DataGrows
<1>3. /\ \A i \in 0..n : /\ W!LabelRow(i)' = W!LabelRow(i)
                         /\ W!LabelRow(i) # 0 => W!LabelRow(i) \in 1..n
      /\ \A i : i = n + 1 =>
           W!LabelRow(i)' = IF W!InHeader THEN 0
                          ELSE IF row.category # W!None THEN i ELSE W!LabelRow(n)
  BY LabelsStay DEF LabelAt
<1>4. /\ W!LabelRow(n) = 0 => current.category = W!None
      /\ W!LabelRow(n) # 0 =>
           current.category = rowsRead[W!LabelRow(n)].category
           /\ current.label = rowsRead[W!LabelRow(n)].label
      /\ current.function =
           IF \E j \in W!DataRows : rowsRead[j].function # W!None THEN "function" ELSE W!None
  BY DEF CurrentHolds
<1>5. /\ W!Carried(row).category = IF row.category # W!None THEN row.category ELSE current.category
      /\ W!Carried(row).label = IF row.category # W!None THEN row.label ELSE current.label
      /\ W!Carried(row).function = IF row.function # W!None THEN row.function ELSE current.function
  BY DEF W!Carried
<1>6. \A i :
        /\ W!NistTitle(i) =
             <<rowsRead[W!LabelRow(i)].label, IF fun(i) THEN "function" ELSE W!None>>
        /\ W!NistTitle(i)' =
             <<rowsRead'[W!LabelRow(i)'].label, IF fun(i)' THEN "function" ELSE W!None>>
  BY DEF W!NistTitle
<1>7. /\ \A i \in 1..n : NistTitles[i] = W!NistTitle(i)
      /\ \A i \in 1..(n + 1) : NistTitles'[i] = W!NistTitle(i)'
  BY <1>2 DEF NistTitles
<1>8. \A h \in Groups :
        /\ W!NistRowsOf[h] =
             {i \in W!DataRows :
                rowsRead[i].sub # W!None /\ W!LabelRow(i) # 0
                /\ rowsRead[W!LabelRow(i)].category = h}
        /\ W!NistRowsOf'[h] =
             {i \in W!DataRows' :
                rowsRead'[i].sub # W!None /\ W!LabelRow(i)' # 0
                /\ rowsRead'[W!LabelRow(i)'].category = h}
  BY DEF W!NistRowsOf
<1>9. row.function \in {W!None, "function"}
  BY DEF W!NistRows
<1> HIDE DEF n
<1>10. \A i \in 1..n : fun(i)' <=> fun(i)
  <2> TAKE i \in 1..n
  <2>1. \A j \in W!DataRows : j \in 1..n /\ rowsRead'[j] = rowsRead[j]
    BY <1>2
  <2>2. \A j \in W!DataRows' : j <= i => j \in W!DataRows
    BY <1>2
  <2>3. \A j \in W!DataRows : j \in W!DataRows'
    BY <1>2
  <2> QED
    BY <2>1, <2>2, <2>3
<1>11. ASSUME ~ W!InHeader, NEW i, i = n + 1
       PROVE  fun(i)' <=> \/ row.function # W!None
                          \/ \E j \in W!DataRows : rowsRead[j].function # W!None
  <2>1. \A j \in W!DataRows : j \in 1..n /\ rowsRead'[j] = rowsRead[j] /\ j <= i
    BY <1>2, <1>11
  <2>2. i \in Nat /\ i <= i /\ rowsRead'[i] = row /\ W!DataRows' = W!DataRows \cup {i}
    BY <1>2, <1>11
  <2> QED
    BY <2>1, <2>2
<1>12. ASSUME NEW h \in Groups
       PROVE  /\ W!NistRowsOf[h] \subseteq 1..n
              /\ W!NistRowsOf'[h] = 
                   IF ~ W!InHeader /\ row.sub # W!None /\ W!Carried(row).category = h
                     THEN W!NistRowsOf[h] \cup {n + 1} ELSE W!NistRowsOf[h]
              /\ \A i \in W!NistRowsOf[h] : NistTitles'[i] = NistTitles[i]
  <2> DEFINE Q(i) == /\ rowsRead[i].sub # W!None /\ W!LabelRow(i) # 0
                     /\ rowsRead[W!LabelRow(i)].category = h
             QP(i) == /\ rowsRead'[i].sub # W!None /\ W!LabelRow(i)' # 0
                      /\ rowsRead'[W!LabelRow(i)'].category = h
  <2>1. /\ W!NistRowsOf[h] = {i \in W!DataRows : Q(i)}
        /\ W!NistRowsOf'[h] = {i \in W!DataRows' : QP(i)}
    BY <1>8
  <2>2. \A i \in 1..n : QP(i) <=> Q(i)
    BY <1>2, <1>3
  <2>3. \A i \in W!NistRowsOf[h] : NistTitles'[i] = NistTitles[i]
    <3> TAKE i \in W!NistRowsOf[h]
    <3>0. i \in W!DataRows /\ Q(i)
      BY <2>1
    <3>1. i \in 1..n /\ i \in 1..(n + 1) /\ W!LabelRow(i) # 0
      BY <1>2, <3>0
    <3>2. W!LabelRow(i)' = W!LabelRow(i) /\ W!LabelRow(i) \in 1..n
      BY <1>3, <3>1
    <3>3. W!NistTitle(i)' = W!NistTitle(i)
      BY <1>2, <1>6, <1>10, <3>1, <3>2
    <3> QED
      BY <1>7, <3>1, <3>3
  <2>4. ASSUME NEW i, i = n + 1, ~ W!InHeader
        PROVE  QP(i) <=> row.sub # W!None /\ W!Carried(row).category = h
    <3>1. rowsRead'[i] = row /\ h # W!None
      BY <1>2, <2>4
    <3>2. CASE row.category # W!None
      <4>1. W!LabelRow(i)' = i /\ i # 0
        BY <1>2, <1>3, <2>4, <3>2
      <4> QED
        BY <1>5, <3>1, <3>2, <4>1
    <3>3. CASE row.category = W!None
      <4>1. W!LabelRow(i)' = W!LabelRow(n) /\ W!Carried(row).category = current.category
        BY <1>3, <1>5, <2>4, <3>3
      <4>2. W!LabelRow(n) # 0 => rowsRead'[W!LabelRow(n)] = rowsRead[W!LabelRow(n)]
        BY <1>2, <1>3
      <4> QED
        BY <1>4, <3>1, <4>1, <4>2
    <3> QED
      BY <3>2, <3>3
  <2> HIDE DEF Q, QP
  <2>5. CASE W!InHeader
    BY <1>2, <2>1, <2>3, <2>5
  <2>6. CASE ~ W!InHeader
    BY <1>2, <2>1, <2>2, <2>3, <2>4, <2>6
  <2> QED
    BY <2>5, <2>6
<1>13. ASSUME ~ W!InHeader, W!Carried(row).category # W!None, NEW i, i = n + 1
       PROVE  NistTitles'[i] = <<W!Carried(row).label, W!Carried(row).function>>
  <2>1. (IF fun(i)' THEN "function" ELSE W!None) = W!Carried(row).function
    BY <1>4, <1>5, <1>9, <1>11, <1>13
  <2>2. rowsRead'[W!LabelRow(i)'].label = W!Carried(row).label
    <3>1. CASE row.category # W!None
      BY <1>2, <1>3, <1>5, <1>13, <3>1
    <3>2. CASE row.category = W!None
      BY <1>2, <1>3, <1>4, <1>5, <1>13, <3>2
    <3> QED
      BY <3>1, <3>2
  <2>3. NistTitles'[i] = W!NistTitle(i)'
    BY <1>2, <1>7, <1>13
  <2> QED
    BY <1>6, <2>1, <2>2, <2>3
<1> QED
  BY <1>12, <1>13 DEF n

\* NistSubcategoriesAreFiled, in the words of the lemmas.
NistAll ==
  /\ Ordered(parsed, W!NistRowsOf)
  /\ \A i \in 1..Len(parsed) :
       NistFilled(parsed[i], rowsRead, W!NistRowsOf[parsed[i].id], NistTitles)

LEMMA NistReads ==
  rowsRead \in Seq(W!NistRows) /\ parsed \in Seq(FiledControls) =>
    (W!NistSubcategoriesAreFiled <=> (book.format = "nist" => NistAll))
<1> SUFFICES ASSUME rowsRead \in Seq(W!NistRows), parsed \in Seq(FiledControls)
             PROVE  W!NistSubcategoriesAreFiled <=> (book.format = "nist" => NistAll)
  OBVIOUS
<1>1. \A i \in 1..Len(parsed) : parsed[i].id \in Groups
  <2>1. \A i \in 1..Len(parsed) : parsed[i] \in FiledControls
    OBVIOUS
  <2> QED
    BY <2>1 DEF FiledControls
<1>2. ASSUME NEW h \in Groups, W!NistRowsOf[h] # {}
      PROVE  NistTitles[W!FirstOf(W!NistRowsOf[h])] = W!NistTitle(W!FirstOf(W!NistRowsOf[h]))
  <2>1. W!NistRowsOf[h] \subseteq Nat /\ W!NistRowsOf[h] \subseteq 1..Len(rowsRead)
    BY DEF W!NistRowsOf, W!DataRows
  <2>2. W!FirstOf(W!NistRowsOf[h]) \in W!NistRowsOf[h]
    BY <1>2, <2>1, FirstExists
  <2> QED
    BY <2>1, <2>2 DEF NistTitles
<1>3. W!ControlsInOrder(W!NistRowsOf) <=> Ordered(parsed, W!NistRowsOf)
  BY DEF W!ControlsInOrder, Ordered
<1>4. Ordered(parsed, W!NistRowsOf) =>
        \A i \in 1..Len(parsed) : W!NistRowsOf[parsed[i].id] # {}
  BY <1>1 DEF Ordered
<1>5. ASSUME Ordered(parsed, W!NistRowsOf), NEW i \in 1..Len(parsed)
      PROVE  NistTitles[W!FirstOf(W!NistRowsOf[parsed[i].id])]
               = W!NistTitle(W!FirstOf(W!NistRowsOf[parsed[i].id]))
  BY <1>1, <1>2, <1>4, <1>5
<1> QED
  BY <1>3, <1>5 DEF W!NistSubcategoriesAreFiled, NistAll, NistFilled, W!NistSubs

\* A row without a subcategory, or above any category, goes nowhere.
LEMMA NistRowPasses ==
  ASSUME rowsRead \in Seq(W!NistRows), parsed \in Seq(FiledControls), NistAll, CurrentHolds,
         W!None \notin Groups, NEW row \in W!NistRows, W!Turn("nist", row),
         W!InHeader \/ row.sub = W!None \/ W!Carried(row).category = W!None,
         parsed' = parsed
  PROVE  NistAll'
<1>1. \A h \in Groups :
        /\ W!NistRowsOf[h] \subseteq 1..Len(rowsRead)
        /\ W!NistRowsOf'[h] = W!NistRowsOf[h]
        /\ \A i \in W!NistRowsOf[h] : NistTitles'[i] = NistTitles[i]
  BY NistRowsGrow
<1>2. rowsRead' = Append(rowsRead, row)
  BY DEF W!Turn
<1>3. \A i \in 1..Len(parsed) : parsed[i].id \in Groups
  <2>1. \A i \in 1..Len(parsed) : parsed[i] \in FiledControls
    OBVIOUS
  <2> QED
    BY <2>1 DEF FiledControls
<1>4. Ordered(parsed', W!NistRowsOf')
  BY <1>1, <1>3 DEF Ordered, NistAll
<1>5. ASSUME NEW i \in 1..Len(parsed)
      PROVE  NistFilled(parsed'[i], rowsRead', W!NistRowsOf'[parsed'[i].id], NistTitles')
  <2> DEFINE mine == W!NistRowsOf[parsed[i].id]
  <2>1. mine \subseteq 1..Len(rowsRead) /\ mine # {}
        /\ \A j \in mine : NistTitles'[j] = NistTitles[j]
    BY <1>1, <1>3 DEF NistAll, Ordered
  <2>2. NistFilled(parsed[i], rowsRead, mine, NistTitles)
    BY DEF NistAll
  <2> HIDE DEF mine
  <2>3. NistFilled(parsed[i], Append(rowsRead, row), mine, NistTitles')
    BY <2>1, <2>2, NistStays
  <2> QED
    BY <1>1, <1>2, <1>3, <2>3 DEF mine
<1>6. NistAll' = (/\ Ordered(parsed', W!NistRowsOf')
                  /\ \A i \in 1..Len(parsed') :
                       NistFilled(parsed'[i], rowsRead', W!NistRowsOf'[parsed'[i].id],
                                    NistTitles'))
  BY DEF NistAll, Ordered, NistFilled
<1> QED
  BY <1>4, <1>5, <1>6

\* A subcategory goes to the category in force.
LEMMA NistRowFiled ==
  ASSUME rowsRead \in Seq(W!NistRows), parsed \in Seq(FiledControls), NistAll, CurrentHolds,
         W!None \notin Groups, NEW row \in W!NistRows, W!FileSubcategory(row)
  PROVE  NistAll' /\ parsed' \in Seq(FiledControls)
<1> DEFINE c == W!Carried(row)
           g == c.category
           title == <<c.label, c.function>>
<1>1. /\ W!Turn("nist", row) /\ ~ W!InHeader /\ row.sub # W!None /\ g # W!None
      /\ rowsRead' = Append(rowsRead, row)
  BY DEF W!FileSubcategory, W!Turn
<1>2. parsed' = W!Filed(g, W!NewControl(g, title, <<>>), [code |-> row.sub])
  BY DEF W!FileSubcategory
<1>3. /\ current.category \in Groups \cup {W!None} /\ current.label \in Texts \cup {W!None}
      /\ current.function \in {W!None, "function"}
  BY DEF CurrentHolds
<1>4. g \in Groups /\ title \in Titles /\ row.sub \in Groups /\ [code |-> row.sub] \in Cells
  <2>1. /\ row.category \in Groups \cup {W!None} /\ row.label \in Texts
        /\ row.function \in {W!None, "function"} /\ row.sub \in Groups \cup {W!None}
    BY DEF W!NistRows
  <2>2. g \in Groups /\ c.label \in Texts \cup {W!None} /\ c.function \in {W!None, "function"}
    BY <1>1, <1>3, <2>1 DEF W!Carried
  <2> QED
    BY <1>1, <2>1, <2>2 DEF Titles, Cells
<1>5. /\ \A h \in Groups :
           /\ W!NistRowsOf[h] \subseteq 1..Len(rowsRead)
           /\ W!NistRowsOf'[h] = IF h = g
                THEN W!NistRowsOf[h] \cup {Len(rowsRead) + 1}
                ELSE W!NistRowsOf[h]
           /\ \A i \in W!NistRowsOf[h] : NistTitles'[i] = NistTitles[i]
      /\ NistTitles'[Len(rowsRead) + 1] = title
  BY <1>1, NistRowsGrow
<1> HIDE DEF g, title
<1>6. W!Find(g) = {} <=> W!NistRowsOf[g] = {}
  BY <1>4, FindsOrdered DEF NistAll
<1>7. /\ parsed' \in Seq(FiledControls)
      /\ W!Find(g) # {} =>
           /\ Len(parsed') = Len(parsed)
           /\ \A i \in 1..Len(parsed) :
                /\ parsed'[i].id = parsed[i].id
                /\ parsed[i].id # g => parsed'[i] = parsed[i]
                /\ parsed[i].id = g =>
                     /\ parsed'[i].subs = Append(parsed[i].subs, [code |-> row.sub])
                     /\ parsed'[i].title = parsed[i].title
      /\ W!Find(g) = {} =>
           /\ Len(parsed') = Len(parsed) + 1 /\ parsed'[Len(parsed')].id = g
           /\ \A i \in 1..Len(parsed) : parsed'[i] = parsed[i]
           /\ parsed'[Len(parsed')].subs = <<[code |-> row.sub]>>
           /\ parsed'[Len(parsed')].title = title
  BY <1>2, <1>4, FiledShape
<1>8. NistGiven(parsed, parsed', W!NistRowsOf, row, g, NistTitles'[Len(rowsRead) + 1])
  <2>1. CASE W!Find(g) = {}
    BY <1>5, <1>6, <1>7, <2>1 DEF NistGiven
  <2>2. CASE W!Find(g) # {}
    BY <1>5, <1>6, <1>7, <2>2 DEF NistGiven
  <2> QED
    BY <2>1, <2>2
<1>9. /\ Ordered(parsed', W!NistRowsOf')
      /\ \A i \in 1..Len(parsed') :
           NistFilled(parsed'[i], Append(rowsRead, row), W!NistRowsOf'[parsed'[i].id], NistTitles')
  <2>1. /\ Ordered(parsed, W!NistRowsOf)
        /\ \A i \in 1..Len(parsed) :
             NistFilled(parsed[i], rowsRead, W!NistRowsOf[parsed[i].id], NistTitles)
    BY DEF NistAll
  <2> QED
    BY <1>4, <1>5, <1>7, <1>8, <2>1, NistFiles
<1>10. NistAll' = (/\ Ordered(parsed', W!NistRowsOf')
                   /\ \A i \in 1..Len(parsed') :
                        NistFilled(parsed'[i], rowsRead', W!NistRowsOf'[parsed'[i].id],
                                    NistTitles'))
  BY DEF NistAll, Ordered, NistFilled
<1> QED
  BY <1>1, <1>7, <1>9, <1>10

-----------------------------------------------------------------------------
\* The rows are of the book's format, and what has been read of them is filed.
WorkbookInv ==
  /\ book.format = "cis" => rowsRead \in Seq(W!CisRows)
  /\ book.format = "nist" => rowsRead \in Seq(W!NistRows) /\ CurrentHolds
  /\ parsed \in Seq(FiledControls)
  /\ W!CisSafeguardsAreFiled
  /\ W!NistSubcategoriesAreFiled

LEMMA WorkbookInit == W!Init => WorkbookInv
<1> SUFFICES ASSUME W!Init PROVE WorkbookInv
  OBVIOUS
<1>1. /\ rowsRead = <<>> /\ parsed = <<>> /\ Len(rowsRead) = 0 /\ Len(parsed) = 0
      /\ current = [category |-> W!None, label |-> W!None, function |-> W!None]
      /\ rowsRead \in Seq(W!CisRows) /\ rowsRead \in Seq(W!NistRows)
      /\ parsed \in Seq(FiledControls)
  BY EmptySeq DEF W!Init
<1>2. W!DataRows = {} /\ 1..Len(parsed) = {}
  BY <1>1 DEF W!DataRows
<1>3. W!LabelRow(Len(rowsRead)) = 0
  BY <1>2 DEF W!LabelRow
<1>4. CurrentHolds
  BY <1>1, <1>2, <1>3 DEF CurrentHolds
<1>5. \A g \in Groups : W!CisRowsOf[g] = {} /\ W!NistRowsOf[g] = {}
  BY <1>2 DEF W!CisRowsOf, W!NistRowsOf
<1>6. W!CisSafeguardsAreFiled /\ W!NistSubcategoriesAreFiled
  BY <1>2, <1>5 DEF W!CisSafeguardsAreFiled, W!NistSubcategoriesAreFiled, W!ControlsInOrder
<1> QED
  BY <1>1, <1>4, <1>6 DEF WorkbookInv

\* One format's rows say nothing of the other's.
LEMMA CisStepKeeps ==
  ASSUME W!WorkbookAssumption, WorkbookInv, NEW row \in W!CisRows,
         \/ W!TakeForHeader("cis", row) \/ W!FileSafeguard(row)
         \/ W!FileControl(row) \/ W!SkipCisRow(row)
  PROVE  WorkbookInv'
<1>1. book.format = "cis" /\ book' = book /\ W!Turn("cis", row) /\ rowsRead' = Append(rowsRead, row)
  BY DEF W!TakeForHeader, W!FileSafeguard, W!FileControl, W!SkipCisRow, W!Turn
<1>2. rowsRead \in Seq(W!CisRows) /\ rowsRead' \in Seq(W!CisRows) /\ parsed \in Seq(FiledControls)
  BY <1>1, AppendProperties DEF WorkbookInv
<1>3. CisAll
  BY <1>1, CisReads DEF WorkbookInv
<1>4. CisAll' /\ parsed' \in Seq(FiledControls)
  <2>1. CASE W!FileSafeguard(row) \/ W!FileControl(row)
    BY <1>2, <1>3, <2>1, CisRowFiled
  <2>2. CASE W!TakeForHeader("cis", row) \/ W!SkipCisRow(row)
    <3>1. parsed' = parsed /\ (W!InHeader \/ ~ W!CisKept(row))
      BY <2>2 DEF W!TakeForHeader, W!SkipCisRow
    <3> QED
      BY <1>1, <1>2, <1>3, <3>1, CisRowPasses
  <2> QED
    BY <2>1, <2>2
<1>5. W!CisSafeguardsAreFiled'
  BY <1>4, CisReads
<1>6. book'.format # "nist"
  BY <1>1
<1>7. W!NistSubcategoriesAreFiled'
  BY <1>6 DEF W!NistSubcategoriesAreFiled
<1> QED
  BY <1>2, <1>4, <1>5, <1>6, <1>7 DEF WorkbookInv

LEMMA NistStepKeeps ==
  ASSUME W!WorkbookAssumption, WorkbookInv, NEW row \in W!NistRows,
         W!TakeForHeader("nist", row) \/ W!FileSubcategory(row) \/ W!SkipNistRow(row)
  PROVE  WorkbookInv'
<1>1. /\ book.format = "nist" /\ book' = book
      /\ W!Turn("nist", row) /\ rowsRead' = Append(rowsRead, row)
  BY DEF W!TakeForHeader, W!FileSubcategory, W!SkipNistRow, W!Turn
<1>2. rowsRead \in Seq(W!NistRows) /\ rowsRead' \in Seq(W!NistRows) /\ parsed \in Seq(FiledControls)
      /\ CurrentHolds
  BY <1>1, AppendProperties DEF WorkbookInv
<1>3. NistAll
  BY <1>1, <1>2, NistReads DEF WorkbookInv
<1>4. W!None \notin Groups
  BY DEF W!WorkbookAssumption
<1>5. CurrentHolds'
  <2>1. current' = IF W!InHeader THEN current ELSE W!Carried(row)
    BY DEF W!TakeForHeader, W!FileSubcategory, W!SkipNistRow
  <2> QED
    BY <1>1, <1>2, <2>1, CurrentKept
<1>6. NistAll' /\ parsed' \in Seq(FiledControls)
  <2>1. CASE W!FileSubcategory(row)
    BY <1>2, <1>3, <1>4, <2>1, NistRowFiled
  <2>2. CASE W!TakeForHeader("nist", row) \/ W!SkipNistRow(row)
    <3>1. parsed' = parsed /\ (W!InHeader \/ row.sub = W!None \/ W!Carried(row).category = W!None)
      BY <2>2 DEF W!TakeForHeader, W!SkipNistRow
    <3> QED
      BY <1>1, <1>2, <1>3, <1>4, <3>1, NistRowPasses
  <2> QED
    BY <2>1, <2>2
<1>7. W!NistSubcategoriesAreFiled'
  <2>1. (rowsRead \in Seq(W!NistRows) /\ parsed \in Seq(FiledControls))' =>
          (W!NistSubcategoriesAreFiled <=> (book.format = "nist" => NistAll))'
    BY NistReads, PTL
  <2> QED
    BY <1>2, <1>6, <2>1
<1>8. book'.format # "cis"
  BY <1>1
<1>9. W!CisSafeguardsAreFiled'
  BY <1>8 DEF W!CisSafeguardsAreFiled
<1> QED
  BY <1>2, <1>5, <1>6, <1>7, <1>8, <1>9 DEF WorkbookInv

LEMMA WorkbookNext == W!WorkbookAssumption /\ WorkbookInv /\ [W!Next]_parserVars => WorkbookInv'
<1> SUFFICES ASSUME W!WorkbookAssumption, WorkbookInv, [W!Next]_parserVars
             PROVE  WorkbookInv'
  OBVIOUS
<1>1. CASE UNCHANGED parserVars
  <2>1. book' = book /\ rowsRead' = rowsRead /\ parsed' = parsed /\ current' = current
    BY <1>1 DEF parserVars
  <2>2. W!DataRows' = W!DataRows
    BY <2>1 DEF W!DataRows
  <2>3. \A i : W!LabelRow(i)' = W!LabelRow(i)
    BY <2>1, <2>2 DEF W!LabelRow, W!LastOf
  <2>4. CurrentHolds' <=> CurrentHolds
    <3>1. W!LabelRow(Len(rowsRead))' = W!LabelRow(Len(rowsRead))
      BY <2>1, <2>2 DEF W!LabelRow, W!LastOf
    <3> QED
      BY <2>1, <2>2, <3>1 DEF CurrentHolds
  <2>5. W!CisRowsOf' = W!CisRowsOf
    BY <2>1, <2>2 DEF W!CisRowsOf, W!CisKept, W!RowIg
  <2>6. W!NistRowsOf' = W!NistRowsOf /\ NistTitles' = NistTitles
    BY <2>1, <2>2, <2>3 DEF W!NistRowsOf, NistTitles, W!NistTitle
  <2>7. CisAll' <=> CisAll
    BY <2>1, <2>5 DEF CisAll, Ordered, CisFilled
  <2>8. NistAll' <=> NistAll
    BY <2>1, <2>6 DEF NistAll, Ordered, NistFilled
  <2>9. W!CisSafeguardsAreFiled'
    BY <2>1, <2>7, CisReads DEF WorkbookInv
  <2>10. (rowsRead \in Seq(W!NistRows) /\ parsed \in Seq(FiledControls))' =>
            (W!NistSubcategoriesAreFiled <=> (book.format = "nist" => NistAll))'
    BY NistReads, PTL
  <2>11. W!NistSubcategoriesAreFiled'
    <3>1. CASE book.format = "nist"
      BY <2>1, <2>8, <2>10, <3>1, NistReads DEF WorkbookInv
    <3>2. CASE book.format # "nist"
      BY <2>1, <3>2 DEF W!NistSubcategoriesAreFiled
    <3> QED
      BY <3>1, <3>2
  <2> QED
    BY <2>1, <2>4, <2>9, <2>11 DEF WorkbookInv
<1>2. CASE \E row \in W!CisRows :
             \/ W!TakeForHeader("cis", row) \/ W!FileSafeguard(row)
         \/ W!FileControl(row) \/ W!SkipCisRow(row)
  BY <1>2, CisStepKeeps
<1>3. CASE \E row \in W!NistRows :
             W!TakeForHeader("nist", row) \/ W!FileSubcategory(row) \/ W!SkipNistRow(row)
  BY <1>3, NistStepKeeps
<1> QED
  BY <1>1, <1>2, <1>3 DEF W!Next

\* Every safeguard and every subcategory of a workbook is filed once and in order
\* under its control, for any number of rows in any order, of any groups, titles
\* and markings of the implementation groups.
THEOREM EveryRowIsFiled == MCSpec => []WorkbooksAreFiled
<1>1. WorkbookInv => WorkbooksAreFiled
  BY DEF WorkbookInv, WorkbooksAreFiled
<1>2. W!Spec => []WorkbookInv
  BY WorkbookInit, WorkbookNext, ParserAssumption, PTL DEF W!Spec, W!vars, parserVars
<1> QED
  BY <1>1, <1>2, PartsAreIndependent, PTL
=============================================================================
