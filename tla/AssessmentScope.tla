-------------------------- MODULE AssessmentScope --------------------------
(***************************************************************************)
(* The tools that are in the scope of an assessment, and who owns its       *)
(* controls: selection of tools, upsert of ownership, creation, cloning,    *)
(* and the deletion of tools and assessments.                              *)
(*                                                                         *)
(* A selection is turned into the rows to insert and to delete against the  *)
(* scope that the request has loaded.  A clone reads the parts of its       *)
(* source one after the other.                                             *)
(***************************************************************************)
CONSTANTS
  Workers,
  Assessments,
  Tools,
  People       \* what a column of an ownership holds

VARIABLES
  assessments, \* ids in the table
  unused,      \* ids that have not been drawn
  tools,       \* ids in the table of tools; a new tool gets a new id
  scope,       \* assessment_tool
  ownership,   \* control_ownership: one column of one control
  req,
  chosen,      \* history: for each assessment what was last asked for
  mixed        \* history: assessments changed by one who had loaded an earlier state

vars == <<assessments, unused, tools, scope, ownership, req, chosen, mixed>>

-----------------------------------------------------------------------------
Null == "null"
NoOwnership == "none"

Idle == [phase |-> "idle"]

Nothing == [scope |-> {}, ownership |-> NoOwnership]

Init ==
  /\ assessments = {}
  /\ unused = Assessments
  /\ tools = Tools
  /\ scope = [a \in Assessments |-> {}]
  /\ ownership = [a \in Assessments |-> NoOwnership]
  /\ req = [w \in Workers |-> Idle]
  /\ chosen = [a \in Assessments |-> Nothing]
  /\ mixed = {}

\* A request that has looked up what q says.
Continue(w, q) ==
  /\ req' = [req EXCEPT ![w] = q]
  /\ UNCHANGED <<assessments, unused, tools, scope, ownership, chosen, mixed>>

Load(w, q) == req[w] = Idle /\ Continue(w, q)

\* History: a commit that gives a what was asked for, and whether it was made
\* on the state that the request had loaded.
Note(a, asked, current) ==
  /\ chosen' = [chosen EXCEPT ![a] = asked]
  /\ mixed' = IF current THEN mixed ELSE mixed \cup {a}

-----------------------------------------------------------------------------
\* update_assessment_tools: the assessment,
LoadForSelection(w, a) ==
  /\ a \in assessments
  /\ Load(w, [phase |-> "asking", assessment |-> a])

\* the tools of the wanted ids, of which those that no tool has are passed over,
QueryTools(w, S) ==
  /\ req[w].phase = "asking"
  /\ Continue(w, [phase |-> "assigning", assessment |-> req[w].assessment, wanted |-> S \cap tools])

\* and the old scope, which the assignment to a.tools loads.
LoadScope(w) ==
  LET q == req[w]
  IN /\ q.phase = "assigning"
     /\ Continue(w, [phase |-> "selecting", assessment |-> q.assessment,
                     loaded |-> scope[q.assessment], wanted |-> q.wanted])

\* Fault: what is wanted is added, and nothing is taken away.
Selected_AddsOnly(loaded, wanted, stored) == stored \cup wanted

\* The scope after the insertions and deletions of a selection.
Selected(loaded, wanted, stored) == (stored \ (loaded \ wanted)) \cup (wanted \ loaded)

\* Refused, with Abandon, when the assessment or a tool to add is gone, or a
\* tool to add has been added; whether a row to delete that is gone is an error
\* depends on the driver.
CommitSelection(w) ==
  LET q == req[w]
      a == q.assessment
      new == q.wanted \ q.loaded
  IN /\ q.phase = "selecting"
     /\ a \in assessments
     /\ new \subseteq tools \ scope[a]
     /\ scope' = [scope EXCEPT ![a] = Selected(q.loaded, q.wanted, @)]
     /\ Note(a, [chosen[a] EXCEPT !.scope = q.wanted], scope[a] = q.loaded \cap tools)
     /\ req' = [req EXCEPT ![w] = Idle]
     /\ UNCHANGED <<assessments, unused, tools, ownership>>

\* upsert_ownership; the columns are assigned independently of each other.
LoadOwnership(w, a, person) ==
  /\ a \in assessments
  /\ Load(w, [phase |-> "owning", assessment |-> a, loaded |-> ownership[a], person |-> person])

\* A second insertion is refused, and so is one for an assessment that is gone.
\* A value that is the loaded one is not written.
CommitOwnership(w) ==
  LET q == req[w]
      a == q.assessment
  IN /\ q.phase = "owning"
     /\ a \in assessments
     /\ q.loaded = NoOwnership => ownership[a] = NoOwnership
     /\ ownership' = [ownership EXCEPT ![a] = IF q.person = q.loaded THEN @ ELSE q.person]
     /\ Note(a, [chosen[a] EXCEPT !.ownership = q.person], ownership[a] = q.loaded)
     /\ req' = [req EXCEPT ![w] = Idle]
     /\ UNCHANGED <<assessments, unused, tools, scope>>

-----------------------------------------------------------------------------
\* create_assessment, the tools that it begins with.
LoadForCreate(w, S) ==
  Load(w, [phase |-> "inserting", scope |-> S \cap tools, ownership |-> NoOwnership,
           source |-> Null])

\* clone_assessment: the source,
LoadForClone(w, a) ==
  /\ a \in assessments
  /\ Load(w, [phase |-> "cloning", source |-> a])

\* its tools,
LoadScopeForClone(w) ==
  LET a == req[w].source
  IN /\ req[w].phase = "cloning"
     /\ Continue(w, [phase |-> "copying", source |-> a, scope |-> scope[a]])

\* and its ownership; of neither is anything left when the source is gone.
LoadOwnershipForClone(w) ==
  LET q == req[w]
  IN /\ q.phase = "copying"
     /\ Continue(w, [phase |-> "inserting", source |-> q.source, scope |-> q.scope,
                     ownership |-> ownership[q.source]])

\* Refused when one of the tools is gone.
CommitNew(w, b) ==
  LET q == req[w]
      asked == IF q.source = Null THEN [scope |-> q.scope, ownership |-> NoOwnership]
               ELSE [scope |-> scope[q.source], ownership |-> ownership[q.source]]
  IN /\ q.phase = "inserting"
     /\ b \in unused
     /\ q.scope \subseteq tools
     /\ assessments' = assessments \cup {b}
     /\ unused' = unused \ {b}
     /\ scope' = [scope EXCEPT ![b] = q.scope]
     /\ ownership' = [ownership EXCEPT ![b] = q.ownership]
     /\ Note(b, asked, asked.scope = q.scope /\ asked.ownership = q.ownership)
     /\ req' = [req EXCEPT ![w] = Idle]
     /\ UNCHANGED tools

-----------------------------------------------------------------------------
\* delete_tool, with the cascade to the scopes.
DeleteTool(t) ==
  /\ t \in tools
  /\ tools' = tools \ {t}
  /\ scope' = [a \in Assessments |-> scope[a] \ {t}]
  /\ UNCHANGED <<assessments, unused, ownership, req, chosen, mixed>>

\* delete_assessment
DeleteAssessment(a) ==
  /\ a \in assessments
  /\ assessments' = assessments \ {a}
  /\ scope' = [scope EXCEPT ![a] = {}]
  /\ ownership' = [ownership EXCEPT ![a] = NoOwnership]
  /\ chosen' = [chosen EXCEPT ![a] = Nothing]
  /\ mixed' = mixed \ {a}
  /\ UNCHANGED <<unused, tools, req>>

\* A refused commit, a killed process.
Abandon(w) ==
  /\ req[w] # Idle
  /\ Continue(w, Idle)

Next ==
  \/ \E w \in Workers, a \in Assessments :
       \/ LoadForSelection(w, a)
       \/ \E person \in People : LoadOwnership(w, a, person)
       \/ LoadForClone(w, a)
       \/ CommitNew(w, a)
  \/ \E w \in Workers :
       \/ CommitSelection(w)
       \/ CommitOwnership(w)
       \/ \E S \in SUBSET Tools : QueryTools(w, S) \/ LoadForCreate(w, S)
       \/ LoadScope(w)
       \/ LoadScopeForClone(w)
       \/ LoadOwnershipForClone(w)
       \/ Abandon(w)
  \/ \E t \in Tools : DeleteTool(t)
  \/ \E a \in Assessments : DeleteAssessment(a)

Spec == Init /\ [][Next]_vars

-----------------------------------------------------------------------------
(***************************************************************************)
(* Properties                                                              *)
(***************************************************************************)

\* The scope of an assessment is the selection that was last made for it, less
\* the tools that are gone, and its owners are those last named; a clone begins
\* with those of its source.  Requests that loaded one state and committed on
\* another are the exception: what is left is a mixture nobody has asked for.
AssessmentsAreAsChosen ==
  \A a \in assessments \ mixed :
    scope[a] = chosen[a].scope \cap tools /\ ownership[a] = chosen[a].ownership
=============================================================================
