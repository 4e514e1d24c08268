--------------------------- MODULE CoverageReport ---------------------------
(***************************************************************************)
(* The report of one assessment while its inputs change: tools are added   *)
(* to and removed from the catalogue and the scope, controls are           *)
(* overridden or excluded, and overrides expire.  The report is not        *)
(* stored, every request computes it from the current rows.                *)
(***************************************************************************)
EXTENDS Coverage

CONSTANTS
  Controls,
  Tools,
  Tags,
  Overrides,  \* statuses that an override may give
  Horizon     \* bound of the clock

CoverageAssumption ==
  /\ IsFiniteSet(Controls)
  /\ Overrides \subseteq {"covered", "partial", "not_covered", "not_applicable"}
  /\ Horizon \in Nat

VARIABLES
  required,   \* the tags a control requires, from the framework
  caps,       \* the tags a tool provides
  catalogue,  \* tools
  selected,   \* assessment_tool
  note,       \* control_notes
  now

vars == <<required, caps, catalogue, selected, note, now>>

Times == 0 .. Horizon

Notes ==
  [is_applicable : BOOLEAN, override_status : Overrides \cup {Null},
   override_expires : Times \cup {Never}]

\* A control without a row counts like one with the defaults of the columns.
NoNote == [is_applicable |-> TRUE, override_status |-> Null,
           override_expires |-> Never]

TypeOK ==
  /\ required \in [Controls -> SUBSET Tags]
  /\ caps \in [Tools -> SUBSET Tags]
  /\ catalogue \subseteq Tools
  /\ selected \subseteq catalogue
  /\ note \in [Controls -> Notes]
  /\ now \in Times

Init ==
  /\ required \in [Controls -> SUBSET Tags]
  /\ caps \in [Tools -> SUBSET Tags]
  /\ catalogue = Tools
  /\ selected = {}
  /\ note = [c \in Controls |-> NoNote]
  /\ now = 0

-----------------------------------------------------------------------------
(***************************************************************************)
(* What the report says                                                    *)
(***************************************************************************)
StatusWith(tools) ==
  [c \in Controls |->
     ControlStatus(required[c], Available(caps, tools), note[c], now)]

Status == StatusWith(selected)

ReportedScore == Score(Counts(Controls, Status, note))

Recommended == Recommendations(required, caps, selected, catalogue)

-----------------------------------------------------------------------------
\* update_assessment_tools: the selection is the known ones of the payload.
UpdateTools ==
  /\ \E tools \in SUBSET catalogue : selected' = tools
  /\ UNCHANGED <<required, caps, catalogue, note, now>>

\* create_tool, of a name that is not taken.
CreateTool ==
  /\ \E t \in Tools \ catalogue, tags \in SUBSET Tags :
       /\ catalogue' = catalogue \cup {t}
       /\ caps' = [caps EXCEPT ![t] = tags]
  /\ UNCHANGED <<required, selected, note, now>>

\* upload_tools: tools of the file that exist already are skipped.
UploadTools ==
  /\ \E items \in SUBSET Tools, tags \in [Tools -> SUBSET Tags] :
       /\ catalogue' = catalogue \cup items
       /\ caps' = [t \in Tools |-> IF t \in items \ catalogue THEN tags[t] ELSE caps[t]]
  /\ UNCHANGED <<required, selected, note, now>>

\* delete_tool, which takes the tool out of every scope.
DeleteTool ==
  /\ \E t \in catalogue :
       /\ catalogue' = catalogue \ {t}
       /\ selected' = selected \ {t}
  /\ UNCHANGED <<required, caps, note, now>>

\* upsert_control_notes: a field absent from the payload stays.
OverrideControl ==
  /\ \E c \in Controls, o \in Overrides \cup {Null} :
       \/ note' = [note EXCEPT ![c].override_status = o]
       \/ \E e \in Times : note' = [note EXCEPT ![c].override_status = o,
                                                ![c].override_expires = e]
  /\ UNCHANGED <<required, caps, catalogue, selected, now>>

SetApplicable ==
  /\ \E c \in Controls, b \in BOOLEAN : note' = [note EXCEPT ![c].is_applicable = b]
  /\ UNCHANGED <<required, caps, catalogue, selected, now>>

Tick ==
  /\ now < Horizon
  /\ now' = now + 1
  /\ UNCHANGED <<required, caps, catalogue, selected, note>>

Next ==
  \/ UpdateTools
  \/ CreateTool
  \/ UploadTools
  \/ DeleteTool
  \/ OverrideControl
  \/ SetApplicable
  \/ Tick

Spec == Init /\ [][Next]_vars

-----------------------------------------------------------------------------
(***************************************************************************)
(* Properties                                                              *)
(***************************************************************************)
Better == [not_applicable |-> 0, not_covered |-> 0, partial |-> 1, covered |-> 2]

\* More tools in scope, everything else being equal, make no control worse.
MoreToolsNeverWorsen ==
  [][ /\ selected \subseteq selected'
      /\ UNCHANGED <<required, caps, note, now>>
      => \A c \in Controls : Better[Status[c]]' >= Better[Status[c]] ]_vars

\* When no tool is recommended, the whole catalogue in scope would give no
\* control another status.
NothingLeftToRecommend ==
  Recommended = {} => Status = StatusWith(catalogue)

\* The crosswalk computes coverage by a loop of its own.  What it predicts for
\* another framework is what the report says of a new assessment of that
\* framework with the same tools.
CrosswalkPredictsReport ==
  LET available == Available(caps, selected)
      new == [c \in Controls |-> NoNote]
      status == [c \in Controls |-> ControlStatus(required[c], available, NoNote, now)]
  IN OtherFrameworkCounts(required, available) = Counts(Controls, status, new)

\* README, "Reading coverage results": the score is
\* (covered + 0.5 partial) / applicable, controls that are N/A being excluded.
Weight == [covered |-> 2, partial |-> 1, not_covered |-> 0]

InScope == {c \in Controls : Status[c] # "not_applicable"}

TotalWeight ==
  Cardinality({p \in InScope \X {1, 2} : p[2] <= Weight[Status[p[1]]]})

ScoreAsDocumented ==
  ReportedScore = IF InScope = {} THEN 0
                  ELSE Rounded(1000 * TotalWeight, 2 * Cardinality(InScope))

\* The same, as long as no override says that a control is not applicable.
ScoreIsMean ==
  (\A c \in Controls : note[c].override_status # "not_applicable") =>
    ScoreAsDocumented
=============================================================================
