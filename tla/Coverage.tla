------------------------------ MODULE Coverage ------------------------------
(***************************************************************************)
(* The coverage engine: from the tags that each control requires, the tags *)
(* that each tool provides, the tools in scope and the notes of the        *)
(* controls to the status of each control, the score of the assessment and *)
(* the tools worth adding.  The loops over controls and tools are written  *)
(* as sets.                                                                *)
(***************************************************************************)
EXTENDS Integers, FiniteSets

Null == "null"
Never == -1       \* an override that does not expire

-----------------------------------------------------------------------------
\* The tags of the tools in scope.
Available(caps, tools) == UNION {caps[t] : t \in tools}

\* Fault: a control is covered by tools that provide nothing else.
TagStatus_Exact(tags, available) ==
  IF tags = {} \/ tags = available THEN "covered"
  ELSE IF tags \cap available # {} THEN "partial"
  ELSE "not_covered"

\* The status that the tools give a control with these required tags.
TagStatus(tags, available) ==
  IF tags \subseteq available THEN "covered"
  ELSE IF tags \cap available # {} THEN "partial"
  ELSE "not_covered"

\* An override counts until it expires.
InForce(note, now) ==
  /\ note.override_status # Null
  /\ note.override_expires = Never \/ note.override_expires > now

ControlStatus(tags, available, note, now) ==
  IF ~ note.is_applicable THEN "not_applicable"
  ELSE IF InForce(note, now) THEN note.override_status
  ELSE TagStatus(tags, available)

-----------------------------------------------------------------------------
\* Fault: a partially covered control counts as one that is not covered.
Counts_PartialLost(controls, status, note) ==
  LET applicable == {c \in controls : note[c].is_applicable}
  IN [covered |-> Cardinality({c \in applicable : status[c] = "covered"}),
      partial |-> 0,
      not_covered |-> Cardinality({c \in applicable : status[c] # "covered"})]

\* The controls in scope by their status: whatever is neither covered nor
\* partial counts as not covered.
Counts(controls, status, note) ==
  LET applicable == {c \in controls : note[c].is_applicable}
  IN [covered |-> Cardinality({c \in applicable : status[c] = "covered"}),
      partial |-> Cardinality({c \in applicable : status[c] = "partial"}),
      not_covered |-> Cardinality({c \in applicable :
                                     status[c] \notin {"covered", "partial"}})]

\* a / b to the nearest integer, an exact half to the even one.
Rounded(a, b) ==
  LET q == a \div b
      r == a % b
  IN IF 2 * r > b \/ (2 * r = b /\ q % 2 = 1) THEN q + 1 ELSE q

\* The percentage with its one decimal, in tenths.
Score(counts) ==
  LET total == counts.covered + counts.partial + counts.not_covered
  IN IF total = 0 THEN 0
     ELSE Rounded(1000 * (2 * counts.covered + counts.partial), 2 * total)

-----------------------------------------------------------------------------
\* Fault: a control that requires nothing counts as not covered.
OtherFrameworkCounts_Empty(required, available) ==
  LET whole == {c \in DOMAIN required : required[c] # {} /\ required[c] \subseteq available}
      part == {c \in DOMAIN required \ whole : required[c] \cap available # {}}
  IN [covered |-> Cardinality(whole),
      partial |-> Cardinality(part),
      not_covered |-> Cardinality(DOMAIN required \ (whole \cup part))]

\* multi_framework_coverage: the tools of an assessment held against the
\* controls of another framework.
OtherFrameworkCounts(required, available) ==
  LET whole == {c \in DOMAIN required :
                  required[c] = {} \/ required[c] \subseteq available}
      part == {c \in DOMAIN required \ whole : required[c] \cap available # {}}
  IN [covered |-> Cardinality(whole),
      partial |-> Cardinality(part),
      not_covered |-> Cardinality(DOMAIN required \ (whole \cup part))]

-----------------------------------------------------------------------------
\* The required tags that no tool in scope provides, in scope or not: notes
\* play no part in recommendations.
MissingTags(required, available) ==
  UNION {required[c] \ available : c \in DOMAIN required}

\* Fault: a tool must close every gap to be recommended.
Recommendations_All(required, caps, selected, catalogue) ==
  LET missing == MissingTags(required, Available(caps, selected))
  IN IF missing = {} THEN {}
     ELSE {t \in catalogue \ selected : missing \subseteq caps[t]}

\* The tools of the catalogue that provide a missing tag.
Recommendations(required, caps, selected, catalogue) ==
  LET missing == MissingTags(required, Available(caps, selected))
  IN {t \in catalogue \ selected : caps[t] \cap missing # {}}
=============================================================================
