--------------------------- MODULE WorkbookParser ---------------------------
(***************************************************************************)
(* The two spreadsheet parsers, row by row: parse_cis_xlsx, which files     *)
(* safeguards under controls, and parse_nist_csf_xlsx, which files          *)
(* subcategories under categories.                                         *)
(*                                                                         *)
(* Rows come in any order and number.  A control is made by whichever row   *)
(* needs it first, a NIST category by the first subcategory below a label   *)
(* that is written once and then carried over.  A cell is what the parser   *)
(* recognises in it; the columns are settled before the first row.          *)
(***************************************************************************)
EXTENDS Naturals, Sequences, FiniteSets

CONSTANTS
  Groups,    \* numbers of CIS controls, codes of NIST categories
  Texts,     \* titles and labels
  Marks,     \* which of the three columns IG1, IG2, IG3 of a row are filled
  MaxRows    \* bound: rows of a workbook

VARIABLES
  book,      \* what is known before the first row
  rows,      \* history: the rows read so far
  controls,  \* controls_map in the order of controls_order
  current    \* the category and the function carried over from earlier rows

vars == <<book, rows, controls, current>>

-----------------------------------------------------------------------------
Levels == 1..3
None == "none"   \* an empty cell, or one in which nothing is recognised
Stub == "stub"   \* the title of a control that only its safeguards announce

\* What the constants have to satisfy.
WorkbookAssumption ==
  /\ Marks \subseteq SUBSET Levels
  /\ MaxRows \in Nat
  /\ None \notin Groups \cup Texts
  /\ Stub \notin Texts

\* columns are the implementation groups that the header names; without a
\* header there are none, and the first row is taken for one.
CisBooks == [format : {"cis"}, headed : BOOLEAN, min_ig : Levels, columns : {{}, Levels}]
NistBooks == [format : {"nist"}, headed : BOOLEAN]

Books ==
  {b \in CisBooks : b.columns # {} => b.headed} \cup NistBooks

\* number 0 is a row of the control itself, any other one of its safeguards.
CisRows ==
  [group : Groups \cup {None}, number : 0..1, title : Texts \cup {None}, ticks : Marks]

NistRows ==
  [function : {None, "function"}, category : Groups \cup {None}, label : Texts,
   sub : Groups \cup {None}]

\* Controls and categories alike.  title is either of the columns title and
\* description: each is taken, and later replaced, by a rule of its own that is
\* the same for both, so that what holds of one column holds of the other.
NewControl(g, title, subs) == [id |-> g, title |-> title, subs |-> subs]

Find(g) == {i \in 1..Len(controls) : controls[i].id = g}

\* Appends sub to the control of g, which made opens if there is none yet.
Filed(g, made, sub) ==
  IF Find(g) = {}
    THEN Append(controls, [made EXCEPT !.subs = <<sub>>])
    ELSE [i \in 1..Len(controls) |->
            IF i \in Find(g) THEN [controls[i] EXCEPT !.subs = Append(@, sub)]
                             ELSE controls[i]]

-----------------------------------------------------------------------------
Init ==
  /\ book \in Books
  /\ rows = <<>>
  /\ controls = <<>>
  /\ current = [category |-> None, label |-> None, function |-> None]

Turn(format, row) ==
  /\ book.format = format
  /\ Len(rows) < MaxRows
  /\ rows' = Append(rows, row)
  /\ UNCHANGED book

\* Without a header the first row is passed over as if it were one.
InHeader == ~book.headed /\ rows = <<>>

TakeForHeader(format, row) ==
  /\ Turn(format, row)
  /\ InHeader
  /\ UNCHANGED <<controls, current>>

-----------------------------------------------------------------------------
(***************************************************************************)
(* parse_cis_xlsx                                                          *)
(***************************************************************************)

\* _row_ig: the highest of the filled columns.
RowIg(row) ==
  IF 3 \in book.columns \cap row.ticks THEN 3
  ELSE IF 2 \in book.columns \cap row.ticks THEN 2
  ELSE 1

\* Rows without an identifier, and those above the wanted group, are skipped.
CisKept(row) ==
  /\ row.group # None
  /\ book.min_ig < 3 /\ 1 \in book.columns => RowIg(row) <= book.min_ig

FileSafeguard(row) ==
  /\ Turn("cis", row) /\ ~InHeader
  /\ CisKept(row) /\ row.number # 0
  /\ controls' = Filed(row.group, NewControl(row.group, Stub, <<>>), [title |-> row.title])
  /\ UNCHANGED current

\* Fault: the row that comes first settles the title, be it only a stub's.
FirstRowStands(row) == controls

\* A title, where the row has one, replaces that of the control.
Retitled(row) ==
  [i \in 1..Len(controls) |->
     IF i \in Find(row.group) /\ row.title # None
       THEN [controls[i] EXCEPT !.title = row.title]
       ELSE controls[i]]

FileControl(row) ==
  /\ Turn("cis", row) /\ ~InHeader
  /\ CisKept(row) /\ row.number = 0
  /\ controls' = IF Find(row.group) = {}
                   THEN Append(controls, NewControl(row.group, row.title, <<>>))
                   ELSE Retitled(row)
  /\ UNCHANGED current

SkipCisRow(row) ==
  /\ Turn("cis", row) /\ ~InHeader
  /\ ~CisKept(row)
  /\ UNCHANGED <<controls, current>>

-----------------------------------------------------------------------------
(***************************************************************************)
(* parse_nist_csf_xlsx                                                     *)
(***************************************************************************)

\* Fault: a row without a category cell belongs to no category.
CarriedAfresh(row) ==
  [category |-> row.category, label |-> row.label,
   function |-> IF row.function # None THEN row.function ELSE current.function]

\* The labels in force at a row.  A category cell without a code leaves the
\* category before it in force.
Carried(row) ==
  [category |-> IF row.category # None THEN row.category ELSE current.category,
   label |-> IF row.category # None THEN row.label ELSE current.label,
   function |-> IF row.function # None THEN row.function ELSE current.function]

\* Subcategories go to the category in force, whatever their own code says.
FileSubcategory(row) ==
  LET c == Carried(row)
  IN /\ Turn("nist", row) /\ ~InHeader
     /\ row.sub # None /\ c.category # None
     /\ current' = c
     /\ controls' = Filed(c.category,
                          NewControl(c.category, <<c.label, c.function>>, <<>>),
                          [code |-> row.sub])

SkipNistRow(row) ==
  /\ Turn("nist", row) /\ ~InHeader
  /\ row.sub = None \/ Carried(row).category = None
  /\ current' = Carried(row)
  /\ UNCHANGED controls

-----------------------------------------------------------------------------
Next ==
  \/ \E row \in CisRows :
       TakeForHeader("cis", row) \/ FileSafeguard(row) \/ FileControl(row) \/ SkipCisRow(row)
  \/ \E row \in NistRows :
       TakeForHeader("nist", row) \/ FileSubcategory(row) \/ SkipNistRow(row)

Spec == Init /\ [][Next]_vars

-----------------------------------------------------------------------------
(***************************************************************************)
(* Properties                                                              *)
(***************************************************************************)
DataRows == {i \in 1..Len(rows) : book.headed \/ i > 1}

FirstOf(S) == CHOOSE i \in S : \A j \in S : i <= j
LastOf(S) == CHOOSE i \in S : \A j \in S : i >= j

\* The list has what each row of a set says, once and in the order of the rows.
Lists(list, S, said) ==
  /\ Len(list) = Cardinality(S)
  /\ \A i \in S : list[Cardinality({j \in S : j <= i})] = said[i]

\* The controls, given the rows that make one of a group or go into it: one for
\* each group with rows, in the order in which they first appear.
ControlsInOrder(rowsOf) ==
  /\ {controls[i].id : i \in 1..Len(controls)} = {g \in Groups : rowsOf[g] # {}}
  /\ \A i, j \in 1..Len(controls) :
       i < j => FirstOf(rowsOf[controls[i].id]) < FirstOf(rowsOf[controls[j].id])

CisRowsOf == [g \in Groups |-> {i \in DataRows : rows[i].group = g /\ CisKept(rows[i])}]

CisSubs == [i \in 1..Len(rows) |-> [title |-> rows[i].title]]

CisTitle(mine) ==
  LET titled == {j \in mine : rows[j].number = 0 /\ rows[j].title # None}
  IN IF titled # {} THEN rows[LastOf(titled)].title
     ELSE IF rows[FirstOf(mine)].number = 0 THEN None
     ELSE Stub

\* In whatever order the rows of a CIS workbook come, each safeguard that is
\* wanted is filed once and in order under its control, whose title is the last
\* one that a row of its own gives; a control without such a row has a stub's.
CisSafeguardsAreFiled ==
  book.format = "cis" =>
    /\ ControlsInOrder(CisRowsOf)
    /\ \A i \in 1..Len(controls) :
         LET mine == CisRowsOf[controls[i].id]
         IN /\ Lists(controls[i].subs, {j \in mine : rows[j].number # 0}, CisSubs)
            /\ controls[i].title = CisTitle(mine)

\* The row that holds the category label in force at row i, 0 if none.
LabelRow(i) ==
  LET above == {j \in DataRows : j <= i /\ rows[j].category # None}
  IN IF above = {} THEN 0 ELSE LastOf(above)

NistRowsOf ==
  [g \in Groups |->
     {i \in DataRows : rows[i].sub # None /\ LabelRow(i) # 0 /\ rows[LabelRow(i)].category = g}]

NistSubs == [i \in 1..Len(rows) |-> [code |-> rows[i].sub]]

\* The label and the function in force at row i.
NistTitle(i) ==
  <<rows[LabelRow(i)].label,
    IF \E j \in DataRows : j <= i /\ rows[j].function # None THEN "function" ELSE None>>

\* However a NIST workbook spreads its merged cells, each subcategory is filed
\* once and in order under the category written last above it, which has the
\* label and the function of its first subcategory.
NistSubcategoriesAreFiled ==
  book.format = "nist" =>
    /\ ControlsInOrder(NistRowsOf)
    /\ \A i \in 1..Len(controls) :
         LET mine == NistRowsOf[controls[i].id]
         IN /\ Lists(controls[i].subs, mine, NistSubs)
            /\ controls[i].title = NistTitle(FirstOf(mine))

\* cis_xlsx.py:29 and import_cis.py:47 of the least group: "1=all".  A workbook
\* that is read with it yields every safeguard that it lists, below its control.
LevelOneMeansAll ==
  book.format = "cis" /\ book.min_ig = 1 =>
    \A i \in DataRows : rows[i].group # None /\ rows[i].number # 0 =>
      \E c \in Find(rows[i].group), n \in 1..MaxRows :
        n \in DOMAIN controls[c].subs /\ controls[c].subs[n].title = rows[i].title
=============================================================================
