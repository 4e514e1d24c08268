---------------------------- MODULE MCCatalogue ----------------------------
(***************************************************************************)
(* Instances of FrameworkCatalogue, WorkbookParser and CoverageReport for   *)
(* TLC.                                                                    *)
(*                                                                         *)
(* A workbook is parsed before the importer touches the database, and a    *)
(* report is computed of the rows that are there, so that the three have   *)
(* no step in common: at is the one at work.  Uploads has the shapes of    *)
(* document that the parser can yield, repeated rows included.             *)
(***************************************************************************)
EXTENDS FrameworkCatalogue, TLC

CONSTANTS
  Groups, Texts, Marks, MaxRows,                   \* of WorkbookParser
  Controls, ReportTools, Tags, Overrides, Horizon  \* of CoverageReport

VARIABLES
  book, rowsRead, parsed, current,
  required, caps, toolRows, selected, note, now,
  at

W == INSTANCE WorkbookParser WITH rows <- rowsRead, controls <- parsed

R == INSTANCE CoverageReport WITH Tools <- ReportTools, catalogue <- toolRows

ASSUME ParserAssumption == W!WorkbookAssumption

ASSUME ReportAssumption == R!CoverageAssumption

parserVars == <<book, rowsRead, parsed, current>>

reportVars == <<required, caps, toolRows, selected, note, now>>

MCInit ==
  /\ Init /\ W!Init /\ R!Init
  /\ at \in {"catalogue", "workbook", "report"}
  /\ at # "workbook" => book = CHOOSE b \in W!Books : TRUE
  /\ at # "report" => /\ required = [c \in Controls |-> {}]
                     /\ caps = [t \in ReportTools |-> {}]

MCNext ==
  /\ at' = at
  /\ \/ at = "catalogue" /\ Next /\ UNCHANGED <<parserVars, reportVars>>
     \/ at = "workbook" /\ W!Next /\ UNCHANGED <<vars, reportVars>>
     \/ at = "report" /\ R!Next /\ UNCHANGED <<vars, parserVars>>

MCSpec == MCInit /\ [][MCNext]_<<vars, parserVars, reportVars, at>>

\* Every safeguard and every subcategory of a workbook is filed once and in order
\* under its control (WorkbookParser, parse_cis_xlsx and parse_nist_csf_xlsx).
WorkbooksAreFiled == W!CisSafeguardsAreFiled /\ W!NistSubcategoriesAreFiled

\* The score of a report is the mean that the README documents (CoverageReport,
\* compute_coverage).
ScoreIsMean == R!ScoreIsMean

\* When compute_recommendations names no tool, none is left that would help.
NothingLeftToRecommend == R!NothingLeftToRecommend

\* multi_framework_coverage counts as compute_coverage will.
CrosswalkPredictsReport == R!CrosswalkPredictsReport

\* Tools that are added to the scope of an assessment worsen no control.
MoreToolsNeverWorsen == R!MoreToolsNeverWorsen

-----------------------------------------------------------------------------
C(cid, subs, tags) == [control_id |-> cid, sub_controls |-> subs, required_tags |-> tags]

\* Two frameworks that share a tag.  The second release words the sub-controls of
\* one control differently.
MCSeedData ==
  << <<[key |-> "cis", controls |-> <<C("c1", "old", {"t1"})>>],
       [key |-> "nist", controls |-> <<C("c1", NoSubs, {"t1"}), C("c2", NoSubs, {})>>]>>,
     <<[key |-> "cis", controls |-> <<C("c1", "new", {"t1"})>>],
       [key |-> "nist", controls |-> <<C("c1", NoSubs, {"t1"}), C("c2", NoSubs, {})>>]>> >>

\* A CIS workbook that repeats a row, a NIST workbook with sub-controls, a
\* document that import_cis.py has generated.  The importer and the seed file
\* of one framework have one key here, as they have for a seed file of one's
\* own that spells name and version as the importer does.
MCUploads ==
  {[kind |-> "cis", doc |-> [key |-> "cis", controls |-> <<C("c2", NoSubs, {}), C("c2", NoSubs, {})>>]],
   [kind |-> "nist", doc |-> [key |-> "nist", controls |-> <<C("c1", "book", {"t1"})>>]],
   [kind |-> "script", doc |-> [key |-> "cis", controls |-> <<C("c1", "book", {})>>]]}

\* Cumulative, as the official workbook fills the columns, and exclusive.
MCMarks == {{1, 2, 3}, {2}}

\* not_covered is the status without tools, covered the best there is.
SomeOverrides == {"partial", "not_applicable"}

\* There are two of everything.  While one part is at work, the others hold
\* values that a swap maps to ones just as good, so that a swap of each part can
\* be made at once: the group is no larger than one part needs.
Swap(S) == [x \in S |-> CHOOSE y \in S : y # x]

Symmetry ==
  Permutations(Tags)
    \cup {Swap(Workers) @@ Swap(Controls) @@ Swap(Groups), Swap(ReportTools) @@ Swap(Texts)}
=============================================================================
