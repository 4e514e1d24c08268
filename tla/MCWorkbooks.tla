---------------------------- MODULE MCWorkbooks ----------------------------
(***************************************************************************)
(* Instances of WorkbookParser for TLC.                                    *)
(***************************************************************************)
EXTENDS WorkbookParser, TLC

\* The columns are cumulative: a safeguard of group 1 is ticked in all three.
\* The row of a control has no ticks.
MCMarks == {{}, {1, 2, 3}}

Symmetry == Permutations(Groups) \cup Permutations(Texts)
=============================================================================
