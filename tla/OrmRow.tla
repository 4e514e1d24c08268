------------------------------- MODULE OrmRow -------------------------------
(***************************************************************************)
(* What a commit of the ORM session writes to a row that the session       *)
(* loaded earlier: the columns whose value differs from the one loaded,    *)
(* and only those.  Two requests that loaded the same row can therefore    *)
(* leave a mixture behind that neither of them wrote.                      *)
(***************************************************************************)

\* Columns that the handler has given a value other than the loaded one.
Changed(loaded, new) == {c \in DOMAIN new : new[c] # loaded[c]}

\* Fault: the session writes the whole row back.
Flush_WholeRow(row, new, columns) == new

\* The row after an UPDATE of these columns.
Flush(row, new, columns) ==
  [c \in DOMAIN row |-> IF c \in columns THEN new[c] ELSE row[c]]
=============================================================================
