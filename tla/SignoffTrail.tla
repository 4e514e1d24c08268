---------------------------- MODULE SignoffTrail ----------------------------
(***************************************************************************)
(* What the assessment lifecycle promises under any number of concurrent   *)
(* requests: the sign-off trail of an assessment only grows, and every     *)
(* entry is an action that the transition table allows from a status the   *)
(* assessment really had at some earlier point of the same trail.          *)
(*                                                                         *)
(* The promise is weaker than the transition table itself: the status an   *)
(* entry was checked against need not be the latest one.                   *)
(***************************************************************************)
EXTENDS Naturals, Sequences

CONSTANTS
  Assessments,  \* identifiers of assessments
  Signers       \* users who may appear in the trail

VARIABLE trail  \* trail[a] : the sign-offs of assessment a, oldest first

(***************************************************************************)
(* VALID_TRANSITIONS and ACTION_STATUS_MAP, as sets and a function.        *)
(***************************************************************************)
Statuses == {"draft", "in_review", "approved", "archived"}

Actions == {"submit_for_review", "approve", "return", "archive"}

\* Fault: a draft can be approved directly.
Allowed_DraftApproved(status) ==
  CASE status = "draft"     -> {"submit_for_review", "approve", "archive"}
    [] status = "in_review" -> {"approve", "return", "archive"}
    [] status = "approved"  -> {"archive"}
    [] OTHER                -> {}

Allowed(status) ==
  CASE status = "draft"     -> {"submit_for_review", "archive"}
    [] status = "in_review" -> {"approve", "return", "archive"}
    [] status = "approved"  -> {"archive"}
    [] OTHER                -> {}

StatusAfterAction(action) ==
  CASE action = "submit_for_review" -> "in_review"
    [] action = "approve"           -> "approved"
    [] action = "return"            -> "draft"
    [] OTHER                        -> "archived"

Signoffs == [action : Actions, user_name : Signers]

\* The status of an assessment after the first k sign-offs of its trail.
StatusAt(t, k) == IF k = 0 THEN "draft" ELSE StatusAfterAction(t[k].action)

-----------------------------------------------------------------------------
Init == trail = [a \in Assessments |-> <<>>]

Record(a, s) ==
  /\ \E k \in 0 .. Len(trail[a]) : s.action \in Allowed(StatusAt(trail[a], k))
  /\ trail' = [trail EXCEPT ![a] = Append(@, s)]

\* Deleting an assessment takes its trail along.
Discard(a) == trail' = [trail EXCEPT ![a] = <<>>]

Next == \E a \in Assessments : Discard(a) \/ \E s \in Signoffs : Record(a, s)

Spec == Init /\ [][Next]_trail
=============================================================================
