---------------------------- MODULE MfaEnrollment ----------------------------
(***************************************************************************)
(* The second factor of one account: the user sets it up, confirms it and  *)
(* disables it, an administrator resets it.  Secret and flag are separate  *)
(* columns; each request decides on the row that it loaded and writes the  *)
(* columns that it changed.                                                *)
(***************************************************************************)
EXTENDS OrmRow

CONSTANTS
  Secrets,  \* random secrets, each drawn once
  Workers

VARIABLES
  row,     \* the columns of users
  drawn,   \* secrets drawn so far
  shown,   \* history: the secrets that the user has been shown
  proven,  \* history: the secrets whose code was accepted by a confirmation
  req,     \* the request that each worker is serving
  stale    \* history: a request has written to a row that another request had
           \* changed since it was loaded

vars == <<row, drawn, shown, proven, req, stale>>

-----------------------------------------------------------------------------
Null == "null"

Rows == [totp_secret : Secrets \cup {Null}, mfa_enabled : BOOLEAN]

NoMfa == [totp_secret |-> Null, mfa_enabled |-> FALSE]

Idle == [phase |-> "idle"]

Requests ==
       [phase : {"setup"}, loaded : Rows, secret : Secrets]
  \cup [phase : {"confirm", "disable", "reset"}, loaded : Rows]

TypeOK ==
  /\ row \in Rows
  /\ drawn \subseteq Secrets
  /\ shown \subseteq drawn
  /\ proven \subseteq shown
  /\ req \in [Workers -> Requests \cup {Idle}]
  /\ stale \in BOOLEAN

Init ==
  /\ row = NoMfa
  /\ drawn = {}
  /\ shown = {}
  /\ proven = {}
  /\ req = [w \in Workers |-> Idle]
  /\ stale = FALSE

-----------------------------------------------------------------------------
\* The request of worker w ends with a commit.
Ends(w) ==
  /\ req' = [req EXCEPT ![w] = Idle]
  /\ stale' = (stale \/ row # req[w].loaded)

\* mfa_setup, the account has a secret already: it is shown again.
SetupAgain ==
  /\ ~ row.mfa_enabled
  /\ row.totp_secret # Null
  /\ shown' = shown \cup {row.totp_secret}
  /\ UNCHANGED <<row, drawn, proven, req, stale>>

\* Fault: a new secret is drawn for an account that has its factor enabled.
BeginSetup_Enabled(w) ==
  /\ req[w] = Idle
  /\ \E s \in Secrets \ drawn :
       /\ drawn' = drawn \cup {s}
       /\ req' = [req EXCEPT ![w] = [phase |-> "setup", loaded |-> row, secret |-> s]]
  /\ UNCHANGED <<row, shown, proven, stale>>

\* mfa_setup, the account has none: a new one is drawn.
BeginSetup(w) ==
  /\ req[w] = Idle
  /\ ~ row.mfa_enabled
  /\ row.totp_secret = Null
  /\ \E s \in Secrets \ drawn :
       /\ drawn' = drawn \cup {s}
       /\ req' = [req EXCEPT ![w] = [phase |-> "setup", loaded |-> row, secret |-> s]]
  /\ UNCHANGED <<row, shown, proven, stale>>

\* The response reads the row again, which the commit has expired, and shows
\* what it finds, here in one step with the commit.
CommitSetup(w) ==
  /\ req[w].phase = "setup"
  /\ row' = [row EXCEPT !.totp_secret = req[w].secret]
  /\ shown' = shown \cup {req[w].secret}
  /\ Ends(w)
  /\ UNCHANGED <<drawn, proven>>

-----------------------------------------------------------------------------
\* mfa_confirm, after the code has been verified with the loaded secret, of
\* which the user can only know a code when it has been shown.
VerifyConfirm(w) ==
  /\ req[w] = Idle
  /\ ~ row.mfa_enabled
  /\ row.totp_secret \in shown
  /\ req' = [req EXCEPT ![w] = [phase |-> "confirm", loaded |-> row]]
  /\ UNCHANGED <<row, drawn, shown, proven, stale>>

CommitConfirm(w) ==
  LET r == req[w]
      new == [r.loaded EXCEPT !.mfa_enabled = TRUE]
  IN /\ r.phase = "confirm"
     /\ row' = Flush(row, new, Changed(r.loaded, new))
     /\ proven' = proven \cup {r.loaded.totp_secret}
     /\ Ends(w)
     /\ UNCHANGED <<drawn, shown>>

\* mfa_disable, after the code has been verified with the loaded secret.
VerifyDisable(w) ==
  /\ req[w] = Idle
  /\ row.mfa_enabled
  /\ row.totp_secret \in shown
  /\ req' = [req EXCEPT ![w] = [phase |-> "disable", loaded |-> row]]
  /\ UNCHANGED <<row, drawn, shown, proven, stale>>

CommitDisable(w) ==
  LET r == req[w]
  IN /\ r.phase = "disable"
     /\ row' = Flush(row, NoMfa, Changed(r.loaded, NoMfa))
     /\ Ends(w)
     /\ UNCHANGED <<drawn, shown, proven>>

-----------------------------------------------------------------------------
\* admin_reset_mfa
LoadForReset(w) ==
  /\ req[w] = Idle
  /\ req' = [req EXCEPT ![w] = [phase |-> "reset", loaded |-> row]]
  /\ UNCHANGED <<row, drawn, shown, proven, stale>>

CommitReset(w) ==
  LET r == req[w]
  IN /\ r.phase = "reset"
     /\ row' = Flush(row, NoMfa, Changed(r.loaded, NoMfa))
     /\ Ends(w)
     /\ UNCHANGED <<drawn, shown, proven>>

\* A refused commit or a killed process.
Abandon(w) ==
  /\ req[w] # Idle
  /\ req' = [req EXCEPT ![w] = Idle]
  /\ UNCHANGED <<row, drawn, shown, proven, stale>>

Next ==
  \/ SetupAgain
  \/ \E w \in Workers :
       \/ BeginSetup(w)
       \/ CommitSetup(w)
       \/ VerifyConfirm(w)
       \/ CommitConfirm(w)
       \/ VerifyDisable(w)
       \/ CommitDisable(w)
       \/ LoadForReset(w)
       \/ CommitReset(w)
       \/ Abandon(w)

Spec == Init /\ [][Next]_vars

-----------------------------------------------------------------------------
(***************************************************************************)
(* Properties                                                              *)
(***************************************************************************)

\* mfa_confirm verifies a code and then enables the factor: an account that asks
\* for a code has a secret to check it with, one that a confirmation has
\* verified.  Without one it could neither sign in nor disable, confirm or set
\* up the factor.  The exception is a request that wrote to a row which it had
\* loaded before another changed it.
EnabledSecretIsProven ==
  ~ stale /\ row.mfa_enabled => row.totp_secret \in proven
=============================================================================
