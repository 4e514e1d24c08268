---------------------------- MODULE SiteSettings ----------------------------
(***************************************************************************)
(* The one row of site_settings, and what the server takes from it for mail *)
(* and for sign-on.                                                        *)
(*                                                                         *)
(* The two groups of columns are saved by requests of their own, which load *)
(* the whole row, write the columns that differ, and keep the secret if the *)
(* form leaves it blank.  Secrets are stored encrypted under a key that is  *)
(* derived from CAAMS_SECRET_KEY.                                          *)
(***************************************************************************)
EXTENDS OrmRow, Naturals

CONSTANTS
  Groups,    \* "smtp" and "oidc"
  Workers,
  Targets,   \* host and sender, or issuer and client, with all but the secret
  Texts,     \* secrets as they are entered
  Env,       \* for each group the target and the secret of the environment
  MaxKey     \* bound: values that CAAMS_SECRET_KEY has over time

Blank == ""
Keep == "null"           \* the secret is absent from the payload
Garbled == "ciphertext"  \* what a ciphertext of another key is taken for

\* What the constants have to satisfy; "none" is the group that the seed saves.
SettingsAssumption ==
  /\ Blank \notin Targets \cup Texts /\ Keep \notin Texts
  /\ Groups # {} /\ "none" \notin Groups
  /\ MaxKey \in Nat

VARIABLES
  row,        \* site_settings
  key,        \* the value of CAAMS_SECRET_KEY
  req,
  saved,      \* history: for each group what the saves so far amount to
  overtaken   \* history: groups saved by one who had loaded an earlier state

vars == <<row, key, req, saved, overtaken>>

-----------------------------------------------------------------------------
NoRow == [absent |-> TRUE]
Columns == Groups \X {"target", "secret"}
NoSecret == [text |-> Blank, key |-> 0]
Fresh == [c \in Columns |-> IF c[2] = "target" THEN Blank ELSE NoSecret]

Idle == [phase |-> "idle"]

Init ==
  /\ row = NoRow
  /\ key = 1
  /\ req = [w \in Workers |-> Idle]
  /\ saved = [g \in Groups |-> [target |-> Blank, secret |-> NoSecret]]
  /\ overtaken = {}

\* encrypt_field; the empty secret is stored as it is.
Encrypted(text) == IF text = Blank THEN NoSecret ELSE [text |-> text, key |-> key]

\* decrypt_field: what cannot be decrypted is returned as it is.
Decrypted(secret) == IF secret.key \in {0, key} THEN secret.text ELSE Garbled

\* History: what a request asks for, after what was there.
AfterRequest(before, request) ==
  [target |-> request.target,
   secret |-> IF request.secret = Keep THEN before.secret ELSE Encrypted(request.secret)]

\* _get_smtp_settings and get_oidc_config.
InForce(g) ==
  IF row # NoRow /\ row[<<g, "target">>] # Blank
    THEN [target |-> row[<<g, "target">>], secret |-> Decrypted(row[<<g, "secret">>])]
    ELSE Env[g]

-----------------------------------------------------------------------------
\* What is assigned, to the row as it is or to one with defaults, which is
\* inserted first.
Assign(w, request, assigned) ==
  LET loaded == IF row = NoRow THEN Fresh ELSE row
      new == [c \in Columns |-> IF c \in DOMAIN assigned THEN assigned[c] ELSE loaded[c]]
  IN /\ req[w] = Idle
     /\ req' = [req EXCEPT ![w] =
          [phase |-> "assigned", request |-> request, inserts |-> row = NoRow,
           loaded |-> loaded, new |-> new, secrets |-> {c \in DOMAIN assigned : c[2] = "secret"}]]
     /\ UNCHANGED <<row, key, saved, overtaken>>

\* Fault: a blank secret is taken for an absent one.
KeepsSecret_Blank(secret) == secret \in {Keep, Blank}

KeepsSecret(secret) == secret = Keep

\* update_smtp_config and update_oidc_config.
LoadForSave(w, g, target, secret) ==
  Assign(w, [group |-> g, target |-> target, secret |-> secret],
         [c \in {<<g, "target">>} \cup (IF KeepsSecret(secret) THEN {} ELSE {<<g, "secret">>}) |->
            IF c[2] = "target" THEN target ELSE Encrypted(secret)])

\* clear_smtp_config and clear_oidc_config; without a row there is nothing to do.
LoadForClear(w, g) ==
  /\ row # NoRow
  /\ Assign(w, [group |-> g, target |-> Blank, secret |-> Blank],
            [c \in {<<g, "target">>, <<g, "secret">>} |-> Fresh[c]])

\* seed.py makes the row and changes nothing in one that is there.
LoadForSeed(w) == Assign(w, [group |-> "none"], <<>>)

\* The columns that differ; no ciphertext equals an earlier one.
Written(q) ==
  Changed(q.loaded, q.new) \cup {c \in q.secrets : q.new[c] # NoSecret}

\* A second insertion of the row is refused (Abandon).
Commit(w) ==
  LET q == req[w]
      g == q.request.group
      stored == IF q.inserts THEN Fresh ELSE row
  IN /\ q.phase = "assigned"
     /\ q.inserts => row = NoRow
     /\ row' = Flush(stored, q.new, Written(q))
     /\ saved' = IF g \in Groups THEN [saved EXCEPT ![g] = AfterRequest(@, q.request)] ELSE saved
     /\ overtaken' = IF \E c \in Columns : c[1] = g /\ stored[c] # q.loaded[c]
                       THEN overtaken \cup {g} ELSE overtaken
     /\ req' = [req EXCEPT ![w] = Idle]
     /\ UNCHANGED key

\* A killed process, a refused commit.
Abandon(w) ==
  /\ req[w] # Idle
  /\ req' = [req EXCEPT ![w] = Idle]
  /\ UNCHANGED <<row, key, saved, overtaken>>

\* The server is started again with another CAAMS_SECRET_KEY.
Restart ==
  /\ key < MaxKey
  /\ key' = key + 1
  /\ req' = [w \in Workers |-> Idle]
  /\ UNCHANGED <<row, saved, overtaken>>

Next ==
  \/ \E w \in Workers, g \in Groups :
       \/ \E target \in Targets, secret \in Texts \cup {Blank, Keep} :
            LoadForSave(w, g, target, secret)
       \/ LoadForClear(w, g)
  \/ \E w \in Workers : LoadForSeed(w) \/ Commit(w) \/ Abandon(w)
  \/ Restart

Spec == Init /\ [][Next]_vars

-----------------------------------------------------------------------------
(***************************************************************************)
(* Properties                                                              *)
(***************************************************************************)

\* "Pass client_secret=null to keep the existing saved secret, or an empty
\* string to clear it": mail and sign-on each run with what the saves of their
\* own group amount to, whatever the saves of the other do at the same time; a
\* group that has been saved by two at once is excepted, and a secret that was
\* stored under another key comes out as it is stored.
SettingsAreAsSaved ==
  \A g \in Groups \ overtaken :
    InForce(g) = IF saved[g].target = Blank THEN Env[g]
                 ELSE [saved[g] EXCEPT !.secret = Decrypted(@)]
=============================================================================
