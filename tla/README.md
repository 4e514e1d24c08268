# Verification of CAAMS Enterprise

TLA+ models, TLC runs and TLAPS proofs about the CAAMS Enterprise server: a
FastAPI application over one SQL database and one uploads directory, in which
several administrators, contributors and auditors work on compliance
assessments at the same time.

All paths below are relative to the repository (`src/app/...` is the server).

## 1. What runs, and what can go wrong

Every endpoint declared with `def` runs in the thread pool of one of two server
processes; the few `async def` functions (`_resolve_user`, `upload_evidence`,
`oidc_callback`, the imports) run on the event loop. Two scripts, `seed.py` and
`import_cis.py`, are processes of their own that work on the same database beside
the server. Each request has a database session of its
own (`database.py:31-36`). The database runs at READ COMMITTED, no endpoint
takes a row lock, and none states the value it expects to overwrite. A request
is therefore a sequence of separate steps:

1. `get_current_user` reads the user row;
2. the handler reads its rows and checks its guards;
3. `db.commit()` writes, for a row loaded earlier, exactly the columns whose
   value the handler changed against what it loaded (module `OrmRow`);
4. the commit expires everything loaded, so whatever is read next is read anew;
5. `log_event` commits the audit entry in a second transaction and swallows
   its errors.

Between any two steps other requests commit, and the process may be killed. The
repository's tests run one request at a time, so everything that depends on two
requests, or on one that stops half-way, is untested. That is what the models
are about. Foreign keys and unique constraints are the only thing the database
enforces, and they are part of the models.

## 2. Inventory

For each component: the state it keeps, its operations, whom it touches, what
is hard, and what makes it correct. Components without a module name are not
modelled (section 9).

| component (source) | state | operations | hard part | correct when | module |
|---|---|---|---|---|---|
| Assessment lifecycle (`routers/assessments.py:78-114, 272-423`) | `assessments.status`, `created_by_id`, `assessment_signoffs` | create, clone, delete, lifecycle | the status is checked on a load and written by a later commit; authority is read before it is used; the audit entry is a second transaction | status and trail agree; decisions follow submissions; signers had the authority; the log reports only what was committed | `SignoffTrail`, `AssessmentLifecycle` |
| Evidence files (`routers/evidence.py`) | `evidence_files`, the uploads directory | upload, decide, download, delete | two stores, no transaction over both; decisions race | rows have files and files rows, but for named exceptions; nothing removed comes back | `EvidenceStore` |
| RFI tracker (`routers/rfi.py`) | `rfis`, `rfi_responses` | create, update, respond | the first reply advances the status by way of `log_event`'s commit; edits race replies | replied RFIs are not open; an advance is explained; closed RFIs are dated | `RfiTracker` |
| Notes, overrides, reviews (`routers/assessments.py:287-333, 428-531`) | `control_notes` | upsert, review, copy by a clone | two transactions in one update, the first of which may be swallowed; a clone copies overrides and logs none | an override in force can be traced to an audit entry; an edit does not undo a review | `ControlNotes` |
| Findings (`routers/findings.py:49-155`) | `findings` | create, update, delete | the date depends on a status that is loaded earlier | a resolved finding is dated | `FindingTracker` |
| Coverage and recommendations (`engine/mapper.py`) | scope, catalogue, notes (read) | results, recommendations | many interacting cases per control | the score is the documented mean; adding tools does not hurt; recommendations are complete | `Coverage`, `CoverageReport` |
| Sessions (`app/auth.py`, `routers/auth.py`, `routers/mfa.py:135-156`, `routers/oidc.py:172-294`) | `users.token_version`, tokens held by clients | sign-in by password, by code, by identity provider; provisioning; refresh, update, delete, create | versions are incremented on a load; tokens name a user name; a sign-in commits in its middle | revoked sessions stay refused | `AccountSessions` |
| Second factor (`routers/mfa.py`) | `totp_secret`, `mfa_enabled` | setup, confirm, disable, reset | two columns, written separately by racing requests | an enabled factor has a secret that was confirmed | `MfaEnrollment` |
| OIDC discovery cache (`routers/oidc.py:45-117`, `routers/admin.py:207-276`) | three module variables per process, `site_settings` over the environment | look up, fill, save, clear, test, expire | coroutines and threads share them without a lock | a document of the right issuer; invalidation is complete | `DiscoveryCache` |
| Event loop, threads, connections (`database.py`, `auth.py:107`) | sessions, pool, thread limiter | open, check out, commit, close | the loop itself waits for connections that it alone gives back | no connection is lost; every request is answered | `ConnectionPool` |
| Auditor shares, API tokens, invitations (`routers/auditor_shares.py`, `routers/api_tokens.py`, `auth.py:107-142`, `routers/auth.py:158-277`) | `auditor_shares`, `auditor_comments`, `api_tokens`, `invite_tokens` | give, use, revoke, expire, delete with the owner | a use commits a note on the row in the middle of the request, while a revocation commits on the same row | what is shut serves only requests it had let in; what is revoked stays so; uses leave traces | `AccessGrants` |
| First-run setup (`routers/auth.py:36-60`) | `users` | count, create | check, then insert; no constraint says "first" | one first administrator; one remains | `UserDirectory` |
| User administration (`routers/auth.py:134-157, 280-333`) | `users` | create, update, delete | the requester's rights and the "not yourself" checks are read before the commit they protect | an administrator remains | `UserDirectory`, `AccountSessions` |
| OIDC sign-in (`routers/oidc.py:120-294`) | `users.oidc_sub`, `users.email` | authorize, callback | neither column is unique; provisioning races and is recovered from an `IntegrityError` | one account per subject; nobody is signed in as somebody else | `UserDirectory`, `AccountSessions`, `DiscoveryCache` |
| Scope and ownership (`routers/assessments.py:78-114, 214-228, 287-333, 534-558`) | `assessment_tool`, `control_ownership` | select tools, name owners, create, clone | a selection is a difference against what was loaded; a clone reads its source in parts | an assessment is what was last asked for | `AssessmentScope` |
| Risk acceptances (`routers/findings.py:160-202`) | `risk_acceptances` | insert, list | none | | |
| Tools catalogue (`routers/tools.py`) | `tools`, capabilities | create, delete, upload | deletion cascades into scopes | scopes stay within the catalogue | `CoverageReport` |
| Frameworks, importers, seed (`importers/*.py`, `seed.py`, `import_cis.py`) | `frameworks`, `controls`, `tools`, `framework_crosswalks` | import of two kinds of workbook, seed, re-seed after an upgrade | looked up by name and inserted, without a unique constraint; a parser that carries values from row to row | nothing twice, nothing half there; re-seeding is idle; rows are filed under the right control | `WorkbookParser`, `FrameworkCatalogue` |
| Crosswalk (`routers/crosswalk.py`, `seed.py:94-130`) | `framework_crosswalks` | seed, explicit mappings, coverage of other frameworks | pairs are stored in one direction; the crosswalk has a second copy of the engine's loop | each related pair is told once; the crosswalk predicts the report | `FrameworkCatalogue`, `CoverageReport` |
| Audit log (`routers/audit_log.py`) | `audit_log` | `log_event`, list, export | its commit carries or rolls back whatever the caller has pending | | part of the callers' modules |
| Administration (`routers/admin.py`, `app/email.py`, `app/crypto.py`) | `site_settings`, backup files | save and clear mail and OIDC settings, test, backups | two groups share one row; "blank" and "absent" secrets differ; the key may change; a cache of the other kind of thread is invalidated | each group is what its own saves amount to | `SiteSettings`, `DiscoveryCache` |
| Dashboard (`routers/dashboard.py`) | assessments (read) | which assessment of a framework is shown | a fold with two criteria | the best of the approved, else of all | `Dashboard` |
| Exports, mail, middleware, migrations, shell scripts, browser client | | read, format, send | | | |

Components interact through the database rows (every module), through
`log_event` (whose commit is a commit of the caller), through the cascades of
`delete_assessment` and `delete_tool`, through the `users` row that
`get_current_user` reads first, through the catalogue that the scripts fill and
the engine reads, through `bust_discovery_cache`, and through the connection pool
that all of them share.

## 3. Conventions of the modules

- **A request is a worker.** `req[w]` is `Idle` or a record whose `phase` names
  the point between two commits at which the handler stands, with what it has
  loaded. One action is the code from one commit (or external effect) to the
  next. With two or more workers every interleaving of commits is explored.
- **What a commit writes.** `OrmRow` has the two operators the racing modules
  share: `Changed(loaded, new)`, the columns whose value differs from the load,
  and `Flush(stored, new, columns)`, the stored row with just those replaced.
- **Stopping.** `Abandon` is a killed process, a lost connection or a refused
  commit: the request ends where it stands. Each component says in a comment
  what else can end there.
- **The database** is PostgreSQL as deployed: READ COMMITTED, foreign keys and
  unique constraints enforced, keys not given out twice. SQLite, the development
  default, does neither of the last two.
- **History variables** are marked `history:` and are read by properties only.
- **Definitions marked `Fault:`** are variants of the definition that follows
  them, as a plausible slip would leave it. No specification uses them. Each
  property of each passing run is violated when one of them takes the place of
  its original (`PROJECT.json`, `mutants`).
- **Several components in one run.** Where components have no step in common, an
  `MC` module instantiates them, and its variable `at`, fixed at the start, says
  which of them is at work. A behaviour of such a run is a behaviour of one of
  them; the others stay as they began. Nothing is claimed about their composition
  beyond that, and nothing is lost, since none reads what another writes. The
  proofs about such a module say so first (`TrackersAreIndependent`,
  `PartsAreIndependent`): its specification implies that of each part.
- **Assumptions on constants** are named. A module that others instantiate has
  them as a definition (`WorkbookAssumption`, `CoverageAssumption`,
  `SettingsAssumption`, `PoolAssumption`), and the `MC` module assumes it of its
  instance.

Source lines of each definition are in `PROJECT.json`, `map`.

## 4. Modules

**`SignoffTrail`** is the abstract promise: per assessment, a sequence of
sign-offs to which only actions are added that some earlier status of the
sequence allows (`Allowed`, from `VALID_TRANSITIONS`), or which is discarded as a
whole. **`AssessmentLifecycle`** is the code: `Authenticate` (`get_current_user`)
→ `Check` or `Reject` (guards of the four handlers) → `CommitLifecycle`,
`CommitNew` (create and clone), `CommitDelete` → `LogEvent`, with `Abandon`,
`UpdateRole` and `DeleteUser` at any point; these ask for somebody who is or has been
an administrator, since `update_user` and `delete_user` check it on an earlier
load (`UserDirectory` has their steps). `T == INSTANCE SignoffTrail` maps the
stored sign-offs to the trail. That the trail allows an action from *some
earlier* status, and not the newest, is the weakest promise the code keeps: two
requests may check against one status and both commit.

**`EvidenceStore`**: `BeginUpload` → `WriteFile` → `CommitUpload`;
`LoadForDecision` → `CommitDecision`; `LoadForDelete` → `Unlink` →
`CommitDelete`; `DeleteAssessment` cascades to rows, not to files; `DeleteUser` takes
the reference to an approver away and leaves the name. Four history sets name the
only ways in which file and row may part.

**`RfiTracker`**, **`ControlNotes`**, **`FindingTracker`**: the handlers of one
kind of row each as load and commit steps. `RfiTracker.CommitResponse` has the
two outcomes of `log_event`'s commit inside the handler; `ControlNotes` has the
update as two transactions (`LogOverride` or `RefuseOverride`, then
`CommitEdit` or `CommitJustification`), and `LoadSource` → `CopyNotes` → `CommitClone`,
which copies the rows of one assessment into another, overrides included, and writes
no audit entry of them. `origin` is the history that says which assessment a clone
was made of.

**`Coverage`** has the engine as operators on sets, without recursion: tags,
status per control, counts, score (in tenths of a percent, rounded half to even
as Python does), recommendations. **`CoverageReport`** lets scope, catalogue and
notes change under it (a note that is applicable or not, an override that is in
force, expired, or none); its `Init` ranges over *every* framework and
catalogue of the bounds. Tools are created, uploaded and deleted. The crosswalk's
own loop (`OtherFrameworkCounts`) is compared with the engine's.

**`AssessmentScope`**: what an assessment consists of. `LoadForSelection` →
`QueryTools` → `LoadScope` → `CommitSelection` writes the rows by which a selection
differs from the scope that was loaded; `LoadOwnership` → `CommitOwnership`;
`LoadForCreate`, or `LoadForClone` → `LoadScopeForClone` → `LoadOwnershipForClone`, →
`CommitNew`; `DeleteTool` and `DeleteAssessment` cascade.
`chosen` is what was last asked for, `mixed` the assessments that were changed by
one who had loaded an earlier state.

**`WorkbookParser`** reads a workbook one row per action, `parse_cis_xlsx` and
`parse_nist_csf_xlsx`, with what they carry from row to row; the properties say
what all the rows together should have yielded. **`FrameworkCatalogue`** is what the
database makes of the result: `FindFramework`, then one look-up per control
(`AddControl`, `RefreshControl`), then `CommitDocument`, for both importers, `seed.py`
(which goes on with `LookForTools` → `CommitTools` and `FindPairs` → `CommitPairs`) and
`import_cis.py --seed`; `InstallRelease` is an upgrade.

**`Dashboard`** is the fold that chooses the assessment of a framework, compared
with what it amounts to over all short histories (an assumption of `MCLifecycle`,
evaluated with `lifecycle`).

**`UserDirectory`**: the whole table of users. `CountUsers` → `CommitSetup`;
`Authenticate` → `CreateUser`, `LoadForUpdate` → `CommitUpdate`, `LoadForDelete` →
`CommitDelete`; and the callback of the identity provider, `LookUpSubject` →
`LookUpAddress` → `ChooseName` → `CommitProvision` or `CommitSignIn`, with
`RecoverFromConflict` when the derived name was taken meanwhile. Six history
variables name the races that the properties except.

**`AccountSessions`**: one user name, its successive accounts, the sessions
issued for it. Three ways in end in `IssueSession`, which stands behind the commit
of `log_event`: `VerifyPassword` (`login`), `GrantMfaToken` → `VerifyCode` (`login`
and `mfa_verify_login`), and `VerifySubject` or `BeginProvision` →
`CommitProvision` (`oidc_callback` of a known and of a new subject, with its
recovery when the name is taken meanwhile). `LoadForUpdate` → `CommitUpdate` is
`update_user`, with any part of its columns at once, and `admin_reset_mfa`; however
much they change, they add one to the version that was loaded.

**`AccessGrants`**: rows that are found by the hash of a secret. `Resolve` →
`CommitVisit` → `AddExternalComment`, `ViewAssessment` or `RunAsHolder` is a request
with a share or an API token; `Resolve` → `CommitAcceptance` accepts an
invitation. `RevokeShare`, `RevokeToken`, `SetActive`, `DeleteUser`,
`LoadForDelete` → `CommitDelete` (of the assessment) and `Tick` shut them.
`limit` is a history: the uses that a grant could still reach when it was shut.

**`MfaEnrollment`**: the four operations on one account. A code stands for the
secret it is computed from, and a user can only know codes of secrets shown to
him.

**`DiscoveryCache`**: coroutines (`Ask` → `LookUp` → `Respond` → `StoreDoc` →
`StoreIssuer` → `StoreTime` → `Return` → `Finish`) that hold the loop except while they
wait for the provider, against the three assignments of `bust_discovery_cache`,
which run in a thread and fall anywhere, or on the loop (`TestConfig`).

**`ConnectionPool`**: the resources a request needs, in the order in which it
needs them. `loop` is the request whose checkout blocks the event loop.

**`SiteSettings`**: the one row that mail and OIDC settings share. `Assign`
(`get_or_create` and the assignments of a save, a clear or `seed.py`) → `Commit`, which
writes the columns that differ; `Restart` changes the key that secrets are
encrypted under.

The modules do not share variables: each component keeps to its own rows, and
what others do to these rows (a user deleted, an assessment deleted, a crash) is
an action of the module. `MC*` modules name the instances; `*Proofs` modules
hold the theorems.

## 5. Runs

| run | bounds | shows |
|---|---|---|
| `lifecycle` | 2 users, 2 workers, 2 assessments, 2 sign-offs, all four operations | status and trail agree, decisions follow submissions, signers had authority, the log reports what was committed, with role changes, deletions and crashes at every point; the code implements `SignoffTrail`; the choice of the dashboard, for all histories of up to four assessments |
| `evidence_stores` | 2 files, 2 workers, 1 user; 2 assessments, 2 tools, 1 person, 2 workers | every mismatch of row and file is one of five named cases; the approval columns describe one decision; removal is final; an assessment is what was last asked for |
| `trackers` | 1 RFI, 3 workers, 3 replies; 1 finding, 2 workers; 2 assessments, 1 control, 2 workers, 1 override and 1 review value | the advance of an RFI, its explanation and its closing date under three-way races; a resolved finding without a date has been reopened; an override in force has its audit entry, or is a copy of one that had; only reviews change reviews |
| `notes_half_stored` | 1 control, 1 worker | **violated**: an update answered as done whose override was rolled back (section 8) |
| `catalogue` | 2 workers, 4 requests or scripts, 2 releases, 3 workbooks; workbooks of up to 3 rows over 2 groups and 2 texts; reports on 2 controls, 2 tools, 2 tags | what is twice in the catalogue comes of a race or of a workbook that repeats itself; frameworks are whole; the crosswalk tells each pair once; re-seeding is idle; every row is filed; score, monotonicity, completeness of recommendations and agreement of the crosswalk with the report, for all frameworks and catalogues of that size |
| `decisions_mixed` | 1 file, 2 workers | **violated**: a rejected file shows no approval (section 8) |
| `cis_levels` | workbooks of up to 3 rows, ticked in all three columns or in none | **violated**: the least implementation group keeps every safeguard (section 8) |
| `directory` | 2 workers, 2 accounts, 2 subjects (one with an address), 2 user names, 1 address; 3 workers and 3 secrets of a second factor | an administrator remains, setup stays closed, one account per subject, nobody signed in as somebody else, but for the races that the properties name; an enabled factor is proven |
| `sessions` | 2 administrators, 1 client, 2 sessions, version ≤ 2, 2 accounts, 1 password | revoked sessions stay refused, with two exceptions that the property names, whichever way they were obtained |
| `grants` | 3 workers, one of a share, a token, an invitation; clock 0..2, 3 uses | what is shut falls silent, revocation is final, no use without a trace |
| `discovery` | 1 process, 2 coroutines, 2 issuers, 2 versions; 2 workers, 1 target, 1 secret, 2 keys; 4 requests, 2 connections, 3 threads | right issuer, a document unless an invalidation fell into the call, complete invalidation; mail and sign-on run with what the saves of their own group amount to; no connection is lost, the size of the pool is kept |
| `pool` | 4 requests, 2 connections, 3 threads | every request is answered |

**Why the bounds are enough to be interesting.** A lost update needs two
requests that load the same row; three are allowed where a third has a role of
its own (two replies and an edit; two setups of a factor and a confirmation; two visits
and a deletion). Two accounts are enough for two administrators who remove each
other, for two setups, and for a subject that gets a second row; the one subject
without an address is the case in which the look-up by address has nothing to go
by. Four requests let two seedings follow two that race. Three rows of a workbook
hold a label, a row that inherits it and one that comes back to it. Two sign-offs hold a submission and a decision, and two of either that
raced. A session needs nothing of the password but that it was right, so that one
password is enough. One override and one review value suffice beside
"none": what races is which columns are written, not with which value. The three kinds of grants touch different rows and owners,
so that one at a time is enough. Two
requests more than connections let the loop wait while others hold all of them
and yet others queue. Two tags are enough for a control to be covered, partly
covered and not covered. Constants that bound the models only: `MaxSignoffs`,
`MaxResponses`, `MaxVersion` (of tokens, of documents), `MaxAccounts`,
`MaxGrants`, `MaxUses`, `MaxNow`, `Horizon`, `MaxRequests`, `MaxRows`, `MaxKey`, and
the sets of files, findings and secrets, which are drawn once. In `directory`
administrators know one address and clear none, which keeps the instance small;
the theorems of section 6 cover any addresses, and their clearing.

**Type invariants** are not among the runs' properties: all of them are theorems
or conjuncts of the inductive invariants of section 6.

**Deadlock** is checked where a system that runs for ever is modelled
(`discovery`, `pool`). In the others names or keys are drawn once,
requests are counted, a workbook ends, or assessments and accounts are gone at the
end (in `lifecycle`, two administrators may have deleted each other), and the model
really stops: these say `CHECK_DEADLOCK FALSE`.

**Symmetry** is declared over sets whose members no definition singles out. In
`MCCatalogue` one swap acts on sets of several parts at once: while one part is at
work the others hold values that the swap maps to ones just as good. The only
liveness property is checked without symmetry.

**Fairness** is assumed by `ConnectionPool` alone. A step that the event loop or
the thread limiter has queued is strongly fair: both serve first come, first
served, so neither passes a request by for ever, though the loop may be blocked
again and again in between. A running thread and a checkout, which ends with a
connection or with the pool's timeout, are weakly fair. Arrivals are not fair,
and crashes are left out there, since a process that dies takes its pool with
it. Everything else the project states is safety.

## 6. Proofs

TLAPS proves the theorems below for every value of the constants that satisfies
the named assumptions.

| module | theorems | inductive invariant, and why it is needed |
|---|---|---|
| `AssessmentLifecycleProofs` | `TypeCorrect`, `LifecycleInvariant`, `StatusMatchesTrail`, `DecisionsOrdered`, `SignaturesAuthorised`, `LogIsHonest`, `ImplementsSignoffTrail` | `LifecycleInv`: nothing is known about the newest status when a request commits, so it is carried that the action in flight was allowed at *some* point of the trail (`PendingGrounded`), and where the authority of its signer comes from (`AuthorityGrounded`); unused identifiers have no trail (`FreshIsBlank`). `LogIsHonest` counts, in `ReportsArePaidFor`, the reports that are still to come with those that are written |
| `EvidenceStoreProofs` | `TypeCorrect`, `StoresInvariant`, `ListedEvidenceIsThere`, `LeaksAreAccountedFor`, `DecisionsStandAlone`, `RemovalIsFinal`; of `AssessmentScope`: `ScopeCorrect`, `ChoicesStand` | `StoresInv`: names are drawn once (`DrawnFirst`), so that an upload shares its name with nobody (`UploadsAreAlone`) and nothing puts an unlinked file back (`UnlinkedIsGone`). `ScopeInv`: the foreign keys (`ScopeReferences`) make the rows by which a selection differs from what it loaded add up to what was asked for, less the tools that were deleted meanwhile |
| `TrackerProofs` | `TrackersAreIndependent`; of `RfiTracker`: `RfisTypeCorrect`, `RfiInvariant`, `FirstReplyAdvances`, `AdvanceIsAtomic`, `ClosingIsDated`; of `FindingTracker`: `FindingsTypeCorrect`, `DatesInvariant`, `ResolvingIsDated`; of `ControlNotes`: `NotesTypeCorrect`, `OverridesTraceable`, `EditsKeepReviews` | `RfiInv`: what a request has loaded still counts when it commits (`LoadedStillCounts`). `DatesInv`: a date missing from what was loaded is accounted for (`LoadedDates`). `NotesInv`: besides the property, that the source of a clone is an assessment that was there (`SourcesAreDrawn`) and that what a clone has read and not yet stored is as traceable as what is stored (`CopiesAreTraceable`); `EditsKeepReviews` is a property of steps, from what a commit of an edit can write |
| `AccessGrantsProofs` | `TypeCorrect`, `RevokedGrantsFallSilent`, `RevocationLasts`, `EveryUseIsTraced` | `ShutIsBounded`: the uses a grant has had and the requests that are still being served with it are together within the limit that was noted when it was shut, which is about a number of requests and so needs that they are finitely many (`ServingIsFinite`). `TracesAreKept`: a request that has committed its visit has left a trace in the row, and what it loaded was not ahead of the visits |
| `AccountSessionsProofs` | `SessionsInvariant`, `TypeCorrect`, `RevocationHolds` | `SessionsInv`: no session is ahead of its account's version and every dead one is behind it; type correctness needs it, since a version stays within its bound only because pending increments fit (`PendingBumpsFit`) |
| `UserDirectoryProofs` | `TypeCorrect`, `DirectoryInvariant`, `AnAdministratorRemains`, `SetupIsOnce`, `SubjectInvariant`, `SubjectsHaveOneAccount`, `SubjectsEnterTheirOwn`; of `MfaEnrollment`: `FactorCorrect`, `EnabledIsConfirmed` | `AdminInv`: no request that has passed its check is about to remove its own requester (`NoSelfRemoval`), so that without a race the table never becomes empty again (`NeverEmptied`), which is what a setup under way relies upon (`SetupOnEmpty`). `SubjectInv`: two callbacks of one subject are a race (`CallbacksAlone`), and so one that is going to link or insert a row still finds none (`Waiting`); a row that was found is the subject's, will be, or was given away (`Linked`, `Entered`). `FactorInv`: a secret that is stored, loaded or confirmed has been drawn and shown |
| `DiscoveryCacheProofs` | `DiscoveryCorrect`, `DocumentsAreOfIssuers`, `InvalidationIsComplete`, `DocumentsAreReturned`; of `SiteSettings`: `SettingsAreKept`; of `ConnectionPool`: `ConnectionsReturn` | `DiscoveryInv`: one coroutine of a process is between its assignments (`LoopIsShared`), the cache is its own work until it returns, unless a thread has cleared it and so met it (`SignInHolds`), and document and issuer differ at most between two of its assignments (`CacheHolds`). `SettingsInv`: what a request of one group has loaded of the columns of its own group is what is stored, unless it was overtaken (`RequestHolds`). `PoolInv`: a checkout that blocks the loop is of a request that has no connection (`LoopWaits`) |
| `CatalogueProofs` | `PartsAreIndependent`; of `FrameworkCatalogue`: `TypeCorrect`, `CatalogueInvariant`, `RowsAreUnique`, `NothingIsHalfImported`, `CrosswalkIsWhole`, `ReseedingChangesNothing`; of `CoverageReport`: `ReportTypeCorrect`, `MoreToolsHelp`, `RecommendationsAreComplete`, `CrosswalkIsFaithful`, `ScoreIsTheMean`; of `WorkbookParser`: `EveryRowIsFiled` | `CatalogueInv`: two requests at work on one key are a race (`RacesAreSeen`); what a request did not find is still not there unless there was one (`FoundStands`), and what it has to add and still to look up are the controls of its document, each once (`AddsEach`). `LinksInv`: the pairs that are to be stored and those that are there cover what had been read. `SettledInv` and `SeedingInv`: an undisturbed seeding leaves every file in place (`InPlace`) behind it, step by step, and any later one finds nothing to do (`FindsNothing`). `WorkbookInv`: besides the property, that the labels carried over are those of the last row that has one (`CurrentHolds`) |

`ScoreIsTheMean` and `ConnectionsReturn` count finite sets. `EveryRowIsFiled` is the
statement a proof by induction over the rows of a workbook would give: since the
parser reads a row per step, it is an invariant of steps, and holds for workbooks of
every length. Its lemmas add one row to a set of rows (`OneMore`: the last of them,
and the first only of its own), to a list of cells (`ListGrows`), to the order of
the controls (`OrderKept`), to one control (`CisGains`, `NistGains`), and to what is
known of the labels above it (`LabelsStay`).

The assumptions are those the modules name, and no more than the code provides.
`CatalogueAssumption` says of the documents what the repository's seed files and the
parsers satisfy: the files of a release have different keys and repeat no control
(`src/app/data/*.json`); workbooks may repeat what they like. `CoverageAssumption`
says that there are finitely many controls, which the score counts, and which statuses an override can have. `WorkbookAssumption` keeps the
values for "nothing recognised" and for a title that only safeguards announce apart
from codes and titles. `PoolAssumption` and `BoundsAssumption` say that sizes and bounds
are numbers.

Each proof takes the actions one by one and, below, the conjuncts that the
action can disturb; columns written by a racing commit are handled once, in
lemmas about `Changed` and `Flush`. `ImplementsSignoffTrail` maps initial states
to initial states and every step to a step of the trail or to a stutter.

The inductive invariants were checked by TLC on the instances of section 5 before
they were proved; the runs check what they are for.

Every invariant and every property of steps that a passing run checks is a theorem.
What stays with TLC:

- `EveryRequestIsAnswered`, the one liveness property: reasoning under fairness, and
  `ENABLED`, are out of this prover's reach.
- The choice of `Dashboard`, a fold over a history, for all histories of up to four
  assessments: it would need induction over data, which takes an operator as its
  parameter.
- The three runs that expect a violation.

No module declares a recursive operator.

## 7. Hazards

`PROJECT.json`, `hazards` lists what can go wrong here and a test would hardly
reach, with the properties that cover it, or the reason why none does. Where the
code does lose a race, a history variable excepts exactly this race from the
property, which then says that there is no other way; the hazard has a note that
says so, and section 8 what happens in the race.

## 8. Where the code and its texts part

Three of these are kept as counterexamples of a run:

- *An update that is answered as done has not stored its override*
  (`notes_half_stored`). `upsert_control_notes` calls `log_event` after it has
  assigned `override_status`. If that commit is refused, `log_event` rolls back,
  the override with it, swallows the error, and the handler commits the rest and
  answers 200 (`assessments.py:484`, `audit_log.py:43-47`).
- *A rejected file shows an approver* (`decisions_mixed`). A rejection that loaded a
  pending row leaves the approval columns out of its update, since they were empty
  already, and so does not clear what an approval has committed in between
  (`evidence.py:231-233`). `evidence.py:230` says "Clear any previous approval metadata
  so rejected files don't show stale data". Hence `mixed` in `ApprovalColumnsAgree`.
- *The least implementation group is not "all"* (`cis_levels`). The documentation of
  `min_ig` says "1=all, 2=IG1+2" (`cis_xlsx.py:29`, `import_cis.py:47`); the code skips
  a row whose highest ticked column exceeds `min_ig` (`cis_xlsx.py:84-89, 106`), so
  that 1 drops a safeguard that is ticked in all three columns, which are cumulative,
  and 3 keeps all.

The following came up with variants of the runs, or are the reason for a
premise or an exception in a property. They are behaviour to know of when
reading the properties:

- Two lifecycle requests that check the same status both commit; the trail can
  then have a transition that the table of `README.md:313-322` lacks. Hence
  `SignoffTrail` speaks of *some earlier* status.
- `README.md:320` reserves archiving to administrators; `assessments.py:371`
  reserves only approval.
- A transition is committed before its audit entry, whose errors are swallowed:
  it may have none (`README.md:59, 322`). Hence `LogReportsCommitted` is an
  inequality.
- The evidence package takes rejected rows too (`pdf_export.py:197, 204`).
- A reply that was loaded before an RFI was closed is stored after it, and sets
  the status back (`rfi.py:165-166`).
- An override can stand without the justification it was sent with, if the
  second transaction does not come about (`README.md:44`).
- A finding that is moved between two resolved statuses while another request
  reopens it is resolved without a date (`README.md:339`). Hence `cleared` in
  `DatedUnlessReopened`.
- An override `not_applicable` counts as not covered in the score, inside the
  total (`mapper.py:83`; `README.md:329` excludes it). Hence the premise of
  `ScoreIsMean`.
- The ranking of recommendations counts a control as helped whose status stays
  partial (`mapper.py:192-194`).
- Two administrators who load one version bump it once, and a session issued
  between their commits survives the second; an account of the same name starts
  at version 0 again (`auth.py:160`). These are the exceptions of
  `BumpedSessionsRefused`.
- A login that verified the old password carries the new version, if the
  password was replaced before `log_event`'s commit (`routers/auth.py:84`).
- Two acceptances of one invitation both succeed when both have loaded it unused
  (`models.py:99` says single-use): the second one's password stands. Hence
  `ShutGrantsFallSilent` bounds the uses by the requests that had been let in.
- Two visits to a share may count as one (`auditor_shares.py:39`). Hence
  `UsesLeaveTraces` asks for at least one.
- An assessment whose share is commented on between the load and the commit of
  its deletion is not deleted: the foreign key of the comment has no cascade
  (`models.py:356`).
- An `mfa_pending` token carries no version: a code completes a login whose
  password has been replaced meanwhile (`auth.py:60`). The session it gets has the
  new version.
- A subject without account whose derived name was taken between the look-up and
  the commit is signed in to the account of its address without the check of
  `is_active` (`oidc.py:266-276`); the session is refused while the account is
  disabled.
- The dashboard's description says "latest approved assessment"
  (`dashboard.py:24`) where the code takes the one with the best score.
- Two setups that both count no users both make an administrator
  (`routers/auth.py:45-56`); so does an account that anybody else creates in
  between. Hence `rushed` in `SetupIsForTheFirst`.
- "You cannot deactivate yourself" does not cover the role: an administrator may
  take it away from himself, and two may remove each other, since each check is
  about the requester alone (`routers/auth.py:281-327`). Hence `abdicated` and `overtaken`
  in `AdministratorRemains`.
- Two callbacks of one new subject leave two rows of it, if one looks for the
  subject before, and for a free name after, the other has committed: `oidc_sub` is
  not unique (`oidc.py:232-255`). Hence `raced` in
  `OneAccountPerSubject`.
- A subject of which the provider tells no address and that loses the race for its
  derived name is signed in to any account without address: the recovery looks for
  the empty address, which the first look-up takes care not to do
  (`oidc.py:233, 272`). And a row that is found by its address is given to the new
  subject, whoever had it (`oidc.py:236`). These are the exceptions of
  `SignedInAsOneself`.
- Two importers of one key leave two frameworks, or a control twice; a CIS workbook
  that repeats a row leaves it twice, since the importer does not see what it has
  added itself (`cis_xlsx.py:178-187`). Hence `crowded` and `repeated` in
  `RowsAreUniqueUnlessRaced`.
- The seeded NIST framework has the version "v2.0" (`data/nist_csf_v2.json:3`), the
  importer's is "2.0" (`nist_csf_xlsx.py:261`): an import adds a second framework
  beside the seeded one. `MCCatalogue` gives both one key, as a seed file that is
  spelled like the importer would, to have them meet. Likewise the seeded CIS
  controls are named "CIS-1" (`data/cis_v8.json:6`) where both CIS importers take the
  cell as it stands (`cis_xlsx.py:114, 173`).
- The explicit mappings of the crosswalk are those stored in the direction that was
  asked for (`crosswalk.py:31-37`): which direction has a pair depends on the order in which the
  frameworks were created. Hence `CrosswalkIsComplete` takes the two directions
  together.
- A re-seed replaces sub-controls that `import_cis.py --seed` has stored
  (`seed.py:37`), where `README.md:210` says that existing data is never overwritten.
- The first row of a workbook is taken for its header even if it is none: without
  one, its data are dropped. Hence `DataRows` in the properties of `WorkbookParser`.
- Two selections of tools that race leave a mixture of both; a clone of an assessment
  that is changed or deleted while it is read is a mixture or a part
  (`assessments.py:214-228, 287-333`). Hence `mixed` in `AssessmentsAreAsChosen`.
  A clone also copies overrides without audit entries of their own.
- A clear of the settings that races a save can leave a secret in the row that the
  next save with an absent secret uses again (`admin.py:107-127`). Hence `overtaken`
  in `SettingsAreAsSaved`. Under another `CAAMS_SECRET_KEY` the ciphertext itself is
  taken for the secret (`crypto.py:33-45`).
- A comment calls `smtp_password` plaintext (`models.py:421`); it is encrypted, as the
  secret of OIDC is (`admin.py:107-108`).
- A confirmation that races a reset, or a second setup, leaves the factor
  enabled without a secret or with one that nobody has confirmed. Hence `stale`
  in the properties of `MfaEnrollment`.
- An invalidation that falls into a call makes `_discovery` return `None`; an
  answer in flight is stored after it; and the other process keeps its cache
  (`admin.py:215`). Hence `met`, and `floor` per process, in `DiscoveryCache`.

## 9. Not modelled, and the plan

Not modelled because nothing can go wrong that a model would show: reading,
formatting (XLSX, SoA, PDF, the evidence package), sending of mail, signing and
hashing, shell scripts, migrations, the browser client; risk acceptances and the
comments of users, which are inserted once and listed; the listing and download of
backups, which an external script writes. Left out of the modelled components:
fields that no guard reads; validation that refuses a request before its first
write; rate and size limits; the time of evidence and of sessions; the recognition of
headers and cells of a workbook by their text; the exchange of the code and the
signed state of a sign-in.

Order of the work: the lifecycle first, since everything hangs on an
assessment; then the stores that other requests race about (evidence, RFIs,
notes, findings); the engine; accounts; what all requests share (the cache
and the pool); then the whole table of users with setup and sign-in, the
catalogue with its importers and scripts, scopes and clones, and the settings. This
much is done. What would come next:

1. An abstract specification of a revocable grant, which shares, tokens and
   invitations of `AccessGrants` refine; sessions and second factor composed.
2. Proofs that relate parts which now stand side by side: what the parsers file is
   what the importers are given, and the sessions of an account whose factor is reset.
3. The test mail beside the test of the sign-on.
