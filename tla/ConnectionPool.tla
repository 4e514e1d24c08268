--------------------------- MODULE ConnectionPool ---------------------------
(***************************************************************************)
(* The event loop, the thread pool and the connection pool of one server   *)
(* process, and what a request needs of them, in this order:               *)
(*                                                                         *)
(*  - the loop resolves the dependencies: get_db opens a session, and      *)
(*    get_current_user, a coroutine without an await, checks a connection  *)
(*    out.  While the pool is empty that call blocks the whole loop;       *)
(*  - a handler declared with def runs in a thread, one declared with      *)
(*    async def runs on the loop;                                          *)
(*  - each db.commit() gives the connection back, and the next statement   *)
(*    checks one out again;                                                *)
(*  - the loop takes the result and closes the session, which gives the    *)
(*    connection back.                                                     *)
(*                                                                         *)
(* A blocked loop closes no session, so that requests that have finished   *)
(* keep their connections.  The pool's timeout ends the wait.              *)
(***************************************************************************)
EXTENDS Naturals, FiniteSets

CONSTANTS
  Requests,  \* requests in progress at a time
  PoolSize,  \* pool_size + max_overflow
  Threads,   \* capacity of the thread pool
  Nobody

PoolAssumption ==
  PoolSize \in Nat \ {0} /\ Threads \in Nat \ {0} /\ Nobody \notin Requests

VARIABLES
  phase,  \* where each request stands
  kind,   \* the sort of handler that it is for
  holds,  \* requests that have a connection checked out
  loop    \* the request whose checkout blocks the event loop, if any

vars == <<phase, kind, holds, loop>>

-----------------------------------------------------------------------------
\* Handlers that only read, handlers that commit, and the uploads and imports,
\* which commit on the event loop.
Kinds == {"read", "write", "async"}

Phases == {"idle", "opened", "authenticating", "queued", "handling", "running",
           "recommencing", "logging", "storing", "returned"}

TypeOK ==
  /\ phase \in [Requests -> Phases]
  /\ kind \in [Requests -> Kinds \cup {"none"}]
  /\ holds \subseteq Requests
  /\ Cardinality(holds) <= PoolSize
  /\ loop \in Requests \cup {Nobody}

Init ==
  /\ phase = [r \in Requests |-> "idle"]
  /\ kind = [r \in Requests |-> "none"]
  /\ holds = {}
  /\ loop = Nobody

-----------------------------------------------------------------------------
LoopIsFree == loop = Nobody

HasConnection == Cardinality(holds) < PoolSize

InThread == {r \in Requests : phase[r] \in {"running", "recommencing", "logging"}}

HasThread == Cardinality(InThread) < Threads

GoTo(r, p) == phase' = [phase EXCEPT ![r] = p]

\* What follows when get_current_user has its connection.
AfterAuthentication(r) == IF kind[r] = "async" THEN "handling" ELSE "queued"

-----------------------------------------------------------------------------
\* get_db is entered in a thread; it takes no connection yet.
Open(r, k) ==
  /\ phase[r] = "idle"
  /\ LoopIsFree
  /\ HasThread
  /\ GoTo(r, "opened")
  /\ kind' = [kind EXCEPT ![r] = k]
  /\ UNCHANGED <<holds, loop>>

\* The first statement of _resolve_user, on the event loop.  For an API token
\* a commit follows, which gives the connection back, and then again a first
\* statement: the same step from the same phase.
Authenticate(r) ==
  /\ phase[r] = "opened"
  /\ LoopIsFree
  /\ IF HasConnection
     THEN /\ GoTo(r, AfterAuthentication(r))
          /\ holds' = holds \cup {r}
          /\ UNCHANGED loop
     ELSE /\ GoTo(r, "authenticating")
          /\ loop' = r
          /\ UNCHANGED holds
  /\ UNCHANGED kind

\* A connection has come back while the loop was waiting for one.
GrantOnLoop(r) ==
  /\ loop = r
  /\ HasConnection
  /\ GoTo(r, IF phase[r] = "authenticating" THEN AfterAuthentication(r) ELSE "returned")
  /\ holds' = holds \cup {r}
  /\ loop' = Nobody
  /\ UNCHANGED kind

\* Fault: an expired checkout is tried again at once.
ExpireOnLoop_TriesAgain(r) ==
  /\ loop = r
  /\ ~ HasConnection
  /\ UNCHANGED vars

\* pool_timeout: the request ends with an error, and the loop goes on.
ExpireOnLoop(r) ==
  /\ loop = r
  /\ ~ HasConnection
  /\ GoTo(r, "returned")
  /\ loop' = Nobody
  /\ UNCHANGED <<kind, holds>>

-----------------------------------------------------------------------------
\* The endpoint is called in a thread, or refused by a dependency before that.
Start(r) ==
  /\ phase[r] = "queued"
  /\ LoopIsFree
  /\ HasThread
  /\ GoTo(r, "running")
  /\ UNCHANGED <<kind, holds, loop>>

\* db.commit() in a handler; db.refresh and log_event need a connection again.
Commit(r) ==
  /\ phase[r] = "running"
  /\ kind[r] = "write"
  /\ GoTo(r, "recommencing")
  /\ holds' = holds \ {r}
  /\ UNCHANGED <<kind, loop>>

GrantInThread(r) ==
  /\ phase[r] = "recommencing"
  /\ HasConnection
  /\ GoTo(r, "logging")
  /\ holds' = holds \cup {r}
  /\ UNCHANGED <<kind, loop>>

ExpireInThread(r) ==
  /\ phase[r] = "recommencing"
  /\ ~ HasConnection
  /\ GoTo(r, "returned")
  /\ UNCHANGED <<kind, holds, loop>>

\* The handler returns or raises.  The connection stays with the session.
Return(r) ==
  /\ phase[r] \in {"running", "logging"}
  /\ GoTo(r, "returned")
  /\ UNCHANGED <<kind, holds, loop>>

\* db.commit() of an async handler; its next statement is a checkout on the
\* event loop.
CommitOnLoop(r) ==
  /\ phase[r] = "handling"
  /\ LoopIsFree
  /\ GoTo(r, "storing")
  /\ holds' = holds \ {r}
  /\ loop' = r
  /\ UNCHANGED kind

\* An async handler that refuses the request.
RefuseOnLoop(r) ==
  /\ phase[r] = "handling"
  /\ LoopIsFree
  /\ GoTo(r, "returned")
  /\ UNCHANGED <<kind, holds, loop>>

-----------------------------------------------------------------------------
\* Fault: the session is closed only after a success.
Close_OnSuccess(r) ==
  /\ phase[r] = "returned"
  /\ LoopIsFree
  /\ GoTo(r, "idle")
  /\ \/ holds' = holds \ {r}
     \/ UNCHANGED holds
  /\ kind' = [kind EXCEPT ![r] = "none"]
  /\ UNCHANGED loop

\* get_db's finally: the loop has the session closed.
Close(r) ==
  /\ phase[r] = "returned"
  /\ LoopIsFree
  /\ GoTo(r, "idle")
  /\ holds' = holds \ {r}
  /\ kind' = [kind EXCEPT ![r] = "none"]
  /\ UNCHANGED loop

Next ==
  \E r \in Requests :
    \/ \E k \in Kinds : Open(r, k)
    \/ Authenticate(r)
    \/ GrantOnLoop(r)
    \/ ExpireOnLoop(r)
    \/ Start(r)
    \/ Commit(r)
    \/ GrantInThread(r)
    \/ ExpireInThread(r)
    \/ Return(r)
    \/ CommitOnLoop(r)
    \/ RefuseOnLoop(r)
    \/ Close(r)

(***************************************************************************)
(* The event loop takes its ready callbacks in order, and the limiter of   *)
(* the thread pool its waiters, so that neither passes a request by for    *)
(* ever: strong fairness.  A thread that runs goes on running, and a       *)
(* checkout ends with a connection or with the timeout: weak fairness.     *)
(* Nothing is assumed about the arrival of requests.                       *)
(***************************************************************************)
TakenInTurn(r) ==
  Authenticate(r) \/ Start(r) \/ CommitOnLoop(r) \/ RefuseOnLoop(r) \/ Close(r)

ByItself(r) ==
  \/ Return(r)
  \/ GrantOnLoop(r) \/ ExpireOnLoop(r)
  \/ GrantInThread(r) \/ ExpireInThread(r)

Fairness == \A r \in Requests : SF_vars(TakenInTurn(r)) /\ WF_vars(ByItself(r))

Spec == Init /\ [][Next]_vars /\ Fairness

-----------------------------------------------------------------------------
(***************************************************************************)
(* Properties                                                              *)
(***************************************************************************)

\* Every connection is on the way back: it belongs to a request that is being
\* served, and that is not waiting for another one; and there are never more
\* than the pool has.
ConnectionsComeBack ==
  /\ Cardinality(holds) <= PoolSize
  /\ \A r \in holds :
       /\ phase[r] \in {"queued", "handling", "running", "logging", "returned"}
       /\ loop # r

\* Every request is answered, with a result or an error, however many of them
\* wait for connections that finished requests still have.
EveryRequestIsAnswered == \A r \in Requests : phase[r] # "idle" ~> phase[r] = "idle"
=============================================================================
