--------------------------- MODULE RequestServing ---------------------------
(***************************************************************************)
(* How the API process serves requests: the threads that run handlers and  *)
(* dependencies (FastAPI runs every plain def in anyio's thread pool) and  *)
(* the connections of the SQLAlchemy engine.                               *)
(*                                                                         *)
(* get_current_user, the role check, the handler and the validation of its *)
(* response are four calls, each with a thread of its own, over one        *)
(* session: the session keeps its connection from the lookup of the user   *)
(* on, while it waits for a thread; and a thread is kept while its session *)
(* waits for a connection.                                                 *)
(***************************************************************************)
EXTENDS Naturals, FiniteSets

CONSTANTS
  Requests,   \* requests the process may have at a time
  Threads,    \* 40, anyio's default
  PoolSize,   \* 15: pool_size + max_overflow, the engine's defaults
  MaxCommits  \* bound: commits of a handler after which it uses its session again

ASSUME ServingAssumption ==
  /\ IsFiniteSet(Requests)
  /\ Threads \in Nat /\ PoolSize \in Nat /\ MaxCommits \in Nat

VARIABLES
  kind,     \* request -> "api" (authenticated), "login", "health", or "none"
  pc,       \* request -> where it is, or "idle"
  holders,  \* requests whose session has a connection of the pool
  commits,  \* request -> such commits of its handler so far
  answer    \* request -> what it is answered, once it is

vars == <<kind, pc, holders, commits, answer>>

\* Where a request holds a thread, and where that thread waits for a connection.
Connecting == {"authConnecting", "handlerConnecting"}
OnThread == Connecting \cup {"auth", "handler"}

\* Where it waits for a thread.
Queued == {"authQueued", "roleQueued", "handlerQueued", "responseQueued"}

\* Where it relies on its session's connection.
Relying == {"auth", "roleQueued", "handler", "responseQueued"}

ThreadFree == Cardinality({r \in Requests : pc[r] \in OnThread}) < Threads
PoolExhausted == Cardinality(holders) >= PoolSize

Goto(r, place) == pc' = [pc EXCEPT ![r] = place]

\* The answer is settled, and the session still to close.
Finish(r, result) ==
  /\ Goto(r, "closing")
  /\ answer' = [answer EXCEPT ![r] = result]

Forget(r) ==
  /\ Goto(r, "idle")
  /\ kind' = [kind EXCEPT ![r] = "none"]
  /\ commits' = [commits EXCEPT ![r] = 0]
  /\ answer' = [answer EXCEPT ![r] = "none"]

Init ==
  /\ kind = [r \in Requests |-> "none"]
  /\ pc = [r \in Requests |-> "idle"]
  /\ holders = {}
  /\ commits = [r \in Requests |-> 0]
  /\ answer = [r \in Requests |-> "none"]

-----------------------------------------------------------------------------
(* Slips the properties must catch. They are no part of the specification. *)

\* get_db without "finally": an error leaves the session open.
CloseUnlessFailed(r) ==
  /\ pc[r] = "closing"
  /\ Forget(r)
  /\ holders' = IF answer[r] = "error" THEN holders ELSE holders \ {r}

\* The session closes, and its request goes on using it.
CloseBeforeRole(r) ==
  /\ pc[r] = "auth"
  /\ \/ Finish(r, "refused") /\ UNCHANGED holders
     \/ Goto(r, "roleQueued") /\ holders' = holders \ {r} /\ UNCHANGED answer
  /\ UNCHANGED <<kind, commits>>

\* An engine with pool_timeout=None.
WaitForever(r) ==
  /\ pc[r] \in Connecting
  /\ PoolExhausted
  /\ UNCHANGED vars

-----------------------------------------------------------------------------

\* A request comes in. Only the authenticated ones have dependencies that wait:
\* get_db opens the session without a connection, and the token is decoded first.
Arrive(r, k) ==
  /\ pc[r] = "idle"
  /\ kind' = [kind EXCEPT ![r] = k]
  /\ Goto(r, IF k = "api" THEN "authQueued" ELSE "handlerQueued")
  /\ UNCHANGED <<holders, commits, answer>>

\* get_current_user gets a thread: no token, or a bad one, is a 401.
Authenticate(r) ==
  /\ pc[r] = "authQueued"
  /\ ThreadFree
  /\ \/ Finish(r, "refused")
     \/ Goto(r, "authConnecting") /\ UNCHANGED answer
  /\ UNCHANGED <<kind, holders, commits>>

\* The session's first statement, or its first after a commit, has a connection.
Connect(r) ==
  /\ pc[r] \in Connecting
  /\ ~PoolExhausted
  /\ holders' = holders \cup {r}
  /\ Goto(r, IF pc[r] = "authConnecting" THEN "auth" ELSE "handler")
  /\ UNCHANGED <<kind, commits, answer>>

\* QueuePool gives up after pool_timeout (30 s): an unhandled TimeoutError (500),
\* or the health check's 503.
PoolTimeout(r) ==
  /\ pc[r] \in Connecting
  /\ PoolExhausted
  /\ Finish(r, "overloaded")
  /\ UNCHANGED <<kind, holders, commits>>

\* get_user_by_id: 401 when there is no such user.
LoadUser(r) ==
  /\ pc[r] = "auth"
  /\ \/ Finish(r, "refused")
     \/ Goto(r, "roleQueued") /\ UNCHANGED answer
  /\ UNCHANGED <<kind, holders, commits>>

\* require_roles needs a thread for a moment: 403 for the wrong role.
CheckRole(r) ==
  /\ pc[r] = "roleQueued"
  /\ ThreadFree
  /\ \/ Finish(r, "refused")
     \/ Goto(r, "handlerQueued") /\ UNCHANGED answer
  /\ UNCHANGED <<kind, holders, commits>>

\* The handler gets a thread. A login may be refused at once (429); a session
\* without a connection asks for one with its first statement.
StartHandler(r) ==
  /\ pc[r] = "handlerQueued"
  /\ ThreadFree
  /\ \/ kind[r] = "login" /\ Finish(r, "refused")
     \/ /\ Goto(r, IF r \in holders THEN "handler" ELSE "handlerConnecting")
        /\ UNCHANGED answer
  /\ UNCHANGED <<kind, holders, commits>>

\* A commit or rollback gives the connection back; what the handler does next with
\* its session (db.refresh, the next statement) asks for one again.
CommitAndGoOn(r) ==
  /\ pc[r] = "handler"
  /\ kind[r] = "api"
  /\ commits[r] < MaxCommits
  /\ commits' = [commits EXCEPT ![r] = @ + 1]
  /\ holders' = holders \ {r}
  /\ Goto(r, "handlerConnecting")
  /\ UNCHANGED <<kind, answer>>

\* The handler raises an HTTPException, returns nothing (204), or returns what has
\* a response model. The health check has closed its session when its response is
\* validated: that wait holds nothing up and is left out.
EndHandler(r) ==
  /\ pc[r] = "handler"
  /\ \/ Finish(r, "ok")
     \/ kind[r] # "health" /\ Goto(r, "responseQueued") /\ UNCHANGED answer
  /\ UNCHANGED <<kind, holders, commits>>

\* The response is validated on a thread, before the session closes.
ValidateResponse(r) ==
  /\ pc[r] = "responseQueued"
  /\ ThreadFree
  /\ Finish(r, "ok")
  /\ UNCHANGED <<kind, holders, commits>>

\* PostgreSQL cannot be reached, or drops the connection (500, or 503).
DbError(r) ==
  /\ pc[r] \in OnThread
  /\ Finish(r, "error")
  /\ UNCHANGED <<kind, holders, commits>>

\* db.close() in the finally of get_db, or of health_check. FastAPI runs it
\* outside the limit of its thread pool.
CloseSession(r) ==
  /\ pc[r] = "closing"
  /\ Forget(r)
  /\ holders' = holders \ {r}

\* What a request needs a thread for.
UseThread(r) == Authenticate(r) \/ CheckRole(r) \/ StartHandler(r) \/ ValidateResponse(r)

\* What becomes of a wait for a connection.
EndWait(r) == Connect(r) \/ PoolTimeout(r)

Next ==
  \E r \in Requests :
    \/ \E k \in {"api", "login", "health"} : Arrive(r, k)
    \/ UseThread(r) \/ EndWait(r)
    \/ LoadUser(r) \/ CommitAndGoOn(r) \/ EndHandler(r) \/ DbError(r) \/ CloseSession(r)

\* Waiters for a thread are served in the order in which they came (strong
\* fairness); a wait for a connection ends one way or the other; a thread that
\* runs goes on. Nothing says that requests come in, or that anything fails.
Fairness ==
  \A r \in Requests :
    /\ SF_vars(UseThread(r))
    /\ WF_vars(EndWait(r))
    /\ WF_vars(LoadUser(r) \/ EndHandler(r) \/ CloseSession(r))

Spec == Init /\ [][Next]_vars

FairSpec == Spec /\ Fairness

-----------------------------------------------------------------------------

\* Every variable stays in its range; the limits of the two pools hold; a session
\* has a connection wherever its request relies on it, and none once it is over.
TypeOK ==
  /\ kind \in [Requests -> {"none", "api", "login", "health"}]
  /\ pc \in [Requests -> Queued \cup OnThread \cup {"idle", "closing"}]
  /\ commits \in [Requests -> 0..MaxCommits]
  /\ answer \in [Requests -> {"none", "ok", "refused", "overloaded", "error"}]
  /\ holders \subseteq {r \in Requests : pc[r] \notin {"idle", "authQueued"} \cup Connecting}
  /\ {r \in Requests : pc[r] \in Relying} \subseteq holders
  /\ Cardinality(holders) <= PoolSize
  /\ Cardinality({r \in Requests : pc[r] \in OnThread}) <= Threads

\* A request is turned away for want of a connection only while more requests are
\* in service than the pool has connections: whatever failed before, no path keeps
\* one for good (get_db, health_check).
RefusedOnlyOverloaded ==
  [][\A r \in Requests :
       (answer[r] # "overloaded" /\ answer'[r] = "overloaded") =>
         Cardinality({q \in Requests : pc[q] # "idle"}) > PoolSize]_vars

\* Threads that wait for connections and connections that wait for threads do not
\* hold each other up for good: every request is answered and its session closed.
EveryRequestAnswered == \A r \in Requests : pc[r] # "idle" ~> pc[r] = "idle"
=============================================================================
