------------------------ MODULE RequestServingProofs ------------------------
(***************************************************************************)
(* Theorems about RequestServing, for any number of requests, threads,     *)
(* connections and commits.                                                *)
(***************************************************************************)
EXTENDS RequestServing, FiniteSetTheorems, TLAPS

Places == Queued \cup OnThread \cup {"idle", "closing"}
OnThreads == {r \in Requests : pc[r] \in OnThread}

USE DEF Goto, Finish, Forget, Connecting, Queued, OnThread, Relying

\* What one request does.
RequestStep(r) ==
  \/ \E k \in {"api", "login", "health"} : Arrive(r, k)
  \/ Authenticate(r) \/ CheckRole(r) \/ StartHandler(r) \/ ValidateResponse(r)
  \/ Connect(r) \/ PoolTimeout(r)
  \/ LoadUser(r) \/ CommitAndGoOn(r) \/ EndHandler(r) \/ DbError(r) \/ CloseSession(r)

LEMMA StepCases ==
  ASSUME Next
  PROVE  \E r \in Requests : RequestStep(r)
BY DEF Next, RequestStep, UseThread, EndWait

LEMMA PlaceSets ==
  ASSUME NEW S \in SUBSET Requests
  PROVE  IsFiniteSet(S) /\ Cardinality(S) \in Nat
BY ServingAssumption, FS_Subset, FS_CardinalityType

\* The ranges of the variables.
Ranges ==
  /\ kind \in [Requests -> {"none", "api", "login", "health"}]
  /\ pc \in [Requests -> Places]
  /\ commits \in [Requests -> 0..MaxCommits]
  /\ answer \in [Requests -> {"none", "ok", "refused", "overloaded", "error"}]
  /\ holders \subseteq Requests

LEMMA TypeParts ==
  TypeOK <=>
    /\ Ranges
    /\ \A r \in holders : pc[r] \notin {"idle", "authQueued"} \cup Connecting
    /\ \A r \in Requests : pc[r] \in Relying => r \in holders
    /\ Cardinality(holders) <= PoolSize
    /\ Cardinality(OnThreads) <= Threads
BY DEF TypeOK, Ranges, Places, OnThreads

LEMMA StepRanges ==
  ASSUME TypeOK, NEW r \in Requests, RequestStep(r)
  PROVE  Ranges'
<1>1. Ranges
  BY TypeParts
<1>2. ASSUME NEW k \in {"api", "login", "health"}, Arrive(r, k)
      PROVE  Ranges'
  BY <1>1, <1>2 DEF Arrive, Ranges, Places
<1>3. CASE Authenticate(r)
  BY <1>1, <1>3 DEF Authenticate, Ranges, Places
<1>4. CASE CheckRole(r)
  BY <1>1, <1>4 DEF CheckRole, Ranges, Places
<1>5. CASE StartHandler(r)
  BY <1>1, <1>5 DEF StartHandler, Ranges, Places
<1>6. CASE Connect(r)
  BY <1>1, <1>6 DEF Connect, Ranges, Places
<1>7. CASE PoolTimeout(r)
  BY <1>1, <1>7 DEF PoolTimeout, Ranges, Places
<1>8. CASE LoadUser(r)
  BY <1>1, <1>8 DEF LoadUser, Ranges, Places
<1>9. CASE CommitAndGoOn(r)
  <2>1. commits[r] + 1 \in 0..MaxCommits
    BY <1>1, <1>9, ServingAssumption DEF CommitAndGoOn, Ranges
  <2> QED
    BY <1>1, <1>9, <2>1 DEF CommitAndGoOn, Ranges, Places
<1>10. CASE EndHandler(r)
  BY <1>1, <1>10 DEF EndHandler, Ranges, Places
<1>11. CASE DbError(r)
  BY <1>1, <1>11 DEF DbError, Ranges, Places
<1>12. CASE CloseSession(r)
  BY <1>1, <1>12, ServingAssumption DEF CloseSession, Ranges, Places
<1>13. CASE ValidateResponse(r)
  BY <1>1, <1>13 DEF ValidateResponse, Ranges, Places
<1> QED
  BY <1>2, <1>3, <1>4, <1>5, <1>6, <1>7, <1>8, <1>9, <1>10, <1>11, <1>12, <1>13 DEF RequestStep

\* A session gets a connection only while one is left, and its request then goes
\* where it relies on it; whoever leaves such a place keeps it or gives it back.
LEMMA StepConnections ==
  ASSUME TypeOK, NEW r \in Requests, RequestStep(r)
  PROVE  /\ \/ holders' \subseteq holders
            \/ holders' = holders \cup {r} /\ r \notin holders /\ ~PoolExhausted
         /\ \A q \in Requests : q # r => (pc'[q] = pc[q] /\ (q \in holders' <=> q \in holders))
         /\ r \in holders' => pc'[r] \notin {"idle", "authQueued"} \cup Connecting
         /\ pc'[r] \in Relying => r \in holders'
<1>1. Ranges
  BY TypeParts
<1>2. /\ r \in holders => pc[r] \notin {"idle", "authQueued"} \cup Connecting
      /\ pc[r] \in Relying => r \in holders
  BY TypeParts
<1>3. CASE \E k \in {"api", "login", "health"} : Arrive(r, k)
  BY <1>1, <1>2, <1>3 DEF Arrive, Ranges
<1>4. CASE Authenticate(r) \/ CheckRole(r) \/ StartHandler(r) \/ ValidateResponse(r)
  BY <1>1, <1>2, <1>4 DEF Authenticate, CheckRole, StartHandler, ValidateResponse, Ranges
<1>5. CASE Connect(r)
  BY <1>1, <1>2, <1>5 DEF Connect, Ranges
<1>6. CASE PoolTimeout(r) \/ LoadUser(r) \/ EndHandler(r) \/ DbError(r)
  BY <1>1, <1>2, <1>6 DEF PoolTimeout, LoadUser, EndHandler, DbError, Ranges
<1>7. CASE CommitAndGoOn(r) \/ CloseSession(r)
  BY <1>1, <1>2, <1>7 DEF CommitAndGoOn, CloseSession, Ranges
<1> QED
  BY <1>3, <1>4, <1>5, <1>6, <1>7 DEF RequestStep

\* A request gets a thread only while one is free.
LEMMA StepThreads ==
  ASSUME TypeOK, NEW r \in Requests, RequestStep(r)
  PROVE  \/ OnThreads' \subseteq OnThreads
         \/ OnThreads' = OnThreads \cup {r} /\ r \notin OnThreads /\ ThreadFree
<1>1. Ranges
  BY TypeParts
<1>2. \A q \in Requests : q # r => pc'[q] = pc[q]
  BY StepConnections
<1>3. \/ pc'[r] \in OnThread => pc[r] \in OnThread
      \/ pc[r] \notin OnThread /\ ThreadFree
  BY <1>1
     DEF RequestStep, Arrive, Authenticate, CheckRole, StartHandler, ValidateResponse, Connect,
         PoolTimeout, LoadUser, CommitAndGoOn, EndHandler, DbError, CloseSession, Ranges
<1> QED
  BY <1>2, <1>3 DEF OnThreads

LEMMA StepPreserves ==
  ASSUME TypeOK, NEW r \in Requests, RequestStep(r)
  PROVE  TypeOK'
<1>1. Ranges /\ Cardinality(holders) <= PoolSize /\ Cardinality(OnThreads) <= Threads
  BY TypeParts
<1>2. Ranges' /\ OnThreads \in SUBSET Requests /\ OnThreads' \in SUBSET Requests
  BY StepRanges DEF OnThreads
<1>3. /\ IsFiniteSet(holders) /\ Cardinality(holders) \in Nat /\ Cardinality(holders') \in Nat
      /\ IsFiniteSet(OnThreads) /\ Cardinality(OnThreads) \in Nat /\ Cardinality(OnThreads') \in Nat
  BY <1>1, <1>2, PlaceSets DEF Ranges
<1>4. Cardinality(holders') <= PoolSize
  <2>1. CASE holders' \subseteq holders
    <3>1. Cardinality(holders') <= Cardinality(holders)
      BY <1>3, <2>1, FS_Subset
    <3> QED
      BY <1>1, <1>3, <3>1, ServingAssumption
  <2>2. CASE holders' = holders \cup {r} /\ r \notin holders /\ ~PoolExhausted
    <3>1. Cardinality(holders') = Cardinality(holders) + 1
      BY <1>3, <2>2, FS_AddElement
    <3> QED
      BY <1>3, <2>2, <3>1, ServingAssumption DEF PoolExhausted
  <2> QED
    BY <2>1, <2>2, StepConnections
<1>5. Cardinality(OnThreads') <= Threads
  <2>1. CASE OnThreads' \subseteq OnThreads
    <3>1. Cardinality(OnThreads') <= Cardinality(OnThreads)
      BY <1>3, <2>1, FS_Subset
    <3> QED
      BY <1>1, <1>3, <3>1, ServingAssumption
  <2>2. CASE OnThreads' = OnThreads \cup {r} /\ r \notin OnThreads /\ ThreadFree
    <3>1. Cardinality(OnThreads') = Cardinality(OnThreads) + 1
      BY <1>3, <2>2, FS_AddElement
    <3>2. Cardinality(OnThreads) < Threads
      BY <2>2 DEF ThreadFree, OnThreads
    <3> QED
      BY <1>3, <3>1, <3>2, ServingAssumption
  <2> QED
    BY <2>1, <2>2, StepThreads
<1>6. /\ \A q \in Requests : q \in holders' => pc'[q] \notin {"idle", "authQueued"} \cup Connecting
      /\ \A q \in Requests : pc'[q] \in Relying => q \in holders'
  BY TypeParts, StepConnections
<1>7. Ranges' /\ \A q \in holders' : pc'[q] \notin {"idle", "authQueued"} \cup Connecting
  BY <1>2, <1>6 DEF Ranges
<1> QED
  BY <1>2, <1>4, <1>5, <1>6, <1>7 DEF TypeOK, Ranges, Places, OnThreads

LEMMA InitTypes == Init => TypeOK
<1> SUFFICES ASSUME Init  PROVE TypeOK
  OBVIOUS
<1>1. OnThreads = {} /\ Cardinality(OnThreads) = 0 /\ Cardinality(holders) = 0 /\ holders = {}
  BY FS_EmptySet DEF Init, OnThreads
<1> QED
  BY <1>1, ServingAssumption DEF Init, TypeOK, OnThreads

\* The limits of the two pools hold, a session has its connection wherever its
\* request relies on it, and it has none once the request is over: no path of
\* get_current_user, of a handler or of an error keeps one.
THEOREM TypeCorrect == Spec => []TypeOK
<1>1. TypeOK /\ UNCHANGED vars => TypeOK'
  BY DEF TypeOK, vars
<1>2. TypeOK /\ [Next]_vars => TypeOK'
  BY <1>1, StepCases, StepPreserves
<1> QED
  BY <1>2, InitTypes, PTL DEF Spec

\* Whoever is turned away for want of a connection has found the pool exhausted by
\* other requests in service, for any number of failures before: connections are
\* never lost to requests that are over.
THEOREM OnlyOverloadRefuses == Spec => RefusedOnlyOverloaded
<1>1. ASSUME TypeOK, [Next]_vars, NEW r \in Requests,
             answer[r] # "overloaded", answer'[r] = "overloaded"
      PROVE  Cardinality({q \in Requests : pc[q] # "idle"}) > PoolSize
  <2>1. Ranges /\ \A q \in holders : pc[q] \notin {"idle"} \cup Connecting
    BY <1>1, TypeParts
  <2>2. PICK q \in Requests : RequestStep(q)
    BY <1>1, StepCases DEF vars
  <2>3. PoolTimeout(r)
    BY <1>1, <2>1, <2>2
       DEF RequestStep, Arrive, Authenticate, CheckRole, StartHandler, ValidateResponse, Connect,
           PoolTimeout, LoadUser, CommitAndGoOn, EndHandler, DbError, CloseSession, Ranges
  <2> DEFINE InService == {p \in Requests : pc[p] # "idle"}
  <2>4. r \notin holders /\ r \in InService /\ holders \subseteq InService
    BY <2>1, <2>3 DEF PoolTimeout, Ranges
  <2>5. IsFiniteSet(holders) /\ Cardinality(holders) \in Nat
    BY <2>1, PlaceSets DEF Ranges
  <2>6. Cardinality(holders \cup {r}) = Cardinality(holders) + 1
    BY <2>4, <2>5, FS_AddElement
  <2>7. IsFiniteSet(InService) /\ Cardinality(InService) \in Nat
    BY PlaceSets
  <2>8. Cardinality(holders \cup {r}) <= Cardinality(InService)
    BY <2>4, <2>7, FS_Subset
  <2>9. Cardinality(holders) >= PoolSize
    BY <2>3 DEF PoolTimeout, PoolExhausted
  <2> QED
    BY <2>5, <2>6, <2>7, <2>8, <2>9, ServingAssumption
<1>2. TypeOK /\ [Next]_vars =>
        [\A r \in Requests :
           (answer[r] # "overloaded" /\ answer'[r] = "overloaded") =>
             Cardinality({q \in Requests : pc[q] # "idle"}) > PoolSize]_vars
  BY <1>1
<1> QED
  BY <1>2, TypeCorrect, PTL DEF Spec, RefusedOnlyOverloaded
=============================================================================
