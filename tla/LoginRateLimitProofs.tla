------------------------- MODULE LoginRateLimitProofs -------------------------
(***************************************************************************)
(* Theorems about LoginRateLimit, for any number of threads and clients,   *)
(* any limit, window and stall.                                            *)
(***************************************************************************)
EXTENDS LoginRateLimit, FiniteSetTheorems, SequenceTheorems, TLAPS

Admission == [stamp : 0..MaxTime, at : 0..MaxTime]

\* The times of an admission are natural numbers.
LEMMA AdmissionTimes ==
  ASSUME TypeOK, NEW c \in Clients
  PROVE  /\ admitted[c] \in Seq(Admission)
         /\ Len(admitted[c]) \in Nat
         /\ \A i \in 1..Len(admitted[c]) :
              admitted[c][i].stamp \in 0..MaxTime /\ admitted[c][i].at \in 0..MaxTime
<1>1. admitted[c] \in Seq(Admission)
  BY DEF TypeOK, Admission
<1>2. Len(admitted[c]) \in Nat
  BY <1>1, LenProperties
<1>3. ASSUME NEW i \in 1..Len(admitted[c])
      PROVE  admitted[c][i].stamp \in 0..MaxTime /\ admitted[c][i].at \in 0..MaxTime
  <2>1. admitted[c][i] \in Admission
    BY <1>1, ElementOfSeq
  <2> QED
    BY <2>1 DEF Admission
<1> QED
  BY <1>1, <1>2, <1>3

\* The attempts a thread finds recent are admissions recorded so far, finitely
\* many; those it does not find are Window old by now.
LEMMA RecentAttempts ==
  ASSUME WindowInvariant, NEW t \in Threads, pc[t] = "lock"
  PROVE  LET c == client[t]
             recent == Recent(c, now[t])
         IN /\ c \in Clients
            /\ recent \subseteq 1..Len(admitted[c])
            /\ IsFiniteSet(recent)
            /\ Cardinality(recent) \in Nat
            /\ \A i \in (1..Len(admitted[c])) \ recent : admitted[c][i].stamp + Window <= clock
<1> DEFINE c == client[t]
           recent == Recent(c, now[t])
<1>1. /\ c \in Clients
      /\ clock \in 0..MaxTime
      /\ now[t] \in 0..MaxTime
      /\ MaxTime \in Nat
      /\ Window \in Nat
  BY SettingsAssumption DEF WindowInvariant, TypeOK
<1>0. Len(admitted[c]) \in Nat /\ now[t] <= clock
  BY <1>1, AdmissionTimes DEF WindowInvariant, TimesAreFresh
<1>2. recent \subseteq 1..Len(admitted[c])
  BY <1>1, <1>0 DEF WindowInvariant, DroppedAreOld, Recent
<1>3. IsFiniteSet(recent) /\ Cardinality(recent) \in Nat
  <2>1. IsFiniteSet(1..Len(admitted[c]))
    BY <1>0, FS_Interval
  <2> QED
    BY <2>1, <1>2, FS_Subset, FS_CardinalityType
<1>4. ASSUME NEW i \in (1..Len(admitted[c])) \ recent
      PROVE  admitted[c][i].stamp + Window <= clock
  <2>1. admitted[c][i].stamp \in 0..MaxTime
    BY <1>1, AdmissionTimes DEF WindowInvariant
  <2>2. CASE i \in attempts[c]
    BY <2>1, <2>2, <1>0, <1>1 DEF Recent
  <2>3. CASE i \notin attempts[c]
    BY <2>3, <1>1 DEF WindowInvariant, DroppedAreOld
  <2> QED
    BY <2>2, <2>3
<1> QED
  BY <1>1, <1>2, <1>3, <1>4

\* One more admission: if the table shows fewer than Limit recent attempts, one
\* of the last Limit admissions has left the window.
LEMMA AdmissionKeepsBudget ==
  ASSUME WindowInvariant, NEW t \in Threads, Admit(t)
  PROVE  BudgetPerWindow'
<1> DEFINE c == client[t]
           recent == Recent(c, now[t])
           n == Len(admitted[c])
<1>1. /\ c \in Clients
      /\ recent \subseteq 1..n
      /\ IsFiniteSet(recent)
      /\ Cardinality(recent) \in Nat
      /\ \A i \in (1..n) \ recent : admitted[c][i].stamp + Window <= clock
  BY RecentAttempts DEF Admit
<1>2. /\ admitted[c] \in Seq(Admission)
      /\ n \in Nat /\ clock \in 0..MaxTime /\ now[t] \in 0..MaxTime
      /\ Limit \in Nat /\ Window \in Nat /\ MaxStall \in Nat /\ MaxTime \in Nat
  <2>1. admitted[c] \in Seq(Admission) /\ n \in Nat
    BY <1>1, AdmissionTimes DEF WindowInvariant
  <2> QED
    BY <1>1, <2>1, SettingsAssumption DEF WindowInvariant, TypeOK
<1>3. admitted' = [admitted EXCEPT ![c] = Append(@, [stamp |-> now[t], at |-> clock])]
      /\ Cardinality(recent) < Limit
  BY DEF Admit
<1>4. /\ DOMAIN admitted = Clients
      /\ admitted'[c] = Append(admitted[c], [stamp |-> now[t], at |-> clock])
      /\ Len(admitted'[c]) = n + 1
      /\ \A i \in 1..n : admitted'[c][i] = admitted[c][i]
      /\ admitted'[c][n + 1].at = clock
  <2> DEFINE new == [stamp |-> now[t], at |-> clock]
  <2>1. new \in Admission
    BY <1>2 DEF Admission
  <2>2. DOMAIN admitted = Clients
    BY DEF WindowInvariant, TypeOK
  <2>3. admitted'[c] = Append(admitted[c], new)
    BY <2>2, <1>1, <1>3
  <2>4. /\ Len(Append(admitted[c], new)) = n + 1
        /\ \A i \in 1..n : Append(admitted[c], new)[i] = admitted[c][i]
        /\ Append(admitted[c], new)[n + 1] = new
    BY <1>2, <2>1, AppendProperties
  <2> QED
    BY <2>2, <2>3, <2>4
<1>5. ASSUME n + 1 > Limit
      PROVE  \E i \in (n + 1 - Limit)..n : i \notin recent
  <2> DEFINE m == n + 1 - Limit
  <2>1. m \in Int /\ n \in Int /\ n - m + 1 = Limit /\ (m > n => Limit = 0)
    BY <1>2, <1>5
  <2> HIDE DEF m
  <2>2. Cardinality(m..n) = IF m > n THEN 0 ELSE n - m + 1
    BY <2>1, FS_Interval
  <2>3. Cardinality(m..n) = Limit
    BY <2>1, <2>2, <1>2
  <2>4. ASSUME m..n \subseteq recent
        PROVE  FALSE
    <3>1. Cardinality(m..n) <= Cardinality(recent)
      BY <2>4, <1>1, FS_Subset
    <3> QED
      BY <3>1, <2>3, <1>1, <1>2, <1>3
  <2>5. \E i \in m..n : i \notin recent
    BY <2>4
  <2> QED
    BY <2>5 DEF m
<1>6. ASSUME n + 1 > Limit, Limit > 0
      PROVE  admitted[c][n + 1 - Limit].at + Window <= clock + MaxStall
  <2>1. PICK i \in (n + 1 - Limit)..n : i \notin recent
    BY <1>5, <1>6
  <2>2. i \in 1..n /\ n + 1 - Limit \in 1..i
    BY <1>2, <1>6, <2>1
  <2>3. admitted[c][i].stamp + Window <= clock
    BY <1>1, <2>1, <2>2
  <2>4. /\ admitted[c][i].at <= admitted[c][i].stamp + MaxStall
        /\ admitted[c][n + 1 - Limit].at <= admitted[c][i].at
    BY <1>1, <2>2 DEF WindowInvariant, AdmissionsInOrder
  <2>5. \A j \in 1..n : admitted[c][j].stamp \in 0..MaxTime /\ admitted[c][j].at \in 0..MaxTime
    BY <1>1, AdmissionTimes DEF WindowInvariant
  <2>6. n + 1 - Limit \in 1..n
    BY <1>2, <1>6
  <2>7. /\ admitted[c][i].stamp \in Int /\ admitted[c][i].at \in Int
        /\ admitted[c][n + 1 - Limit].at \in Int
    BY <2>2, <2>5, <2>6
  <2>8. clock \in Int /\ Window \in Int /\ MaxStall \in Int
    BY <1>2
  <2> DEFINE stamp == admitted[c][i].stamp
             at == admitted[c][i].at
             first == admitted[c][n + 1 - Limit].at
  <2>9. /\ stamp \in Int /\ at \in Int /\ first \in Int
        /\ stamp + Window <= clock /\ at <= stamp + MaxStall /\ first <= at
    BY <2>3, <2>4, <2>7
  <2> HIDE DEF stamp, at, first
  <2>10. first + Window <= clock + MaxStall
    BY <2>8, <2>9
  <2> QED
    BY <2>10 DEF first
<1>7. Limit > 0
  BY <1>1, <1>2, <1>3
<1>8. ASSUME NEW d \in Clients, NEW i \in 1..Len(admitted'[d]), i + Limit <= Len(admitted'[d])
      PROVE  admitted'[d][i].at + Window <= admitted'[d][i + Limit].at + MaxStall
  <2>1. CASE d # c
    BY <2>1, <1>8, <1>3, <1>4 DEF WindowInvariant, BudgetPerWindow
  <2>2. CASE d = c /\ i + Limit <= n
    <3>1. i \in 1..n /\ i + Limit \in 1..n
      BY <2>2, <1>2, <1>8
    <3> QED
      BY <3>1, <2>2, <1>1, <1>2, <1>4 DEF WindowInvariant, BudgetPerWindow
  <2>3. CASE d = c /\ i + Limit = n + 1
    <3> HIDE DEF n
    <3>1. n \in Nat /\ Limit \in Nat
      BY <1>2
    <3>2. Len(admitted'[d]) = n + 1
      BY <2>3, <1>4
    <3>3. i \in 1..(n + 1)
      BY <3>2, <1>8
    <3>4. i = n + 1 - Limit /\ n + 1 > Limit /\ i \in 1..n
      BY <3>1, <3>3, <2>3, <1>7
    <3> QED
      BY <3>4, <2>3, <1>4, <1>6, <1>7
  <2>4. d = c => (i + Limit <= n \/ i + Limit = n + 1)
    <3> HIDE DEF n
    <3>1. n \in Nat /\ Limit \in Nat
      BY <1>2
    <3>2. SUFFICES ASSUME d = c
                   PROVE  i + Limit <= n \/ i + Limit = n + 1
      OBVIOUS
    <3>3. Len(admitted'[d]) = n + 1
      BY <3>2, <1>4
    <3>4. i \in 1..(n + 1) /\ i + Limit <= n + 1
      BY <3>3, <1>8
    <3> QED
      BY <3>1, <3>4
  <2> QED
    BY <2>1, <2>2, <2>3, <2>4
<1> QED
  BY <1>8 DEF BudgetPerWindow

-----------------------------------------------------------------------------

LEMMA InitiallyWithinWindow ==
  ASSUME Init
  PROVE  WindowInvariant
<1>1. \A c \in Clients : admitted[c] = <<>> /\ attempts[c] = {} /\ Len(admitted[c]) = 0
  BY DEF Init
<1>2. TypeOK
  <2>1. <<>> \in Seq(Admission)
    BY EmptySeq
  <2> QED
    BY <2>1, SettingsAssumption DEF Init, TypeOK, NoClient, Admission
<1>3. AdmissionsInOrder /\ DroppedAreOld /\ BudgetPerWindow
  BY <1>1 DEF AdmissionsInOrder, DroppedAreOld, BudgetPerWindow
<1>4. TimesAreFresh
  BY DEF Init, TimesAreFresh
<1> QED
  BY <1>2, <1>3, <1>4 DEF WindowInvariant

\* The table and the clock stay: a thread arrives, or a login ends.
LEMMA OutsideTheLock ==
  ASSUME WindowInvariant, NEW t \in Threads,
         \/ \E c \in Clients : ReadClock(t, c)
         \/ LoginFails(t)
         \/ LoginSucceeds(t)
  PROVE  WindowInvariant'
<1>1. UNCHANGED <<clock, admitted, attempts>>
  BY DEF ReadClock, LoginFails, LoginSucceeds
<1>2. TypeOK'
  <2>1. /\ pc' \in [Threads -> {"idle", "lock", "login", "clear"}]
        /\ client' \in [Threads -> Clients \cup {NoClient}]
        /\ now' \in [Threads -> 0..MaxTime]
        /\ \A u \in Threads : pc'[u] # "idle" => client'[u] \in Clients
    <3>1. CASE \E c \in Clients : ReadClock(t, c)
      BY <3>1 DEF WindowInvariant, TypeOK, ReadClock, Goto
    <3>2. CASE LoginFails(t)
      BY <3>2, SettingsAssumption DEF WindowInvariant, TypeOK, LoginFails, Goto, Answer
    <3>3. CASE LoginSucceeds(t)
      BY <3>3 DEF WindowInvariant, TypeOK, LoginSucceeds, Goto
    <3> QED
      BY <3>1, <3>2, <3>3
  <2> QED
    BY <1>1, <2>1 DEF WindowInvariant, TypeOK
<1>3. (AdmissionsInOrder /\ DroppedAreOld /\ BudgetPerWindow)'
  BY <1>1 DEF WindowInvariant, AdmissionsInOrder, DroppedAreOld, BudgetPerWindow
<1>4. TimesAreFresh'
  <2>1. clock \in 0..MaxTime /\ clock' = clock
    BY <1>1 DEF WindowInvariant, TypeOK
  <2>2. \A u \in Threads : pc'[u] = "lock" => (pc[u] = "lock" /\ now'[u] = now[u]) \/ now'[u] = clock
    BY DEF WindowInvariant, TypeOK, ReadClock, LoginFails, LoginSucceeds, Goto, Answer
  <2> QED
    BY <2>1, <2>2, SettingsAssumption DEF WindowInvariant, TimesAreFresh
<1> QED
  BY <1>2, <1>3, <1>4 DEF WindowInvariant

\* A thread that leaves the lock has no time in hand any more.
LEMMA LeavingTheLock ==
  ASSUME WindowInvariant, NEW t \in Threads, Admit(t) \/ Refuse(t) \/ ClearClient(t)
  PROVE  TimesAreFresh'
<1>1. /\ clock' = clock
      /\ \A u \in Threads : pc'[u] = "lock" => pc[u] = "lock" /\ now'[u] = now[u]
  BY DEF WindowInvariant, TypeOK, Admit, Refuse, ClearClient, Goto, Answer
<1> QED
  BY <1>1 DEF WindowInvariant, TimesAreFresh

LEMMA AdmitKeepsWindow ==
  ASSUME WindowInvariant, NEW t \in Threads, Admit(t)
  PROVE  WindowInvariant'
<1> DEFINE c == client[t]
           recent == Recent(c, now[t])
           n == Len(admitted[c])
           new == [stamp |-> now[t], at |-> clock]
<1>1. /\ c \in Clients
      /\ recent \subseteq 1..n
      /\ \A i \in (1..n) \ recent : admitted[c][i].stamp + Window <= clock
  BY RecentAttempts DEF Admit
<1>2. /\ admitted[c] \in Seq(Admission)
      /\ n \in Nat
      /\ \A i \in 1..n : admitted[c][i].stamp \in 0..MaxTime /\ admitted[c][i].at \in 0..MaxTime
  BY <1>1, AdmissionTimes DEF WindowInvariant
<1>3. /\ DOMAIN admitted = Clients /\ DOMAIN attempts = Clients
      /\ clock \in 0..MaxTime /\ now[t] \in 0..MaxTime /\ clock' = clock
      /\ MaxStall \in Nat /\ MaxTime \in Nat
  BY SettingsAssumption DEF WindowInvariant, TypeOK, Admit
<1>4. /\ admitted' = [admitted EXCEPT ![c] = Append(@, new)]
      /\ admitted'[c] = Append(admitted[c], new)
      /\ attempts' = [attempts EXCEPT ![c] = recent \cup {n + 1}]
      /\ attempts'[c] = recent \cup {n + 1}
  BY <1>1, <1>3 DEF Admit
<1>5. /\ new \in Admission
      /\ admitted'[c] \in Seq(Admission)
      /\ Len(admitted'[c]) = n + 1
      /\ \A i \in 1..n : admitted'[c][i] = admitted[c][i]
      /\ admitted'[c][n + 1] = new
  <2>1. new \in Admission
    BY <1>3 DEF Admission
  <2> QED
    BY <2>1, <1>2, <1>4, AppendProperties
<1>6. \A d \in Clients : d # c => admitted'[d] = admitted[d] /\ attempts'[d] = attempts[d]
  BY <1>3, <1>4
<1>7. TypeOK'
  <2>1. admitted' \in [Clients -> Seq(Admission)]
    BY <1>1, <1>4, <1>5 DEF WindowInvariant, TypeOK, Admission
  <2>2. attempts' \in [Clients -> SUBSET Nat]
    <3>1. recent \cup {n + 1} \in SUBSET Nat
      BY <1>1, <1>2
    <3> QED
      BY <3>1, <1>4 DEF WindowInvariant, TypeOK
  <2>3. /\ clock' \in 0..MaxTime
        /\ pc' \in [Threads -> {"idle", "lock", "login", "clear"}]
        /\ client' \in [Threads -> Clients \cup {NoClient}]
        /\ now' \in [Threads -> 0..MaxTime]
        /\ \A u \in Threads : pc'[u] # "idle" => client'[u] \in Clients
    BY <1>1 DEF WindowInvariant, TypeOK, Admit, Goto
  <2> QED
    BY <2>1, <2>2, <2>3 DEF TypeOK, Admission
<1>8. AdmissionsInOrder'
  <2> SUFFICES ASSUME NEW d \in Clients, NEW i \in 1..Len(admitted'[d])
               PROVE  /\ admitted'[d][i].stamp <= admitted'[d][i].at
                      /\ admitted'[d][i].at <= admitted'[d][i].stamp + MaxStall
                      /\ admitted'[d][i].at <= clock
                      /\ \A j \in 1..i : admitted'[d][j].at <= admitted'[d][i].at
    BY <1>3 DEF AdmissionsInOrder
  <2>1. CASE d # c
    BY <2>1, <1>6 DEF WindowInvariant, AdmissionsInOrder
  <2>2. CASE d = c /\ i \in 1..n
    <3>1. \A j \in 1..i : j \in 1..n /\ admitted'[c][j] = admitted[c][j]
      BY <2>2, <1>2, <1>5
    <3> QED
      BY <3>1, <2>2, <1>5, <1>1 DEF WindowInvariant, AdmissionsInOrder
  <2>3. CASE d = c /\ i = n + 1
    <3>1. now[t] <= clock /\ clock <= now[t] + MaxStall
      BY DEF WindowInvariant, TimesAreFresh, Admit
    <3>2. \A j \in 1..n : admitted'[c][j].at <= clock
      BY <1>1, <1>5 DEF WindowInvariant, AdmissionsInOrder
    <3>3. \A j \in 1..i : j \in 1..n \/ j = n + 1
      BY <2>3, <1>2
    <3>4. admitted'[c][n + 1].at = clock /\ admitted'[c][n + 1].stamp = now[t]
      BY <1>5
    <3>5. clock <= clock
      BY <1>3
    <3> QED
      BY <2>3, <3>1, <3>2, <3>3, <3>4, <3>5
  <2> QED
    BY <2>1, <2>2, <2>3, <1>2, <1>5
<1>9. DroppedAreOld'
  <2> SUFFICES ASSUME NEW d \in Clients
               PROVE  /\ attempts'[d] \subseteq 1..Len(admitted'[d])
                      /\ \A i \in (1..Len(admitted'[d])) \ attempts'[d] :
                           admitted'[d][i].stamp + Window <= clock
    BY <1>3 DEF DroppedAreOld
  <2>1. CASE d # c
    BY <2>1, <1>6 DEF WindowInvariant, DroppedAreOld
  <2>2. CASE d = c
    <3>1. recent \cup {n + 1} \subseteq 1..(n + 1)
      BY <1>1, <1>2
    <3>2. \A i \in (1..(n + 1)) \ (recent \cup {n + 1}) : i \in (1..n) \ recent
      BY <1>2
    <3> QED
      BY <3>1, <3>2, <2>2, <1>1, <1>4, <1>5
  <2> QED
    BY <2>1, <2>2
<1> QED
  BY <1>7, <1>8, <1>9, AdmissionKeepsBudget, LeavingTheLock DEF WindowInvariant

LEMMA RefuseKeepsWindow ==
  ASSUME WindowInvariant, NEW t \in Threads, Refuse(t)
  PROVE  WindowInvariant'
<1> DEFINE c == client[t]
           recent == Recent(c, now[t])
<1>1. /\ c \in Clients
      /\ recent \subseteq 1..Len(admitted[c])
      /\ \A i \in (1..Len(admitted[c])) \ recent : admitted[c][i].stamp + Window <= clock
  BY RecentAttempts DEF Refuse
<1>2. UNCHANGED <<clock, admitted>> /\ attempts' = [attempts EXCEPT ![c] = recent]
  BY DEF Refuse
<1>3. TypeOK'
  <2>1. recent \in SUBSET Nat
    BY <1>1
  <2>2. /\ pc' \in [Threads -> {"idle", "lock", "login", "clear"}]
        /\ client' \in [Threads -> Clients \cup {NoClient}]
        /\ now' \in [Threads -> 0..MaxTime]
        /\ \A u \in Threads : pc'[u] # "idle" => client'[u] \in Clients
    BY SettingsAssumption DEF WindowInvariant, TypeOK, Refuse, Goto, Answer
  <2>3. attempts' \in [Clients -> SUBSET Nat]
    BY <2>1, <1>2 DEF WindowInvariant, TypeOK
  <2> QED
    BY <1>2, <2>2, <2>3 DEF WindowInvariant, TypeOK
<1>4. (AdmissionsInOrder /\ BudgetPerWindow)'
  BY <1>2 DEF WindowInvariant, AdmissionsInOrder, BudgetPerWindow
<1>5. DroppedAreOld'
  BY <1>1, <1>2 DEF WindowInvariant, TypeOK, DroppedAreOld
<1> QED
  BY <1>3, <1>4, <1>5, LeavingTheLock DEF WindowInvariant

LEMMA ClearKeepsWindow ==
  ASSUME WindowInvariant, NEW t \in Threads, ClearClient(t)
  PROVE  WindowInvariant'
<1> DEFINE c == client[t]
<1>1. /\ clock' = clock
      /\ admitted' = [admitted EXCEPT ![c] = <<>>]
      /\ attempts' = [attempts EXCEPT ![c] = {}]
  BY DEF ClearClient
<1>2. TypeOK'
  <2>1. <<>> \in Seq(Admission)
    BY EmptySeq
  <2>2. admitted' \in [Clients -> Seq(Admission)]
    BY <2>1, <1>1 DEF WindowInvariant, TypeOK, Admission
  <2>3. /\ pc' \in [Threads -> {"idle", "lock", "login", "clear"}]
        /\ client' \in [Threads -> Clients \cup {NoClient}]
        /\ now' \in [Threads -> 0..MaxTime]
        /\ \A u \in Threads : pc'[u] # "idle" => client'[u] \in Clients
    BY SettingsAssumption DEF WindowInvariant, TypeOK, ClearClient, Goto, Answer
  <2>4. attempts' \in [Clients -> SUBSET Nat]
    BY <1>1 DEF WindowInvariant, TypeOK
  <2> QED
    BY <1>1, <2>2, <2>3, <2>4 DEF WindowInvariant, TypeOK, Admission
<1>3. \A d \in Clients : \/ admitted'[d] = admitted[d] /\ attempts'[d] = attempts[d]
                         \/ Len(admitted'[d]) = 0 /\ attempts'[d] = {}
  BY <1>1 DEF WindowInvariant, TypeOK
<1>4. (AdmissionsInOrder /\ DroppedAreOld /\ BudgetPerWindow)'
  BY <1>1, <1>3 DEF WindowInvariant, AdmissionsInOrder, DroppedAreOld, BudgetPerWindow
<1> QED
  BY <1>2, <1>4, LeavingTheLock DEF WindowInvariant

LEMMA TickKeepsWindow ==
  ASSUME WindowInvariant, Tick
  PROVE  WindowInvariant'
<1>1. /\ UNCHANGED <<pc, client, now, admitted, attempts>>
      /\ clock' = clock + 1
      /\ clock \in 0..MaxTime
      /\ clock < MaxTime
      /\ MaxTime \in Nat /\ Window \in Nat /\ MaxStall \in Nat
  BY SettingsAssumption DEF WindowInvariant, TypeOK, Tick
<1>2. TypeOK'
  <2>1. clock' \in 0..MaxTime
    BY <1>1
  <2> QED
    BY <1>1, <2>1 DEF WindowInvariant, TypeOK
<1>3. BudgetPerWindow'
  BY <1>1 DEF WindowInvariant, BudgetPerWindow
<1>4. \A c \in Clients : \A i \in 1..Len(admitted[c]) :
        admitted[c][i].stamp \in 0..MaxTime /\ admitted[c][i].at \in 0..MaxTime
  BY AdmissionTimes DEF WindowInvariant
<1>5. AdmissionsInOrder'
  <2> SUFFICES ASSUME NEW c \in Clients, NEW i \in 1..Len(admitted[c])
               PROVE  admitted[c][i].at <= clock + 1
    BY <1>1 DEF WindowInvariant, AdmissionsInOrder
  <2>1. admitted[c][i].at <= clock /\ admitted[c][i].at \in 0..MaxTime
    BY <1>4 DEF WindowInvariant, AdmissionsInOrder
  <2> QED
    BY <2>1, <1>1
<1>6. DroppedAreOld'
  <2> SUFFICES ASSUME NEW c \in Clients, NEW i \in (1..Len(admitted[c])) \ attempts[c]
               PROVE  admitted[c][i].stamp + Window <= clock + 1
    BY <1>1 DEF WindowInvariant, DroppedAreOld
  <2>1. admitted[c][i].stamp + Window <= clock /\ admitted[c][i].stamp \in 0..MaxTime
    BY <1>4 DEF WindowInvariant, DroppedAreOld
  <2> QED
    BY <2>1, <1>1
<1>7. TimesAreFresh'
  <2> SUFFICES ASSUME NEW t \in Threads, pc[t] = "lock"
               PROVE  now[t] <= clock + 1 /\ clock + 1 <= now[t] + MaxStall
    BY <1>1 DEF TimesAreFresh
  <2>1. now[t] \in 0..MaxTime /\ now[t] <= clock /\ clock < now[t] + MaxStall
    BY DEF WindowInvariant, TypeOK, TimesAreFresh, Tick
  <2> QED
    BY <2>1, <1>1
<1> QED
  BY <1>2, <1>3, <1>5, <1>6, <1>7 DEF WindowInvariant

-----------------------------------------------------------------------------

\* The table never forgets an attempt whose window is not over, and so admits no
\* more than the budget, whatever threads race.
THEOREM WindowInvariantHolds == Spec => []WindowInvariant
<1>1. Init => WindowInvariant
  BY InitiallyWithinWindow
<1>2. WindowInvariant /\ [Next]_vars => WindowInvariant'
  <2> SUFFICES ASSUME WindowInvariant, [Next]_vars
               PROVE  WindowInvariant'
    OBVIOUS
  <2>1. CASE \E t \in Threads, c \in Clients : ReadClock(t, c)
    BY <2>1, OutsideTheLock
  <2>2. ASSUME NEW t \in Threads, LoginFails(t) \/ LoginSucceeds(t)
        PROVE  WindowInvariant'
    BY <2>2, OutsideTheLock
  <2>3. ASSUME NEW t \in Threads, Admit(t)
        PROVE  WindowInvariant'
    BY <2>3, AdmitKeepsWindow
  <2>4. ASSUME NEW t \in Threads, Refuse(t)
        PROVE  WindowInvariant'
    BY <2>4, RefuseKeepsWindow
  <2>5. ASSUME NEW t \in Threads, ClearClient(t)
        PROVE  WindowInvariant'
    BY <2>5, ClearKeepsWindow
  <2>6. CASE Tick
    BY <2>6, TickKeepsWindow
  <2>7. CASE UNCHANGED vars
    BY <2>7 DEF vars, WindowInvariant, TypeOK, AdmissionsInOrder, DroppedAreOld,
                TimesAreFresh, BudgetPerWindow
  <2> QED
    BY <2>1, <2>2, <2>3, <2>4, <2>5, <2>6, <2>7 DEF Next
<1> QED
  BY <1>1, <1>2, PTL DEF Spec

\* Any Limit + 1 admissions of one client span a window, less the stall.
THEOREM BudgetHolds == Spec => []BudgetPerWindow
<1>1. WindowInvariant => BudgetPerWindow
  BY DEF WindowInvariant
<1> QED
  BY <1>1, WindowInvariantHolds, PTL

\* A refused client has spent its budget within the last window.
THEOREM RefusalsAreDue == Spec => RefusedOnlyOverBudget
<1> DEFINE Spent(t) == {i \in 1..Len(admitted[client[t]]) :
                          now[t] < admitted[client[t]][i].at + Window}
<1>1. ASSUME WindowInvariant, Next, NEW t \in Threads, Refused(t)
      PROVE  Cardinality(Spent(t)) >= Limit
  <2> DEFINE c == client[t]
             recent == Recent(c, now[t])
  <2>1. Refuse(t)
    BY <1>1 DEF WindowInvariant, TypeOK, Next, Refused, ReadClock, Admit, Refuse, LoginFails,
                LoginSucceeds, ClearClient, Tick, Goto, Answer
  <2>2. /\ c \in Clients
        /\ recent \subseteq 1..Len(admitted[c])
        /\ Cardinality(recent) \in Nat
    BY <1>1, RecentAttempts DEF Refused
  <2>3. ASSUME NEW i \in recent
        PROVE  i \in Spent(t)
    <3>1. i \in 1..Len(admitted[c]) /\ now[t] < admitted[c][i].stamp + Window
      BY <2>2 DEF Recent
    <3>2. admitted[c][i].stamp <= admitted[c][i].at
      BY <1>1, <2>2, <3>1 DEF WindowInvariant, AdmissionsInOrder
    <3>3. /\ admitted[c][i].stamp \in 0..MaxTime /\ admitted[c][i].at \in 0..MaxTime
          /\ now[t] \in 0..MaxTime /\ Window \in Nat
      BY <1>1, <2>2, <3>1, AdmissionTimes, SettingsAssumption DEF WindowInvariant, TypeOK
    <3>4. now[t] < admitted[c][i].at + Window
      BY <3>1, <3>2, <3>3
    <3> QED
      BY <3>1, <3>4
  <2>4. IsFiniteSet(Spent(t))
    <3>1. Len(admitted[c]) \in Nat
      BY <1>1, <2>2, AdmissionTimes DEF WindowInvariant
    <3>2. IsFiniteSet(1..Len(admitted[c]))
      BY <3>1, FS_Interval
    <3> QED
      BY <3>2, FS_Subset
  <2>5. Cardinality(recent) <= Cardinality(Spent(t)) /\ Cardinality(Spent(t)) \in Nat
    BY <2>3, <2>4, FS_Subset, FS_CardinalityType
  <2>6. Cardinality(recent) >= Limit
    BY <2>1 DEF Refuse
  <2> QED
    BY <2>2, <2>5, <2>6, SettingsAssumption
<1>2. WindowInvariant /\ [Next]_vars =>
        [\A t \in Threads : Refused(t) => Cardinality(Spent(t)) >= Limit]_vars
  BY <1>1
<1> QED
  BY <1>2, WindowInvariantHolds, PTL DEF Spec, RefusedOnlyOverBudget
=============================================================================
