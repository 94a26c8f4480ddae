---------------------------- MODULE LoginRateLimit ----------------------------
(***************************************************************************)
(* POST /auth/login and the sliding window that guards it (rate_limit.py): *)
(* a process-local table of attempts per client, shared by the API threads *)
(* under one lock.  The time of an attempt is read before the lock is      *)
(* taken, and a successful login clears its client after it has left the   *)
(* lock, so both may find that other threads have been there meanwhile.    *)
(***************************************************************************)
EXTENDS Naturals, Sequences, FiniteSets

CONSTANTS
  Threads,   \* API threads
  Clients,   \* values of client_ip
  Limit,     \* settings.login_rate_limit
  Window,    \* settings.login_rate_window_seconds
  MaxStall,  \* bound: ticks a thread waits between reading the clock and the lock
  MaxTime    \* bound: the last tick of the clock

ASSUME SettingsAssumption ==
  /\ Limit \in Nat
  /\ Window \in Nat
  /\ MaxStall \in Nat
  /\ MaxTime \in Nat

VARIABLES
  clock,     \* time.monotonic()
  pc,        \* thread -> where its request is
  client,    \* thread -> the key of its request
  now,       \* thread -> the time it has read
  admitted,  \* client -> admissions since it was last cleared, in order: the time
             \*   each recorded, and (history) the time at which it was recorded
  attempts   \* client -> its list in _attempts, as positions in admitted

vars == <<clock, pc, client, now, admitted, attempts>>

NoClient == "none"

\* Every variable stays in its range.
TypeOK ==
  /\ clock \in 0..MaxTime
  /\ pc \in [Threads -> {"idle", "lock", "login", "clear"}]
  /\ client \in [Threads -> Clients \cup {NoClient}]
  /\ now \in [Threads -> 0..MaxTime]
  /\ admitted \in [Clients -> Seq([stamp : 0..MaxTime, at : 0..MaxTime])]
  /\ attempts \in [Clients -> SUBSET Nat]
  /\ \A t \in Threads : pc[t] # "idle" => client[t] \in Clients

Goto(t, place) == pc' = [pc EXCEPT ![t] = place]

\* The answer is sent and the thread is free again.
Answer(t) ==
  /\ Goto(t, "idle")
  /\ client' = [client EXCEPT ![t] = NoClient]
  /\ now' = [now EXCEPT ![t] = 0]

-----------------------------------------------------------------------------
(* Slips the properties must catch. They are no part of the specification. *)

\* Old attempts are never dropped.
KeepEverything(c, time) == attempts[c]

\* An attempt is dropped one tick early.
ForgetEarly(c, time) == {i \in attempts[c] : time + 1 < admitted[c][i].stamp + Window}

\* len(stamps) > limit for len(stamps) >= limit.
AdmitOneMore(t) ==
  /\ pc[t] = "lock"
  /\ Cardinality({i \in attempts[client[t]] :
                    now[t] < admitted[client[t]][i].stamp + Window}) <= Limit
  /\ admitted' = [admitted EXCEPT ![client[t]] = Append(@, [stamp |-> now[t], at |-> clock])]
  /\ attempts' = [attempts EXCEPT ![client[t]] =
                    {i \in @ : now[t] < admitted[client[t]][i].stamp + Window}
                      \cup {Len(admitted[client[t]]) + 1}]
  /\ Goto(t, "login")
  /\ UNCHANGED <<clock, client, now>>

-----------------------------------------------------------------------------

Init ==
  /\ clock = 0
  /\ pc = [t \in Threads |-> "idle"]
  /\ client = [t \in Threads |-> NoClient]
  /\ now = [t \in Threads |-> 0]
  /\ admitted = [c \in Clients |-> <<>>]
  /\ attempts = [c \in Clients |-> {}]

\* enforce_login_rate_limit finds the client's key and reads the clock.
ReadClock(t, c) ==
  /\ pc[t] = "idle"
  /\ Goto(t, "lock")
  /\ client' = [client EXCEPT ![t] = c]
  /\ now' = [now EXCEPT ![t] = clock]
  /\ UNCHANGED <<clock, admitted, attempts>>

\* The attempts of c that are less than Window older than the given time.
Recent(c, time) == {i \in attempts[c] : time < admitted[c][i].stamp + Window}

\* Under the lock: fewer than Limit recent attempts, and this one is recorded.
Admit(t) ==
  LET c == client[t] IN
  /\ pc[t] = "lock"
  /\ Cardinality(Recent(c, now[t])) < Limit
  /\ admitted' = [admitted EXCEPT ![c] = Append(@, [stamp |-> now[t], at |-> clock])]
  /\ attempts' = [attempts EXCEPT ![c] = Recent(c, now[t]) \cup {Len(admitted[c]) + 1}]
  /\ Goto(t, "login")
  /\ UNCHANGED <<clock, client, now>>

\* Under the lock: the budget is spent, the answer is 429. The attempt itself is
\* not recorded.
Refuse(t) ==
  LET c == client[t] IN
  /\ pc[t] = "lock"
  /\ Cardinality(Recent(c, now[t])) >= Limit
  /\ attempts' = [attempts EXCEPT ![c] = Recent(c, now[t])]
  /\ Answer(t)
  /\ UNCHANGED <<clock, admitted>>

\* login_user raises 401, or issues a token.
LoginFails(t) ==
  /\ pc[t] = "login"
  /\ Answer(t)
  /\ UNCHANGED <<clock, admitted, attempts>>

LoginSucceeds(t) ==
  /\ pc[t] = "login"
  /\ Goto(t, "clear")
  /\ UNCHANGED <<clock, client, now, admitted, attempts>>

\* clear_client forgets the attempts of every thread of this client.
ClearClient(t) ==
  /\ pc[t] = "clear"
  /\ admitted' = [admitted EXCEPT ![client[t]] = <<>>]
  /\ attempts' = [attempts EXCEPT ![client[t]] = {}]
  /\ Answer(t)
  /\ UNCHANGED clock

\* Time passes; a thread that has read the clock gets the lock within MaxStall.
Tick ==
  /\ clock < MaxTime
  /\ \A t \in Threads : pc[t] = "lock" => clock < now[t] + MaxStall
  /\ clock' = clock + 1
  /\ UNCHANGED <<pc, client, now, admitted, attempts>>

Next ==
  \/ \E t \in Threads, c \in Clients : ReadClock(t, c)
  \/ \E t \in Threads : Admit(t) \/ Refuse(t) \/ LoginFails(t) \/ LoginSucceeds(t) \/ ClearClient(t)
  \/ Tick

Spec == Init /\ [][Next]_vars

-----------------------------------------------------------------------------

\* "Raise 429 if this client exceeded the login attempt budget": unless a login
\* succeeds in between, any Limit + 1 admissions of a client span a whole window,
\* less what a thread may lose between reading the clock and taking the lock.
BudgetPerWindow ==
  \A c \in Clients : \A i \in 1..Len(admitted[c]) :
    i + Limit <= Len(admitted[c]) =>
      admitted[c][i].at + Window <= admitted[c][i + Limit].at + MaxStall

Refused(t) == pc[t] = "lock" /\ pc'[t] = "idle"

\* Only admissions count: a client is refused only if it has been admitted Limit
\* times within the last window and no login of it has succeeded since. Neither a
\* refusal nor a thread with an old time in hand can prolong a client's wait.
RefusedOnlyOverBudget ==
  [][\A t \in Threads : Refused(t) =>
       Cardinality({i \in 1..Len(admitted[client[t]]) :
                      now[t] < admitted[client[t]][i].at + Window}) >= Limit]_vars

-----------------------------------------------------------------------------
(* The invariant the proofs rest on *)

\* An admission is recorded with a time at most MaxStall old, in order of time.
AdmissionsInOrder ==
  \A c \in Clients : \A i \in 1..Len(admitted[c]) :
    /\ admitted[c][i].stamp <= admitted[c][i].at
    /\ admitted[c][i].at <= admitted[c][i].stamp + MaxStall
    /\ admitted[c][i].at <= clock
    /\ \A j \in 1..i : admitted[c][j].at <= admitted[c][i].at

\* An attempt is dropped from the table only when its window is over.
DroppedAreOld ==
  \A c \in Clients :
    /\ attempts[c] \subseteq 1..Len(admitted[c])
    /\ \A i \in (1..Len(admitted[c])) \ attempts[c] : admitted[c][i].stamp + Window <= clock

\* A thread that waits for the lock read the clock at most MaxStall ago.
TimesAreFresh ==
  \A t \in Threads : pc[t] = "lock" => now[t] <= clock /\ clock <= now[t] + MaxStall

WindowInvariant ==
  /\ TypeOK
  /\ AdmissionsInOrder
  /\ DroppedAreOld
  /\ TimesAreFresh
  /\ BudgetPerWindow
=============================================================================
