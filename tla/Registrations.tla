---------------------------- MODULE Registrations ----------------------------
(***************************************************************************)
(* The two tables whose keys clients choose, users by address and domains  *)
(* by name, behind one API process that stops and starts.                  *)
(***************************************************************************)
EXTENDS DomainNames

Init == AccountsInit /\ DomainNamesInit

Process ==
  /\ ProcessStep
  /\ UNCHANGED <<domainVars, createVars>>

Stop ==
  /\ StopApi
  /\ actor' = [t \in Threads |-> NoKey]
  /\ meant' = [t \in Threads |-> NoName]
  /\ UNCHANGED domainVars

Register(t) ==
  /\ \/ \E a, email \in Spellings, newRole \in Roles : StartRegister(t, a, email, newRole)
     \/ RegisterStep(t)
  /\ Forget(t)
  /\ UNCHANGED domainVars

Create(t) ==
  \E a \in Spellings, reading \in Readings :
    StartCreate(t, a, reading) \/ RefuseName(t, a, reading)

Delete(t) == \E a \in Spellings, i \in Ids : StartDelete(t, a, i)

Next ==
  \/ Process
  \/ Stop
  \/ \E t \in Threads : Register(t) \/ Create(t) \/ Delete(t) \/ NameStep(t)

Spec == Init /\ [][Next]_vars

-----------------------------------------------------------------------------

Answers ==
  {"none", "userCreated", "userConflict", "userClash", "nameInvalid", "domainCreated",
   "nameConflict", "nameClash", "domainDeleted"}

Places == {"idle", "checkUser", "insertUser", "checkName", "insertName", "deleteRow"}

\* A request under way has the key its place calls for.
KeyFits(t) ==
  /\ pc[t] = "idle" => key[t] = NoKey
  /\ pc[t] \in {"checkUser", "insertUser"} => key[t] \in Spellings /\ role[t] \in Roles
  /\ pc[t] \in {"checkName", "insertName"} => key[t] \in Seq(Chars) /\ actor[t] \in Spellings
  /\ pc[t] = "deleteRow" => \E i \in Ids : key[t] = <<i>>

\* Every variable stays in its range, and a request under way has its key.
TypeOK ==
  /\ users \in [Spellings -> Roles \cup {"none"}]
  /\ api \in {"down", "seed", "insertAdmin", "recover", "up"}
  /\ adminEmail \in AdminEmails
  /\ restarts \in 0..MaxRestarts
  /\ pc \in [Threads -> Places]
  /\ role \in [Threads -> Roles \cup {"none"}]
  /\ answer \in [Threads -> Answers]
  /\ inserted \in 0..MaxDomains
  /\ names \in [Ids -> Seq(Chars)]
  /\ author \in [Ids -> Spellings \cup {NoKey}]
  /\ actor \in [Threads -> Spellings \cup {NoKey}]
  /\ meant \in [Threads -> Seq(Chars)]
  /\ DOMAIN key = Threads
  /\ \A t \in Threads : KeyFits(t)

\* The seed of the bootstrap admin never meets an address that is taken, which
\* would keep the API from ever starting again, and whoever is served finds an
\* admin: over every restart and every change of ADMIN_EMAIL.
SeedSucceeds ==
  /\ api = "insertAdmin" => ~UserExists(Normal(adminEmail))
  /\ api = "up" => \E s \in Spellings : users[s] = "ADMIN"

\* However it is spelled, an address has at most one account, though the unique
\* index compares letter by letter.
OneAccountPerMailbox ==
  \A s, u \in Spellings : (UserExists(s) /\ UserExists(u) /\ s[1] = u[1]) => s = u

\* The domains table holds DNS names, each in the one spelling the code stores.
StoredNamesAreFqdns == \A i \in Ids : names[i] # NoName => WellFormed(names[i])

\* A client is told that its domain name is invalid (400) only if it is.
InvalidMeansMalformed == \A t \in Threads : answer[t] = "nameInvalid" => meant[t] = NotAName

-----------------------------------------------------------------------------
(* The inductive invariant *)

AdminExists == \E s \in Spellings : users[s] = "ADMIN"

\* Addresses are stored in one spelling.
StoredNormally == \A s \in Spellings : UserExists(s) => s = Normal(s)

\* The first account is an admin's, and no other is ever seeded.
AdminIsFirst ==
  /\ (\E s \in Spellings : UserExists(s)) => AdminExists
  /\ api = "insertAdmin" => ~AdminExists
  /\ api \in {"recover", "up"} => AdminExists

\* Requests are served while the process is up, and answered at their end.
ServedWhileUp == \A t \in Threads : pc[t] # "idle" => api = "up" /\ answer[t] = "none"

\* What the valid texts that clients send stand for.
Meanings == {reading.meant : reading \in Readings} \ {NotAName}

\* Who is about to insert a domain does so under the name its client means.
CreatorsKnow == \A t \in Creators : key[t] = meant[t] /\ meant[t] \in Meanings

\* Rows have ids that have been given out, an author, and names of their own.
RowsAreKeyed ==
  /\ \A i \in Ids :
       names[i] # NoName => i <= inserted /\ names[i] \in Meanings /\ author[i] \in Spellings
  /\ \A i, j \in Ids : (names[i] # NoName /\ names[i] = names[j]) => i = j

RoomLeft == inserted + Cardinality(Creators) <= MaxDomains

\* What every step preserves, and the other invariants follow from: no account
\* precedes the seeded admin, and the seed looks for an admin rather than for the
\* account of ADMIN_EMAIL; whoever waits to insert keeps the name its client means.
RegistrationInvariant ==
  /\ TypeOK
  /\ StoredNormally
  /\ AdminIsFirst
  /\ ServedWhileUp
  /\ CreatorsKnow
  /\ InvalidMeansMalformed
  /\ RowsAreKeyed
  /\ RoomLeft

-----------------------------------------------------------------------------
(* Check and insert are two transactions, and yet one registration *)

Outcome(t, accepted, refused) ==
  IF answer[t] = accepted THEN "accepted"
  ELSE IF answer[t] \in refused THEN "refused" ELSE "none"

Addresses == {s[1] : s \in {u \in Spellings : UserExists(u)}}
AskedAddress(t) == IF pc[t] \in {"checkUser", "insertUser"} THEN key[t][1] ELSE NoKey
AccountOutcome(t) == Outcome(t, "userCreated", {"userConflict", "userClash"})

UserRegistry == INSTANCE Registry WITH
  Clients <- Threads,
  Keys <- Mailboxes,
  NoKey <- NoKey,
  entries <- Addresses,
  asked <- [t \in Threads |-> AskedAddress(t)],
  outcome <- [t \in Threads |-> AccountOutcome(t)]

\* Registering an address enters it at most once and at one moment, whichever of
\* two racing requests the unique index stops.
AccountsAreARegistry == UserRegistry!RegistrySpec

DomainNameSet == {names[i] : i \in Ids} \ {NoName}
AskedName(t) == IF pc[t] \in {"checkName", "insertName"} THEN meant[t] ELSE NoName
CreationOutcome(t) == Outcome(t, "domainCreated", {"nameConflict", "nameClash"})

NameRegistry == INSTANCE Registry WITH
  Clients <- Threads,
  Keys <- Meanings,
  NoKey <- NoName,
  entries <- DomainNameSet,
  asked <- [t \in Threads |-> AskedName(t)],
  outcome <- [t \in Threads |-> CreationOutcome(t)]

\* So does creating a domain, for the name the client means, however it spells
\* it and while domains of that name are deleted.
NamesAreARegistry == NameRegistry!RegistrySpec
=============================================================================
