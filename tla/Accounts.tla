------------------------------ MODULE Accounts ------------------------------
(***************************************************************************)
(* The users table, the API process that seeds it when it starts           *)
(* (app/services/bootstrap.py), and POST /auth/register.                   *)
(*                                                                         *)
(* The table is looked up by role and by stored address; its unique index  *)
(* is on the stored address, letter by letter.  No code updates or deletes *)
(* a user, so a role that get_current_user has loaded stays what it is.    *)
(***************************************************************************)
EXTENDS Naturals

CONSTANTS
  Threads,      \* API threads, each serving one request at a time
  Mailboxes,    \* e-mail addresses, apart from their spelling
  AdminEmails,  \* values of settings.admin_email over the restarts
  MaxRestarts   \* bound: how often the API process stops

ASSUME RestartsAssumption == MaxRestarts \in Nat

VARIABLES
  users,       \* stored address -> users.role, or "none"
  api,         \* where the API process is in its start, or "up"
  adminEmail,  \* settings.admin_email of the process
  restarts,    \* how often it has stopped
  pc,          \* thread -> where its request is
  key,         \* thread -> the address or name its request is about
  role,        \* thread -> the role it registers
  answer       \* thread -> what its last request was answered

processVars == <<api, adminEmail, restarts>>
requestVars == <<pc, key, role, answer>>

Roles == {"ADMIN", "ANALYST", "VIEWER"}
NoKey == <<>>

ASSUME MailboxesAssumption == NoKey \notin Mailboxes

\* An address as it is spelled; get_user_by_email, create_user and the seed
\* apply lower().strip().
Spellings == Mailboxes \X {"lower", "other"}
Normal(email) == <<email[1], "lower">>

ASSUME AdminEmailsAssumption == AdminEmails \subseteq Spellings /\ AdminEmails # {}

UserExists(email) == users[email] # "none"

\* get_current_user and require_roles: the account behind the token has one of
\* the roles. Refusals (401, 403) change nothing and have no action.
Allowed(a, roles) == users[a] \in roles

\* A request that passed its checks begins with its first lookup still to come.
Begin(t, place, k) ==
  /\ api = "up"
  /\ pc[t] = "idle"
  /\ pc' = [pc EXCEPT ![t] = place]
  /\ key' = [key EXCEPT ![t] = k]
  /\ answer' = [answer EXCEPT ![t] = "none"]

Answered(t, result) ==
  /\ pc' = [pc EXCEPT ![t] = "idle"]
  /\ key' = [key EXCEPT ![t] = NoKey]
  /\ role' = [role EXCEPT ![t] = "none"]
  /\ answer' = [answer EXCEPT ![t] = result]

-----------------------------------------------------------------------------
(* Slips the properties must catch. They are no part of the specification. *)

\* The seed looks for the account of ADMIN_EMAIL, not for an admin.
CheckAdminAccount ==
  /\ api = "seed"
  /\ api' = IF UserExists(Normal(adminEmail)) THEN "recover" ELSE "insertAdmin"
  /\ UNCHANGED <<users, adminEmail, restarts, requestVars>>

\* The seed is made whatever the table holds.
SeedAlways ==
  /\ api = "seed"
  /\ api' = "insertAdmin"
  /\ UNCHANGED <<users, adminEmail, restarts, requestVars>>

\* create_user stores the address as it is spelled.
InsertAsSpelled(t) ==
  /\ pc[t] = "insertUser"
  /\ \/ /\ ~UserExists(key[t])
        /\ users' = [users EXCEPT ![key[t]] = role[t]]
        /\ Answered(t, "userCreated")
     \/ /\ UserExists(key[t])
        /\ UNCHANGED users
        /\ Answered(t, "userClash")
  /\ UNCHANGED processVars

\* ix_users_email is not unique.
InsertUnindexed(t) ==
  /\ pc[t] = "insertUser"
  /\ users' = [users EXCEPT ![Normal(key[t])] = role[t]]
  /\ Answered(t, "userCreated")
  /\ UNCHANGED processVars

-----------------------------------------------------------------------------
(* The API process *)

\* The entrypoint has migrated the database, and the process reads its settings.
StartApi ==
  /\ api = "down"
  /\ api' = "seed"
  /\ adminEmail' \in AdminEmails
  /\ UNCHANGED <<users, restarts, requestVars>>

\* seed_admin_user does nothing once there is an ADMIN.
CheckAdmin ==
  /\ api = "seed"
  /\ api' = IF \E s \in Spellings : users[s] = "ADMIN" THEN "recover" ELSE "insertAdmin"
  /\ UNCHANGED <<users, adminEmail, restarts, requestVars>>

\* An address that is taken would end the start, and every later one: SeedSucceeds.
InsertAdmin ==
  /\ api = "insertAdmin"
  /\ ~UserExists(Normal(adminEmail))
  /\ users' = [users EXCEPT ![Normal(adminEmail)] = "ADMIN"]
  /\ api' = "recover"
  /\ UNCHANGED <<adminEmail, restarts, requestVars>>

\* recover_pending_jobs is over (ScanRecovery), and the application serves.
Serve ==
  /\ api = "recover"
  /\ api' = "up"
  /\ UNCHANGED <<users, adminEmail, restarts, requestVars>>

\* The process stops wherever it is; what is not committed is lost.
StopApi ==
  /\ api # "down"
  /\ restarts < MaxRestarts
  /\ restarts' = restarts + 1
  /\ api' = "down"
  /\ pc' = [t \in Threads |-> "idle"]
  /\ key' = [t \in Threads |-> NoKey]
  /\ role' = [t \in Threads |-> "none"]
  /\ answer' = [t \in Threads |-> "none"]
  /\ UNCHANGED <<users, adminEmail>>

-----------------------------------------------------------------------------
(* POST /auth/register *)

\* An admin asks, with a password the policy accepts.
StartRegister(t, a, email, newRole) ==
  /\ Allowed(a, {"ADMIN"})
  /\ Begin(t, "checkUser", email)
  /\ role' = [role EXCEPT ![t] = newRole]
  /\ UNCHANGED <<users, processVars>>

\* get_user_by_email: 409 when there is one.
CheckUser(t) ==
  /\ pc[t] = "checkUser"
  /\ \/ /\ UserExists(Normal(key[t]))
        /\ Answered(t, "userConflict")
     \/ /\ ~UserExists(Normal(key[t]))
        /\ pc' = [pc EXCEPT ![t] = "insertUser"]
        /\ UNCHANGED <<key, role, answer>>
  /\ UNCHANGED <<users, processVars>>

\* create_user: the unique index refuses an address that has been taken since,
\* and nothing handles the IntegrityError (500).
InsertUser(t) ==
  /\ pc[t] = "insertUser"
  /\ \/ /\ ~UserExists(Normal(key[t]))
        /\ users' = [users EXCEPT ![Normal(key[t])] = role[t]]
        /\ Answered(t, "userCreated")
     \/ /\ UserExists(Normal(key[t]))
        /\ UNCHANGED users
        /\ Answered(t, "userClash")
  /\ UNCHANGED processVars

AccountsInit ==
  /\ users = [s \in Spellings |-> "none"]
  /\ api = "down"
  /\ adminEmail \in AdminEmails
  /\ restarts = 0
  /\ pc = [t \in Threads |-> "idle"]
  /\ key = [t \in Threads |-> NoKey]
  /\ role = [t \in Threads |-> "none"]
  /\ answer = [t \in Threads |-> "none"]

ProcessStep == StartApi \/ CheckAdmin \/ InsertAdmin \/ Serve

RegisterStep(t) == CheckUser(t) \/ InsertUser(t)
=============================================================================
