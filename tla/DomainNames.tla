----------------------------- MODULE DomainNames -----------------------------
(***************************************************************************)
(* The names of the domains table: POST /domains up to the insert of its   *)
(* row, and DELETE /domains/{id}.  What becomes of the domain's scans is   *)
(* in ScanApi.                                                             *)
(***************************************************************************)
EXTENDS Accounts, Fqdn

CONSTANTS
  RawNames,   \* what clients send as a domain name
  MaxDomains  \* bound: domain rows ever inserted

ASSUME DomainsAssumption ==
  /\ MaxDomains \in Nat
  /\ IsFiniteSet(Threads)
  /\ \A raw \in RawNames : raw \in Seq(Chars)

VARIABLES
  names,     \* domain id -> domains.name, or NoName while there is no row
  author,    \* domain id -> domains.created_by
  inserted,  \* number of domain rows ever inserted
  actor,     \* thread -> the account that creates a domain
  meant      \* thread -> the name its client means (a history variable)

domainVars == <<names, author, inserted>>
createVars == <<actor, meant>>
vars == <<users, processVars, requestVars, domainVars, createVars>>

\* Ids in order of insertion; an id is used once (uuid4).
Ids == 1..MaxDomains
NoName == <<>>

NameTaken(name) == \E i \in Ids : names[i] = name

\* What the code makes of the texts clients send, and what the clients mean.
\* DomainCreateRequest limits the text as it was sent: one of more than NameMax
\* characters is a 422, even if only a dot or blanks at its end are too many. That
\* refusal changes nothing and has no action.
Readings ==
  {[name |-> Validated(raw), meant |-> Meaning(raw)] :
     raw \in {r \in RawNames : Len(r) \in 1..NameMax}}

Forget(t) ==
  /\ actor' = [actor EXCEPT ![t] = NoKey]
  /\ meant' = [meant EXCEPT ![t] = NoName]

\* The requests under way that may insert a row.
Creators == {t \in Threads : pc[t] \in {"checkName", "insertName"}}

\* A request that is let in has an id left for its row.
IdsLeft == inserted + Cardinality(Creators) < MaxDomains

InsertRow(t) ==
  /\ inserted' = inserted + 1
  /\ names' = [names EXCEPT ![inserted + 1] = key[t]]
  /\ author' = [author EXCEPT ![inserted + 1] = actor[t]]
  /\ Answered(t, "domainCreated")

-----------------------------------------------------------------------------
(* Slips the properties must catch. They are no part of the specification. *)

\* ix_domains_name is not unique.
InsertNameUnindexed(t) ==
  /\ pc[t] = "insertName"
  /\ InsertRow(t)
  /\ Forget(t)
  /\ UNCHANGED <<users, processVars>>

-----------------------------------------------------------------------------
(* POST /domains *)

\* The name is valid, and its lookup still to come.
StartCreate(t, a, reading) ==
  /\ Allowed(a, {"ADMIN", "ANALYST"})
  /\ reading.name # NotAName
  /\ IdsLeft
  /\ Begin(t, "checkName", reading.name)
  /\ actor' = [actor EXCEPT ![t] = a]
  /\ meant' = [meant EXCEPT ![t] = reading.meant]
  /\ UNCHANGED <<users, processVars, role, domainVars>>

\* Invalid FQDN: 400.
RefuseName(t, a, reading) ==
  /\ Allowed(a, {"ADMIN", "ANALYST"})
  /\ api = "up"
  /\ pc[t] = "idle"
  /\ reading.name = NotAName
  /\ Answered(t, "nameInvalid")
  /\ meant' = [meant EXCEPT ![t] = reading.meant]
  /\ UNCHANGED <<users, processVars, domainVars, actor>>

\* get_domain_by_name: 409 when there is one.
CheckName(t) ==
  /\ pc[t] = "checkName"
  /\ \/ /\ NameTaken(key[t])
        /\ Answered(t, "nameConflict")
        /\ Forget(t)
     \/ /\ ~NameTaken(key[t])
        /\ pc' = [pc EXCEPT ![t] = "insertName"]
        /\ UNCHANGED <<key, role, answer, createVars>>
  /\ UNCHANGED <<users, processVars, domainVars>>

\* create_domain: the unique index refuses a name that has been taken since (500).
InsertName(t) ==
  /\ pc[t] = "insertName"
  /\ \/ /\ ~NameTaken(key[t])
        /\ InsertRow(t)
     \/ /\ NameTaken(key[t])
        /\ Answered(t, "nameClash")
        /\ UNCHANGED domainVars
  /\ Forget(t)
  /\ UNCHANGED <<users, processVars>>

-----------------------------------------------------------------------------
(* DELETE /domains/{id} *)

\* get_domain_by_id finds the row (else 404, which changes nothing).
StartDelete(t, a, i) ==
  /\ Allowed(a, {"ADMIN"})
  /\ names[i] # NoName
  /\ Begin(t, "deleteRow", <<i>>)
  /\ Forget(t)
  /\ UNCHANGED <<users, processVars, role, domainVars>>

\* The row is deleted by its id. Another request may have deleted it before: the
\* ORM warns that no row matched, and the answer is 204 all the same.
DeleteRow(t) ==
  /\ pc[t] = "deleteRow"
  /\ names' = [names EXCEPT ![key[t][1]] = NoName]
  /\ author' = [author EXCEPT ![key[t][1]] = NoKey]
  /\ Answered(t, "domainDeleted")
  /\ UNCHANGED <<users, processVars, inserted, createVars>>

DomainNamesInit ==
  /\ names = [i \in Ids |-> NoName]
  /\ author = [i \in Ids |-> NoKey]
  /\ inserted = 0
  /\ actor = [t \in Threads |-> NoKey]
  /\ meant = [t \in Threads |-> NoName]

NameStep(t) == CheckName(t) \/ InsertName(t) \/ DeleteRow(t)
=============================================================================
