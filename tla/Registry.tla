------------------------------ MODULE Registry ------------------------------
(***************************************************************************)
(* What a client of POST /auth/register or POST /domains may rely on: a    *)
(* table that enters a key at most once, each request taking effect at one *)
(* moment between its start and its answer.                                *)
(***************************************************************************)
CONSTANTS Clients, Keys, NoKey

VARIABLES
  entries,  \* the keys the table holds
  asked,    \* client -> the key it asks to enter, or NoKey
  outcome   \* client -> what its last request came to, once it is answered

registryVars == <<entries, asked, outcome>>

RegistryInit ==
  /\ entries = {}
  /\ asked = [c \in Clients |-> NoKey]
  /\ outcome = [c \in Clients |-> "none"]

Ask(c, k) ==
  /\ asked[c] = NoKey
  /\ asked' = [asked EXCEPT ![c] = k]
  /\ outcome' = [outcome EXCEPT ![c] = "none"]
  /\ UNCHANGED entries

Answer(c, result) ==
  /\ asked[c] # NoKey
  /\ asked' = [asked EXCEPT ![c] = NoKey]
  /\ outcome' = [outcome EXCEPT ![c] = result]

\* A key that is free is entered for one client.
Accept(c) ==
  /\ asked[c] \notin entries
  /\ entries' = entries \cup {asked[c]}
  /\ Answer(c, "accepted")

\* A client is refused only a key the table holds.
Refuse(c) ==
  /\ asked[c] \in entries
  /\ Answer(c, "refused")
  /\ UNCHANGED entries

\* The table's owner enters a key of its own, or removes one.
Enter(k) ==
  /\ k \notin entries
  /\ entries' = entries \cup {k}
  /\ UNCHANGED <<asked, outcome>>

Remove(k) ==
  /\ entries' = entries \ {k}
  /\ UNCHANGED <<asked, outcome>>

\* Clients turn to something else, or the server stops and answers none of them.
Leave(gone) ==
  /\ asked' = [c \in Clients |-> IF c \in gone THEN NoKey ELSE asked[c]]
  /\ outcome' = [c \in Clients |-> IF c \in gone THEN "none" ELSE outcome[c]]
  /\ UNCHANGED entries

RegistryNext ==
  \/ \E c \in Clients, k \in Keys : Ask(c, k)
  \/ \E c \in Clients : Accept(c) \/ Refuse(c)
  \/ \E k \in Keys : Enter(k) \/ Remove(k)
  \/ \E gone \in SUBSET Clients : Leave(gone)

RegistrySpec == RegistryInit /\ [][RegistryNext]_registryVars
=============================================================================
