---------------------------- MODULE ScanLifecycle ----------------------------
(***************************************************************************)
(* What discovery promises to someone who only reads the scan history of a *)
(* domain (GET /domains/{id}/scans): every scan is PENDING, then RUNNING,  *)
(* then finished for good; scans of one domain run one at a time; a scan   *)
(* asked for by hand is admitted only when none is under way; a deleted    *)
(* domain leaves nothing.  No worker, job, retry, lock or restart appears. *)
(*                                                                         *)
(* Nothing in the database stops two worker processes that read the same   *)
(* rows at the same time, so there are two exceptions, and no other: scans *)
(* that were rivals may run together, and a duplicated scan may run again. *)
(***************************************************************************)
EXTENDS Naturals

CONSTANTS Domains, MaxScans

VARIABLES
  live,       \* domain id -> "new", "live" or "deleted"
  owed,       \* domain id -> creations whose first scan is still to come
  history,    \* domain id -> number of scans ever created for it
  status,     \* scan id -> its status, "NONE" when there is no such scan
  rivals,     \* pairs of scans that two processes were about to start at once
  duplicated  \* scans that two processes have worked on at once

lifecycleVars == <<live, owed, history, status, rivals, duplicated>>

Scans(d) == {<<d, n>> : n \in 1..MaxScans}
Rows == Domains \X (1..MaxScans)

Ended(s) == status[s] \in {"COMPLETED", "FAILED"}

\* A scan is under way for all who ask unless it was duplicated.
UnderWay(d) == \E s \in Scans(d) \ duplicated : status[s] \in {"PENDING", "RUNNING"}

LifecycleInit ==
  /\ live = [d \in Domains |-> "new"]
  /\ owed = [d \in Domains |-> FALSE]
  /\ history = [d \in Domains |-> 0]
  /\ status = [s \in Rows |-> "NONE"]
  /\ rivals = {}
  /\ duplicated = {}

Register(d) ==
  /\ live[d] = "new"
  /\ live' = [live EXCEPT ![d] = "live"]
  /\ owed' = [owed EXCEPT ![d] = TRUE]
  /\ UNCHANGED <<history, status, rivals, duplicated>>

NewScan(d) ==
  /\ live[d] = "live"
  /\ history[d] < MaxScans
  /\ history' = [history EXCEPT ![d] = @ + 1]
  /\ status' = [status EXCEPT ![<<d, history[d] + 1>>] = "PENDING"]
  /\ UNCHANGED <<live, rivals, duplicated>>

\* The first scan of a domain comes with its creation, whatever else goes on.
FirstScan(d) ==
  /\ owed[d]
  /\ NewScan(d)
  /\ owed' = [owed EXCEPT ![d] = FALSE]

Trigger(d) ==
  /\ ~UnderWay(d)
  /\ NewScan(d)
  /\ UNCHANGED owed

Start(s) ==
  /\ status[s] = "PENDING" \/ (s \in duplicated /\ Ended(s))
  /\ \A t \in Scans(s[1]) \ {s} : status[t] = "RUNNING" => <<s, t>> \in rivals
  /\ status' = [status EXCEPT ![s] = "RUNNING"]
  /\ UNCHANGED <<live, owed, history, rivals, duplicated>>

Finish(s) ==
  /\ status[s] = "RUNNING" \/ (s \in duplicated /\ Ended(s))
  /\ \E outcome \in {"COMPLETED", "FAILED"} : status' = [status EXCEPT ![s] = outcome]
  /\ UNCHANGED <<live, owed, history, rivals, duplicated>>

\* Two processes are about to start scans of the domain at once.
Meet(d) ==
  /\ rivals \subseteq rivals'
  /\ rivals' \ rivals \subseteq Scans(d) \X Scans(d)
  /\ UNCHANGED <<live, owed, history, status, duplicated>>

\* Two processes have a scan in hand that has not ended.
Duplicate(s) ==
  /\ status[s] \in {"PENDING", "RUNNING"}
  /\ duplicated' = duplicated \cup {s}
  /\ UNCHANGED <<live, owed, history, status, rivals>>

Delete(d) ==
  /\ live[d] = "live"
  /\ live' = [live EXCEPT ![d] = "deleted"]
  /\ status' = [s \in Rows |-> IF s[1] = d THEN "NONE" ELSE status[s]]
  /\ UNCHANGED <<owed, history, rivals, duplicated>>

\* A creation overtaken by the deletion of its domain owes nothing any more.
Forgive(d) ==
  /\ owed[d]
  /\ live[d] = "deleted"
  /\ owed' = [owed EXCEPT ![d] = FALSE]
  /\ UNCHANGED <<live, history, status, rivals, duplicated>>

LifecycleNext ==
  \/ \E d \in Domains : Register(d) \/ FirstScan(d) \/ Trigger(d) \/ Delete(d) \/ Forgive(d)
                          \/ Meet(d)
  \/ \E s \in Rows : Start(s) \/ Finish(s) \/ Duplicate(s)

LifecycleSpec == LifecycleInit /\ [][LifecycleNext]_lifecycleVars
=============================================================================
