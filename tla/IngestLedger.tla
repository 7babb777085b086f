---------------------------- MODULE IngestLedger ----------------------------
(***************************************************************************)
(* What durable ingestion promises to the rest of the system: a run per    *)
(* input that is opened, may fail and be reopened, and is published once   *)
(* and for good; and a site that shows a published run's snapshot, or the  *)
(* one it shipped with when a crawl found nothing.  No incomplete run is   *)
(* ever published as current data.                                         *)
(***************************************************************************)
CONSTANTS Input, None

VARIABLES
  ledger,  \* [Input -> {"absent", "open", "failed", "published"}]
  site     \* the run the site shows, None for the snapshot it shipped with

Init ==
  /\ ledger = [i \in Input |-> "absent"]
  /\ site = None

Open(i) ==
  /\ ledger[i] \in {"absent", "failed"}
  /\ ledger' = [ledger EXCEPT ![i] = "open"]
  /\ UNCHANGED site

Fail(i) ==
  /\ ledger[i] = "open"
  /\ ledger' = [ledger EXCEPT ![i] = "failed"]
  /\ UNCHANGED site

Publish(i) ==
  /\ ledger[i] = "open"
  /\ ledger' = [ledger EXCEPT ![i] = "published"]
  /\ UNCHANGED site

Deploy(i) ==
  /\ ledger[i] = "published"
  /\ site' = i
  /\ UNCHANGED ledger

Revert == site' = None /\ UNCHANGED ledger

Next ==
  \/ Revert
  \/ \E i \in Input : Open(i) \/ Fail(i) \/ Publish(i) \/ Deploy(i)

Spec == Init /\ [][Next]_<<ledger, site>>
=============================================================================
