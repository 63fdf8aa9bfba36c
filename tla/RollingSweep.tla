---------------------------- MODULE RollingSweep ----------------------------
(***************************************************************************)
(* What the host-upgrade orchestrator promises its operator, whatever the  *)
(* daemon goes through: the hosts of all its jobs are taken one at a time, *)
(* each at most once, and a host that is settled stays settled.            *)
(***************************************************************************)
CONSTANT Hosts

VARIABLE phase  \* [Hosts -> Phase]

Phase == {"none", "waiting", "working", "settled"}

TypeOK == phase \in [Hosts -> Phase]

Init == phase = [h \in Hosts |-> "none"]

\* The hosts of a new job.
Enlist(S) ==
  /\ \A h \in S : phase[h] = "none"
  /\ phase' = [h \in Hosts |-> IF h \in S THEN "waiting" ELSE phase[h]]

\* A host is taken only while no other is being worked on.
Begin(h) ==
  /\ phase[h] = "waiting"
  /\ \A other \in Hosts : phase[other] # "working"
  /\ phase' = [phase EXCEPT ![h] = "working"]

\* A host is done with, or hosts are given up together when their job ends.
Settle(S) ==
  /\ \A h \in S : phase[h] \in {"waiting", "working"}
  /\ phase' = [h \in Hosts |-> IF h \in S THEN "settled" ELSE phase[h]]

Next ==
  \/ \E S \in SUBSET Hosts : Enlist(S) \/ Settle(S)
  \/ \E h \in Hosts : Begin(h)

Spec == Init /\ [][Next]_phase
=============================================================================
