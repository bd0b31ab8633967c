----------------------------- MODULE LeasedJob -----------------------------
(***************************************************************************)
(* What the gateway promises about a durable background job, whatever      *)
(* crashes, expires or races underneath: a submitted job is attempted in   *)
(* numbered epochs, an outcome is recorded once, it is the outcome of the  *)
(* newest epoch, and from then on the job never changes again.             *)
(*                                                                         *)
(* Action runs (actions.rs) and Hub imports (hub.rs) implement it.         *)
(***************************************************************************)
EXTENDS Naturals

CONSTANTS Job,        \* the jobs that may ever be submitted
          Outcome     \* the terminal outcomes

VARIABLES phase,      \* phase[j]: how far job j has come
          epoch,      \* epoch[j]: how often job j has been claimed
          outcome     \* outcome[j]: what was recorded, and by which epoch

vars == <<phase, epoch, outcome>>

Phase == {"absent", "queued", "running", "done"}

\* Nothing recorded yet.
NoOutcome == [epoch |-> 0, result |-> "none"]

TypeOK ==
  /\ phase \in [Job -> Phase]
  /\ epoch \in [Job -> Nat]
  /\ outcome \in [Job -> [epoch : Nat, result : Outcome \cup {"none"}]]

\* A job may predate the lease columns: it was never claimed in an epoch.
Init ==
  /\ phase \in [Job -> {"absent", "queued", "running"}]
  /\ epoch = [j \in Job |-> 0]
  /\ outcome = [j \in Job |-> NoOutcome]

Submit(j) ==
  /\ phase[j] = "absent"
  /\ phase' = [phase EXCEPT ![j] = "queued"]
  /\ UNCHANGED <<epoch, outcome>>

\* A first claim, or a take-over from a claimant that lost its lease.
Claim(j) ==
  /\ phase[j] \in {"queued", "running"}
  /\ phase' = [phase EXCEPT ![j] = "running"]
  /\ epoch' = [epoch EXCEPT ![j] = @ + 1]
  /\ UNCHANGED outcome

Complete(j, res) ==
  /\ phase[j] = "running"
  /\ phase' = [phase EXCEPT ![j] = "done"]
  /\ outcome' = [outcome EXCEPT ![j] = [epoch |-> epoch[j], result |-> res]]
  /\ UNCHANGED epoch

\* A job that cannot be attempted at all, being unreadable, is given up.
Refuse(j, res) ==
  /\ phase[j] \in {"queued", "running"}
  /\ epoch[j] = 0
  /\ phase' = [phase EXCEPT ![j] = "done"]
  /\ outcome' = [outcome EXCEPT ![j] = [epoch |-> 0, result |-> res]]
  /\ UNCHANGED epoch

Next ==
  \E j \in Job : \/ Submit(j)
                 \/ Claim(j)
                 \/ \E res \in Outcome : Complete(j, res) \/ Refuse(j, res)

Spec == Init /\ [][Next]_vars

=============================================================================
