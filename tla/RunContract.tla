----------------------------- MODULE RunContract -----------------------------
(***************************************************************************)
(* What the entity service promises about the life of a run, whatever the  *)
(* interleaving of web requests, celery tasks, worker deaths and           *)
(* redelivered messages:                                                   *)
(*   - a run is created, queued and started in that order, and never goes  *)
(*     back;                                                               *)
(*   - its comparison is launched at most once, and only once started;     *)
(*   - it gets an outcome only after the launch, or is rejected before it  *)
(*     was ever queued;                                                    *)
(*   - a deleted run never reappears.                                      *)
(* RunScheduler implements this specification.                             *)
(***************************************************************************)
EXTENDS Naturals

CONSTANT Run

VARIABLES
    phase,      \* phase[r]: the state column of the runs row, or its absence
    launches    \* launches[r]: how often the comparison of r was launched

contractVars == <<phase, launches>>

RunState == {"created", "queued", "running", "completed", "error"}
Phase    == RunState \union {"unposted", "deleted"}

ContractInit ==
    /\ phase = [r \in Run |-> "unposted"]
    /\ launches = [r \in Run |-> 0]

Create(r) ==
    /\ phase[r] = "unposted"
    /\ phase' = [phase EXCEPT ![r] = "created"]
    /\ UNCHANGED launches

Enqueue(S) ==
    /\ \A r \in S : phase[r] = "created"
    /\ phase' = [r \in Run |-> IF r \in S THEN "queued" ELSE phase[r]]
    /\ UNCHANGED launches

(* Runs of a project whose encodings cannot be compared fail before they   *)
(* are ever queued.                                                        *)
Reject(S) ==
    /\ \A r \in S : phase[r] \in {"created", "error"}
    /\ phase' = [r \in Run |-> IF r \in S THEN "error" ELSE phase[r]]
    /\ UNCHANGED launches

Begin(r) ==
    /\ phase[r] = "queued"
    /\ phase' = [phase EXCEPT ![r] = "running"]
    /\ UNCHANGED launches

Launch(r) ==
    /\ launches[r] = 0
    /\ phase[r] \notin {"unposted", "created", "queued"}
    /\ launches' = [launches EXCEPT ![r] = 1]
    /\ UNCHANGED phase

Conclude(r) ==
    /\ launches[r] = 1
    /\ phase[r] \in {"running", "completed", "error"}
    /\ \E outcome \in {"completed", "error"} :
          phase' = [phase EXCEPT ![r] = outcome]
    /\ UNCHANGED launches

Remove(r) ==
    /\ phase[r] \in RunState
    /\ phase' = [phase EXCEPT ![r] = "deleted"]
    /\ UNCHANGED launches

ContractNext ==
    \/ \E r \in Run : Create(r) \/ Begin(r) \/ Launch(r) \/ Conclude(r) \/ Remove(r)
    \/ \E S \in SUBSET Run : Enqueue(S) \/ Reject(S)

ContractSpec == ContractInit /\ [][ContractNext]_contractVars
==============================================================================
