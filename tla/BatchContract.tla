---------------------------- MODULE BatchContract ----------------------------
(***************************************************************************)
(* What POST /v1/endpoints/{id}/batches promises a client that polls       *)
(* GET /v1/batches/{id} until the batch is terminal: the batch ends, once, *)
(* and by then each of its items has an outcome that no longer changes.    *)
(***************************************************************************)
CONSTANT Items

VARIABLES phase, outcome

contractVars == <<phase, outcome>>

Outcomes == {"completed", "failed", "canceled"}

ContractTypeOK ==
    /\ phase \in {"absent", "open", "closed"}
    /\ outcome \in [Items -> {"pending"} \cup Outcomes]

ContractInit ==
    /\ phase = "absent"
    /\ outcome = [i \in Items |-> "pending"]

\* Outcomes already given are kept.
Keep == \A i \in Items : outcome[i] # "pending" => outcome'[i] = outcome[i]

Accept ==
    /\ phase = "absent"
    /\ phase' = "open"
    /\ UNCHANGED outcome

Settle ==
    /\ phase = "open"
    /\ outcome' \in [Items -> {"pending"} \cup Outcomes]
    /\ Keep
    /\ UNCHANGED phase

Close ==
    /\ phase = "open"
    /\ phase' = "closed"
    /\ outcome' \in [Items -> Outcomes]
    /\ Keep

ContractNext == Accept \/ Settle \/ Close

ContractSafety == ContractInit /\ [][ContractNext]_contractVars
ContractSpec == ContractSafety /\ WF_contractVars(Close)
=============================================================================
