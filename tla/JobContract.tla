----------------------------- MODULE JobContract -----------------------------
(***************************************************************************)
(* The job contract of docs/developer-guide.md section 1, as a client that *)
(* polls GET /v1/jobs/{id} sees it: a job is submitted as queued, runs, and*)
(* is polled until it is completed, failed or canceled.  What a client is  *)
(* charged for is part of the contract: completions are bought only while  *)
(* the job runs, and Bill bounds their number.                             *)
(***************************************************************************)
EXTENDS Naturals

CONSTANTS
    Jobs,   \* the identifiers of jobs
    Bill    \* the most completions a job may be charged for

VARIABLES status, bought

contractVars == <<status, bought>>

Final == {"completed", "failed", "canceled"}

ContractTypeOK ==
    /\ status \in [Jobs -> {"absent", "queued", "running"} \cup Final]
    /\ bought \in [Jobs -> 0..Bill]

ContractInit ==
    /\ status = [j \in Jobs |-> "absent"]
    /\ bought = [j \in Jobs |-> 0]

Submit(j) ==
    /\ status[j] = "absent"
    /\ status' = [status EXCEPT ![j] = "queued"]
    /\ UNCHANGED bought

Begin(j) ==
    /\ status[j] = "queued"
    /\ status' = [status EXCEPT ![j] = "running"]
    /\ UNCHANGED bought

Buy(j) ==
    /\ status[j] = "running"
    /\ bought[j] < Bill
    /\ bought' = [bought EXCEPT ![j] = @ + 1]
    /\ UNCHANGED status

Settle(j, outcome) ==
    /\ status[j] = "running"
    /\ status' = [status EXCEPT ![j] = outcome]
    /\ UNCHANGED bought

ContractNext ==
    \E j \in Jobs :
        \/ Submit(j) \/ Begin(j) \/ Buy(j)
        \/ \E outcome \in {"completed", "failed"} : Settle(j, outcome)

\* A submitted job is eventually begun and settled.
ContractFairness ==
    \A j \in Jobs :
        /\ WF_contractVars(Begin(j))
        /\ WF_contractVars(\E outcome \in {"completed", "failed"} : Settle(j, outcome))

ContractSafety == ContractInit /\ [][ContractNext]_contractVars
ContractSpec == ContractSafety /\ ContractFairness
=============================================================================
