----------------------- MODULE JobImplementsContract -----------------------
(***************************************************************************)
(* JobLifecycle implements JobContract as long as a job is only ever run   *)
(* through one channel and nobody cancels it: the status column and the    *)
(* number of charged completions are the contract's two variables, and the *)
(* bill of a job is that of one execution: its routes, the rounds of the   *)
(* request loop and the retries of the provider client.  The runs that     *)
(* leave this envelope are listed in the README.                           *)
(***************************************************************************)
EXTENDS JobLifecycle

StatusColumn == [j \in Jobs |-> row[j].status]

Contract ==
    INSTANCE JobContract WITH Bill <- Routes * PerRoute, status <- StatusColumn, bought <- bought

\* Every step of a handler or a worker is a step of the contract or invisible
\* to a polling client (developer-guide.md 7-15).
ImplementsContractSafety == Contract!ContractSafety

\* ... and every submitted job is begun and settled.
ImplementsContract == Contract!ContractSpec
=============================================================================
