----------------------- MODULE BatchImplementsContract -----------------------
(***************************************************************************)
(* The rows of a batch, read as the batch contract.                        *)
(***************************************************************************)
EXTENDS ProviderBatch

\* ProviderBatchOut.status, as is_terminal of the SDK reads it.
Phase == CASE batch.status = "absent" -> "absent"
           [] Closed                  -> "closed"
           [] OTHER                   -> "open"

Outcome == [j \in Jobs |-> IF jobs[j] = "queued" THEN "pending" ELSE jobs[j]]

Contract == INSTANCE BatchContract WITH Items <- Jobs, phase <- Phase, outcome <- Outcome

\* A batch without cancels, with one worker, ends once, together with all of its
\* items, as long as its client polls (provider_batches.py 614-902, sdk/client.py 251-271).
ImplementsContract == Contract!ContractSpec
=============================================================================
