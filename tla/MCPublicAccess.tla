--------------------------- MODULE MCPublicAccess ---------------------------
(***************************************************************************)
(* Instances of PublicAccess for TLC: two keys, the local one and one that *)
(* a behaviour may start without, and three calls, two of which share an   *)
(* Idempotency-Key.                                                        *)
(***************************************************************************)
EXTENDS PublicAccess, TLC

CONSTANTS k0, k1, e1, e2, i1

MCPayloads == {[scopes |-> {e1, e2}, rate |-> 2, quota |-> 2],
               [scopes |-> {e1}, rate |-> 1, quota |-> 1]}

Call(id, op, k, e, idem) == [id |-> id, op |-> op, key |-> k, endpoint |-> e, idem |-> idem]

MCCalls == {Call(1, "job", k0, e1, i1), Call(2, "response", k0, e1, i1),
            Call(3, "batch", k1, e1, NoIdem)}

MCCrowds == {{c \in MCCalls : c.key = k0}, {c \in MCCalls : c.op # "response"}}

QuotaCalls == {Call(id, "batch", k0, e1, NoIdem) : id \in 1 .. 3}
QuotaCrowds == {QuotaCalls}

Symmetry == Permutations(Processes)
=============================================================================
