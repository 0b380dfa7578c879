---------------------------- MODULE MCDeployments ----------------------------
(***************************************************************************)
(* Instances of Deployments for TLC: a verified deployment, an endpoint    *)
(* that has nothing yet or a version of it, and perhaps a deployment that  *)
(* nothing uses.                                                           *)
(***************************************************************************)
EXTENDS Deployments, TLC

CONSTANTS c1, c2, m1, m2, t1, t2, v1, a1, b1

Bound == [live |-> "live", conn |-> c1, model |-> m1, active |-> TRUE, verified |-> TRUE]

First == [live |-> "live", n |-> 1, target |-> t1, model |-> m1, pin |-> NoConn,
          persona |-> a1, blocks |-> {b1}]

MCFresh == [target |-> [t \in Targets |-> IF t = t1 THEN Bound ELSE FreeTarget],
            version |-> [v \in Versions |-> FreeVersion], active |-> NoVersion,
            persona |-> [a \in Personas |-> "free"], block |-> [b \in Blocks |-> "free"]]

MCServing == [MCFresh EXCEPT !.version[v1] = First, !.active = v1,
                               !.persona = [a \in Personas |-> "live"],
                               !.block = [b \in Blocks |-> "live"]]

Ask(t, m, c, a, B) ==
    [form |-> [target |-> t, model |-> m, pin |-> c], persona |-> a, blocks |-> B]

MCAsks == {Ask(t1, AnyModel, NoConn, a1, {b1}), Ask(t2, AnyModel, c2, NoPersona, {}),
           Ask(NoTarget, m2, c2, NoPersona, {b1}), Ask(NoTarget, m1, NoConn, a1, {})}

MCSpare == [MCServing EXCEPT !.version[v1].persona = NoPersona,
                             !.target[t2] = [Bound EXCEPT !.model = m2, !.verified = FALSE]]

MCStarts == {MCFresh, MCServing, MCSpare}

Symmetry == Permutations(Threads)
=============================================================================
