--------------------------- MODULE MCConnections ---------------------------
(* Instances of Connections for TLC.                                        *)
EXTENDS Connections, TLC

CONSTANTS root, child, c1, c2, r1

ParentOf == [t \in {root, child} |-> IF t = child THEN root ELSE NoTenant]
InheritsAll == [t \in {root, child} |-> TRUE]
\* Two connections of one provider at the child, one of another at its parent.
HomeOf == [c \in {c1, c2, r1} |-> IF c = r1 THEN root ELSE child]
SlugOfAll == [c \in {c1, c2, r1} |-> IF c = r1 THEN "azure" ELSE "openai"]
KeyNeeded == [s \in {"openai", "azure"} |-> TRUE]
NoPlatformKey == [s \in {"openai", "azure"} |-> FALSE]

Form(default, active, auth, clear, key) ==
    [default |-> default, active |-> active, auth |-> auth, clear |-> clear, key |-> key]

\* A first key, a save that takes the default and disables the connection, and
\* a change of the key alone.
Saves == {Form("keep", "yes", "tenant", FALSE, 1), Form("yes", "no", "none", TRUE, 1),
          Form("keep", "keep", "tenant", TRUE, 2)}

\* Settings: a new key for either mode, a change of mode alone, a cleared key.
Modal == {Form("keep", "keep", "platform", FALSE, 1), Form("keep", "keep", "tenant", FALSE, 0),
          Form("keep", "keep", "tenant", TRUE, 0), Form("keep", "keep", "tenant", FALSE, 1)}
Symmetry == Permutations(Threads)
=============================================================================
