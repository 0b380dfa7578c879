------------------------------ MODULE MCAccounts ------------------------------
(***************************************************************************)
(* Instances of Accounts for TLC: an owner and another user of the default *)
(* tenant, signed in on two browsers, a sub-tenant with one of its own,    *)
(* and a portal link.                                                      *)
(***************************************************************************)
EXTENDS Accounts, TLC

CONSTANTS t0, t1, t2, u1, u2, u3, l1, b1, b2, s1, e0, e1, e2, default, sub, more

Root == [live |-> "live", parent |-> NoTenant, open |-> TRUE, name |-> default]

Person(t, role, e) ==
    [live |-> "live", tenant |-> t, role |-> role, email |-> e, subject |-> NoSubject]

In(u, role, t, active) == [Assigned(u, role, t) EXCEPT !.active = active]

\* The default tenant with a sub-tenant.
Tree == [t \in Tenants |->
           CASE t = t0 -> Root
             [] t = t1 -> [Root EXCEPT !.parent = t0, !.name = sub]
             [] OTHER -> FreeTenant]

Portal == [l \in Links |->
             IF l = l1 THEN [FreeLink EXCEPT !.live = "live", !.tenant = t0, !.feedback = TRUE]
             ELSE FreeLink]

People(second) ==
    [u \in Users |-> CASE u = u1 -> Person(t0, "owner", e0)
                       [] u = u2 -> Person(t0, second, e1)
                       [] OTHER -> FreeUser]

Office(second) ==
    [tenant |-> Tree, user |-> People(second), link |-> Portal,
     cookie |-> [b \in Browsers |-> IF b = b1 THEN In(u1, "owner", t0, t0)
                                   ELSE In(u2, second, t0, t0)]]

\* Administrators of a tenant and of its sub-tenant, which has one of its own: out of
\* reach of the first, with MaxDepth 2.
Below == [Office("admin") EXCEPT
            !.user[u1].role = "admin", !.user[u2] = Person(t1, "admin", e1),
            !.tenant[t2] = [Root EXCEPT !.parent = t1, !.name = more],
            !.cookie[b1] = In(u1, "admin", t0, t1), !.cookie[b2] = In(u2, "admin", t1, t2)]

\* Two sessions of the owner at work in a sub-tenant without one.
Vacant == [Below EXCEPT
             !.user[u1].role = "owner", !.cookie[b1] = In(u1, "owner", t0, t1),
             !.cookie[b2] = In(u1, "owner", t0, t1)]

Review == [Office("viewer") EXCEPT
             !.cookie[b2] = [Empty EXCEPT !.link = l1, !.feedback = TRUE]]

MCStarts == {Office("owner"), Office("admin"), Below, Vacant, Review}

MCAsks == {[op |-> "create", role |-> "owner", email |-> e2],
           [op |-> "update", user |-> u1, role |-> "admin"],
           [op |-> "update", user |-> u2, role |-> "viewer"],
           [op |-> "update", user |-> u2, role |-> "owner"],
           [op |-> "delete", user |-> u1], [op |-> "delete", user |-> u2],
           [op |-> "password", user |-> u1],
           [op |-> "createTenant", parent |-> NoTenant, open |-> FALSE, name |-> more],
           [op |-> "createTenant", parent |-> t1, open |-> FALSE, name |-> more],
           [op |-> "updateTenant", tenant |-> t0, open |-> FALSE, name |-> more],
           [op |-> "deleteTenant", tenant |-> t1],
           [op |-> "createLink", feedback |-> FALSE],
           [op |-> "revokeLink", link |-> l1],
           [op |-> "review"]}

MCClaims == {[subject |-> s1, email |-> e0, name |-> default, role |-> "viewer"],
             [subject |-> s1, email |-> e2, name |-> sub, role |-> "owner"]}

Symmetry == Permutations(Threads)
=============================================================================
