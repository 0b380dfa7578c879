------------------------------- MODULE Accounts -------------------------------
(***************************************************************************)
(* Tenants, users, portal links, and the browser sessions that act on      *)
(* them.                                                                   *)
(*                                                                         *)
(* A session is a signed cookie.  A request works on a copy of it, checks  *)
(* it against the tables once, when it arrives, commits later, and its     *)
(* response overwrites the cookie with its copy, whatever other responses  *)
(* have written meanwhile; only a request that ends in a server error      *)
(* writes none.  The reads of a handler are one step, its commit another   *)
(* and its response a third.                                               *)
(*                                                                         *)
(* Passwords, display names and the CSRF token are not modelled: a         *)
(* password is right or wrong, and resetting it writes the user's row.     *)
(***************************************************************************)
EXTENDS Naturals, FiniteSets

CONSTANTS
    Tenants, NoTenant,   \* tenant identifiers, used once; none (NULL)
    Users, NoUser,       \* user identifiers, used once; none
    Links, NoLink,       \* portal link identifiers, used once; none
    Names, DefaultName,  \* tenant names; default_tenant_name
    Emails, LocalEmail,  \* addresses; local_auth_email
    Subjects, NoSubject, \* OIDC subjects; none
    Tokens, NoToken,     \* OIDC state, nonce and verifier of one login; none
    LocalRole,           \* local_auth_role
    LocalAuth,           \* local_auth_enabled
    SingleTenant,        \* single_tenant_mode
    AutoCreate,          \* oidc_auto_create_tenant
    MaxDepth,            \* tenant_hierarchy_max_depth
    Browsers, Threads,   \* browsers; threads of the API server
    Starts,              \* databases and cookies a behaviour may start from
    Asks, NoAsk,         \* what users of this instance ask for; nothing
    Claims,              \* what the identity provider says of those it signs in
    Faults,              \* faults of this instance
    MaxRequests          \* bound: requests in a behaviour

VARIABLES
    tenant,     \* tenants
    user,       \* users
    link,       \* portal_links
    cookie,     \* the session cookie of each browser
    sent,       \* logins the identity provider has not answered: browser and token
    thread,     \* what each request handler is doing
    news,       \* history: rows that others wrote since a request arrived
    requests    \* requests made so far (bounded by MaxRequests)

tables == <<tenant, user, link>>
vars == <<tables, cookie, sent, thread, news, requests>>

-----------------------------------------------------------------------------
(* Rows, sessions and requests.                                            *)

Life == {"free", "live", "gone"}
Roles == {"owner", "admin", "dev", "viewer"}

Tenant == [live: Life, parent: Tenants \cup {NoTenant}, open: BOOLEAN, name: Names]
User == [live: Life, tenant: Tenants \cup {NoTenant}, role: Roles, email: Emails,
         subject: Subjects \cup {NoSubject}]
PortalLink == [live: Life, tenant: Tenants \cup {NoTenant}, feedback: BOOLEAN,
               revoked: BOOLEAN, expired: BOOLEAN]

Session == [user: Users \cup {NoUser}, principal: Tenants \cup {NoTenant},
            active: Tenants \cup {NoTenant}, role: Roles, token: Tokens \cup {NoToken},
            link: Links \cup {NoLink}, feedback: BOOLEAN]

Empty == [user |-> NoUser, principal |-> NoTenant, active |-> NoTenant, role |-> "viewer",
          token |-> NoToken, link |-> NoLink, feedback |-> FALSE]

FreeTenant == [live |-> "free", parent |-> NoTenant, open |-> FALSE, name |-> DefaultName]
FreeUser == [live |-> "free", tenant |-> NoTenant, role |-> "viewer", email |-> LocalEmail,
             subject |-> NoSubject]
FreeLink == [live |-> "free", tenant |-> NoTenant, feedback |-> FALSE, revoked |-> FALSE,
             expired |-> FALSE]

Idle == [pc |-> "idle", browser |-> CHOOSE b \in Browsers : TRUE, came |-> Empty,
         sess |-> Empty, role |-> "viewer", ask |-> NoAsk, home |-> NoTenant,
         seen |-> NoUser, old |-> FreeUser, was |-> FreeTenant]

Start == [tenant: [Tenants -> Tenant], user: [Users -> User],
          link: [Links -> PortalLink], cookie: [Browsers -> Session]]

\* What a form or a body carries, as far as its handler goes by it.
Requested ==
    [op: {"create"}, role: Roles, email: Emails] \cup
    [op: {"update"}, user: Users, role: Roles] \cup
    [op: {"delete", "password"}, user: Users] \cup
    [op: {"createTenant"}, parent: Tenants \cup {NoTenant}, open: BOOLEAN, name: Names] \cup
    [op: {"updateTenant"}, tenant: Tenants, open: BOOLEAN, name: Names] \cup
    [op: {"deleteTenant"}, tenant: Tenants] \cup
    [op: {"createLink"}, feedback: BOOLEAN] \cup
    [op: {"revokeLink"}, link: Links] \cup
    [op: {"review"}]

ASSUME AccountsAssumption ==
    /\ Browsers # {} /\ Asks \subseteq Requested
    /\ NoTenant \notin Tenants /\ NoUser \notin Users /\ NoLink \notin Links
    /\ NoSubject \notin Subjects /\ NoToken \notin Tokens /\ NoAsk \notin Asks
    /\ DefaultName \in Names /\ LocalEmail \in Emails /\ LocalRole \in Roles
    /\ {LocalAuth, SingleTenant, AutoCreate} \subseteq BOOLEAN
    /\ MaxDepth \in Nat \ {0} /\ MaxRequests \in Nat
    /\ Starts \subseteq Start /\ Faults \subseteq {"restart"}
    /\ Claims \subseteq [subject: Subjects, email: Emails, name: Names, role: Roles]

\* A user belongs to a tenant (users.tenant_id is NOT NULL).  A cookie names a user and the
\* tenant it belongs to, or neither, and permits no more than its portal link does.
ASSUME StartsAssumption ==
    \A s \in Starts :
        /\ \A u \in Users : s.user[u].live # "free" => s.user[u].tenant \in Tenants
        /\ \A b \in Browsers :
              LET c == s.cookie[b]
              IN /\ c.user = NoUser => c.principal = NoTenant /\ c.active = NoTenant
                 /\ c.user # NoUser => /\ s.user[c.user].live # "free"
                                       /\ s.user[c.user].tenant = c.principal
                 /\ c.link # NoLink => /\ s.link[c.link].live # "free"
                                       /\ c.feedback => s.link[c.link].feedback

TenantsLive == {t \in Tenants : tenant[t].live = "live"}
UsersLive == {u \in Users : user[u].live = "live"}
UsersOf(t) == {u \in UsersLive : user[u].tenant = t}
Owners(t) == {u \in UsersOf(t) : user[u].role = "owner"}

NamedTenant(n) == {t \in TenantsLive : tenant[t].name = n}
WithEmail(t, e) == {u \in UsersOf(t) : user[u].email = e}
WithSubject(t, s) == {u \in UsersOf(t) : user[u].subject = s}
Fresh(S, table) == CHOOSE x \in S : table[x].live = "free"
Room(S, table) == \E x \in S : table[x].live = "free"

-----------------------------------------------------------------------------
(* The tenant tree.                                                        *)

Lineage(t) ==
    LET at[i \in 0..(MaxDepth - 1)] ==
          IF i = 0 THEN t
          ELSE IF at[i - 1] \in TenantsLive THEN tenant[at[i - 1]].parent ELSE NoTenant
    IN {at[i] : i \in 0..(MaxDepth - 1)} \cap TenantsLive

SameOrDescendant(top, t) == t = top \/ top \in Lineage(t)

-----------------------------------------------------------------------------
(* Sessions.                                                               *)

SignedIn(s) == s.user # NoUser

Valid(s) ==
    /\ SignedIn(s)
    /\ user[s.user].live = "live" /\ user[s.user].tenant = s.principal
    /\ SameOrDescendant(s.principal, s.active)

\* The session as the checks leave it: one that fails them is cleared.
Validated(s) == IF SignedIn(s) /\ ~Valid(s) THEN Empty ELSE s

\* Mutant of RoleOf: the role the user had on signing in.
RoleOfCookie(s) == s.role

RoleOf(s) == user[s.user].role

Assigned(u, role, t) ==
    [Empty EXCEPT !.user = u, !.principal = t, !.active = t, !.role = role]

\* Mutant of Cleared: only the user's id leaves the session.
ClearedUser(s) == [s EXCEPT !.user = NoUser]

Cleared(s) == Empty

PortalOpen(s) ==
    /\ s.link # NoLink
    /\ link[s.link].live = "live" /\ ~link[s.link].revoked /\ ~link[s.link].expired

PortalCleared(s) == [s EXCEPT !.link = NoLink, !.feedback = FALSE]

-----------------------------------------------------------------------------
Init ==
    /\ \E s \in Starts :
         tenant = s.tenant /\ user = s.user /\ link = s.link /\ cookie = s.cookie
    /\ sent = {}
    /\ thread = [p \in Threads |-> Idle]
    /\ news = [p \in Threads |-> {}]
    /\ requests = 0

\* A request arrives at p and leaves it in state r.
Arrive(p, r) ==
    /\ thread[p].pc = "idle" /\ requests < MaxRequests
    /\ requests' = requests + 1
    /\ thread' = [thread EXCEPT ![p] = r]
    /\ news' = [news EXCEPT ![p] = {}]
    /\ UNCHANGED <<tables, cookie>>

Answer(b, s) == [Idle EXCEPT !.pc = "reply", !.browser = b, !.came = cookie[b], !.sess = s]

\* A handler for signed-in users: ask k is granted, or refused before any write.
Handle(p, b, k, granted) ==
    LET s == cookie[b]
        w == [Answer(b, s) EXCEPT !.pc = "write", !.role = RoleOf(s), !.ask = k]
    IN /\ Arrive(p, IF Valid(s) /\ granted
                    THEN CASE k.op = "update" -> [w EXCEPT !.old = user[k.user]]
                           [] k.op = "updateTenant" -> [w EXCEPT !.was = tenant[k.tenant]]
                           [] OTHER -> w
                    ELSE Answer(b, Validated(s)))
       /\ UNCHANGED sent

AsksOf(op) == {k \in Asks : k.op = op}

\* The response of p: the browser stores the request's copy of the session.  No
\* cookie is set when the session was and is empty, unless a page stored a flash
\* message or a CSRF token in it.
Reply(p) ==
    LET r == thread[p]
    IN /\ r.pc = "reply"
       /\ cookie' \in {[cookie EXCEPT ![r.browser] = r.sess]}
            \cup IF r.came = Empty /\ r.sess = Empty THEN {cookie} ELSE {}
       /\ thread' = [thread EXCEPT ![p] = Idle]
       /\ news' = [news EXCEPT ![p] = {}]
       /\ UNCHANGED <<tables, sent, requests>>

\* The rows S are written, and requests other than p's are under way.
Told(p, S) == [q \in Threads |-> IF q # p /\ thread[q].pc # "idle" THEN news[q] \cup S
                                 ELSE news[q]]

\* p has committed a write to the rows S, and answers next.
Committed(p, S, s) ==
    /\ thread' = [thread EXCEPT ![p] = [@ EXCEPT !.pc = "reply", !.sess = s]]
    /\ news' = Told(p, S)
    /\ UNCHANGED <<cookie, sent, requests>>

Writing(p, op) == thread[p].pc = "write" /\ thread[p].ask.op = op

\* The commit of p cannot be made: a server error, and no cookie.
Fails(p) ==
    /\ thread' = [thread EXCEPT ![p] = Idle]
    /\ news' = [news EXCEPT ![p] = {}]
    /\ UNCHANGED <<tables, cookie, sent, requests>>

-----------------------------------------------------------------------------
(* Users.  The role is the one of the caller when the request arrived.     *)

Assignable(role, wanted) ==
    \/ role = "owner"
    \/ role = "admin" /\ wanted # "owner"

\* Mutant of LastOwner: the count is off by one.
LastOwnerOffByOne(u, t) == user[u].role = "owner" /\ Cardinality(Owners(t)) < 1

LastOwner(u, t) == user[u].role = "owner" /\ Cardinality(Owners(t)) <= 1

ApiCreateUser(p, b) ==
    \E k \in AsksOf("create") :
      LET s == cookie[b]
      IN Handle(p, b, k, /\ RoleOf(s) \in {"owner", "admin"} /\ Assignable(RoleOf(s), k.role)
                         /\ WithEmail(s.active, k.email) = {})

\* The pages make the same checks as the API, here and below.
WebCreateUser(p, b) == ApiCreateUser(p, b)

InsertUser(p) ==
    LET r == thread[p]
        t == r.sess.active
        u == Fresh(Users, user)
    IN /\ Writing(p, "create") /\ Room(Users, user)
       /\ IF t \in TenantsLive /\ WithEmail(t, r.ask.email) = {}
          THEN /\ user' = [user EXCEPT ![u] = [live |-> "live", tenant |-> t, role |-> r.ask.role,
                                               email |-> r.ask.email, subject |-> NoSubject]]
               /\ Committed(p, {u}, r.sess)
               /\ UNCHANGED <<tenant, link>>
          ELSE Fails(p)

ApiUpdateUser(p, b) ==
    \E k \in AsksOf("update") :
      LET s == cookie[b]
      IN Handle(p, b, k, /\ RoleOf(s) \in {"owner", "admin"} /\ k.user \in UsersOf(s.active)
                         /\ Assignable(RoleOf(s), k.role)
                         /\ k.role # "owner" => ~LastOwner(k.user, s.active))

WebUpdateUser(p, b) == ApiUpdateUser(p, b)

\* Only a column that differs from the object read is written; nothing to write
\* is an error only where the row is read again (the API).
SaveUser(p) ==
    LET r == thread[p]
        u == r.ask.user
    IN /\ Writing(p, "update")
       /\ \/ /\ r.ask.role = r.old.role
             /\ Committed(p, {}, r.sess) /\ UNCHANGED tables
          \/ /\ r.ask.role # r.old.role /\ user[u].live = "live"
             /\ user' = [user EXCEPT ![u].role = r.ask.role]
             /\ Committed(p, {u}, r.sess) /\ UNCHANGED <<tenant, link>>
          \/ user[u].live = "gone" /\ Fails(p)

ApiDeleteUser(p, b) ==
    \E k \in AsksOf("delete") :
      LET s == cookie[b]
      IN Handle(p, b, k, /\ RoleOf(s) \in {"owner", "admin"} /\ k.user \in UsersOf(s.active)
                         /\ k.user # s.user
                         /\ user[k.user].role = "owner" => RoleOf(s) = "owner"
                         /\ ~LastOwner(k.user, s.active))

WebDeleteUser(p, b) == ApiDeleteUser(p, b)

\* Deleting a row that is gone is no error.
DropUser(p) ==
    LET u == thread[p].ask.user
    IN /\ Writing(p, "delete")
       /\ user' = [user EXCEPT ![u].live = "gone"]
       /\ Committed(p, {u}, thread[p].sess)
       /\ UNCHANGED <<tenant, link>>

ApiResetPassword(p, b) ==
    \E k \in AsksOf("password") :
      LET s == cookie[b]
      IN Handle(p, b, k, /\ RoleOf(s) \in {"owner", "admin"} /\ k.user \in UsersOf(s.active)
                         /\ user[k.user].role = "owner" => RoleOf(s) = "owner")

WebResetPassword(p, b) == ApiResetPassword(p, b)

SavePassword(p) ==
    LET u == thread[p].ask.user
    IN /\ Writing(p, "password")
       /\ IF user[u].live = "live"
          THEN Committed(p, {u}, thread[p].sess) /\ UNCHANGED tables
          ELSE Fails(p)

-----------------------------------------------------------------------------
(* Tenants.                                                                *)

MayCreate(s, k) ==
    IF k.parent = NoTenant
    THEN RoleOf(s) = "owner" /\ (SingleTenant => TenantsLive = {})
    ELSE /\ k.parent \in TenantsLive /\ SameOrDescendant(s.principal, k.parent)
         /\ tenant[k.parent].open \/ RoleOf(s) = "owner"

CreateTenant(p, b, k) ==
    LET s == cookie[b]
    IN Handle(p, b, k, /\ RoleOf(s) \in {"owner", "admin"} /\ MayCreate(s, k)
                       /\ NamedTenant(k.name) = {})

ApiCreateTenant(p, b) == \E k \in AsksOf("createTenant") : CreateTenant(p, b, k)

\* The page makes sub-tenants only.
WebCreateTenant(p, b) ==
    \E k \in AsksOf("createTenant") : k.parent # NoTenant /\ CreateTenant(p, b, k)

NewTenant(t, parent, open, name) ==
    tenant' = [tenant EXCEPT ![t] = [live |-> "live", parent |-> parent, open |-> open,
                                     name |-> name]]

InsertTenant(p) ==
    LET r == thread[p]
        t == Fresh(Tenants, tenant)
    IN /\ Writing(p, "createTenant") /\ Room(Tenants, tenant)
       /\ IF NamedTenant(r.ask.name) = {} /\ r.ask.parent \in TenantsLive \cup {NoTenant}
          THEN /\ NewTenant(t, r.ask.parent, r.ask.open, r.ask.name)
               /\ Committed(p, {t}, r.sess)
               /\ UNCHANGED <<user, link>>
          ELSE Fails(p)

UpdateTenant(p, b, k) ==
    LET s == cookie[b]
    IN Handle(p, b, k, /\ RoleOf(s) \in {"owner", "admin"} /\ k.tenant \in TenantsLive
                       /\ SameOrDescendant(s.principal, k.tenant))

ApiUpdateTenant(p, b) == \E k \in AsksOf("updateTenant") : UpdateTenant(p, b, k)

\* The page leaves the name alone.
WebUpdateTenant(p, b) ==
    \E k \in AsksOf("updateTenant") :
      UpdateTenant(p, b, [k EXCEPT !.name = tenant[k.tenant].name])

SaveTenant(p) ==
    LET r == thread[p]
        t == r.ask.tenant
        name == IF r.ask.name # r.was.name THEN r.ask.name ELSE tenant[t].name
        open == IF r.ask.open # r.was.open THEN r.ask.open ELSE tenant[t].open
    IN /\ Writing(p, "updateTenant")
       /\ IF t \in TenantsLive /\ NamedTenant(name) \subseteq {t}
          THEN /\ tenant' = [tenant EXCEPT ![t].open = open, ![t].name = name]
               /\ Committed(p, {t}, r.sess) /\ UNCHANGED <<user, link>>
          ELSE Fails(p)

ApiDeleteTenant(p, b) ==
    \E k \in AsksOf("deleteTenant") :
      LET s == cookie[b]
      IN Handle(p, b, k, /\ RoleOf(s) \in {"owner", "admin"} /\ k.tenant \in TenantsLive
                         /\ k.tenant # s.principal /\ SameOrDescendant(s.principal, k.tenant))

\* The sub-tenants become top-level tenants; users and links go with the tenant.
DropTenant(p) ==
    LET t == thread[p].ask.tenant
        children == {c \in Tenants : tenant[c].parent = t}
        gone == {u \in UsersLive : user[u].tenant = t}
        closed == {l \in Links : link[l].live = "live" /\ link[l].tenant = t}
    IN /\ Writing(p, "deleteTenant")
       /\ tenant' = [c \in Tenants |->
                       IF c = t THEN [tenant[c] EXCEPT !.live = "gone", !.parent = NoTenant]
                       ELSE IF c \in children THEN [tenant[c] EXCEPT !.parent = NoTenant]
                       ELSE tenant[c]]
       /\ user' = [u \in Users |-> IF u \in gone THEN [user[u] EXCEPT !.live = "gone"]
                                   ELSE user[u]]
       /\ link' = [l \in Links |-> IF l \in closed THEN [link[l] EXCEPT !.live = "gone"]
                                   ELSE link[l]]
       /\ Committed(p, {t} \cup children \cup gone \cup closed, thread[p].sess)

-----------------------------------------------------------------------------
(* Signing in and out, and the tenant a session works in.                  *)

Logout(p, b) == Arrive(p, Answer(b, Cleared(cookie[b]))) /\ UNCHANGED sent

SwitchTenant(p, b) ==
    \E t \in Tenants :
      LET s == Validated(cookie[b])
      IN /\ Arrive(p, Answer(b, IF SignedIn(s) /\ SameOrDescendant(s.principal, t)
                                THEN [s EXCEPT !.active = t] ELSE s))
         /\ UNCHANGED sent

\* Every other request of a signed-in user, as far as the session goes.
Visit(p, b) == Arrive(p, Answer(b, Validated(cookie[b]))) /\ UNCHANGED sent

TokensInUse ==
    {cookie[b].token : b \in Browsers} \cup {thread[p].sess.token : p \in Threads}
      \cup {x.token : x \in sent}

LoginStart(p, b) ==
    \E k \in Tokens \ TokensInUse :
      /\ Arrive(p, Answer(b, [cookie[b] EXCEPT !.token = k]))
      /\ sent' = sent \cup {[browser |-> b, token |-> k]}

\* The browser comes back from the provider.  An error leaves the session alone;
\* an answer takes the token out of it and must be the one it holds.
Callback(p, x) ==
    LET s == cookie[x.browser]
        popped == Answer(x.browser, [s EXCEPT !.token = NoToken])
    IN /\ x \in sent
       /\ \E failed \in BOOLEAN :
            Arrive(p, IF failed THEN Answer(x.browser, s)
                      ELSE IF s.token = x.token THEN [popped EXCEPT !.pc = "exchange"]
                      ELSE popped)
       /\ sent' = sent \ {x}

Found(c) ==
    LET homes == NamedTenant(c.name)
        home == IF homes = {} THEN NoTenant ELSE CHOOSE t \in homes : TRUE
        known == IF c.subject # NoSubject /\ WithSubject(home, c.subject) # {}
                 THEN WithSubject(home, c.subject) ELSE WithEmail(home, c.email)
    IN <<home, IF known = {} THEN NoUser ELSE CHOOSE u \in known : TRUE>>

\* r has found the tenant and the user the claims c name, or will create them.
Provisioning(r, c) ==
    LET f == Found(c)
    IN [r EXCEPT !.pc = "signin", !.ask = c, !.home = f[1], !.seen = f[2],
                 !.old = IF f[2] = NoUser THEN FreeUser ELSE user[f[2]]]

\* The code is exchanged and the id token accepted (the provider's answer), or not.
Exchange(p) ==
    /\ thread[p].pc = "exchange"
    /\ \E next \in {[thread[p] EXCEPT !.pc = "reply"]} \cup
           {Provisioning(thread[p], c) :
              c \in {c \in Claims : \/ NamedTenant(c.name) # {} \/ c.name = DefaultName
                                    \/ AutoCreate /\ ~SingleTenant}} :
         thread' = [thread EXCEPT ![p] = next]
    /\ UNCHANGED <<tables, cookie, sent, news, requests>>

LocalClaims == [subject |-> NoSubject, email |-> LocalEmail, name |-> DefaultName,
                role |-> LocalRole]

\* The credentials of the environment.
LoginLocal(p, b) ==
    /\ LocalAuth
    /\ Arrive(p, Provisioning(Answer(b, cookie[b]), LocalClaims)) /\ UNCHANGED sent

Column(new, old, stored) == IF new # old THEN new ELSE stored

\* The user u of tenant t as the claims c leave it; local login sets the role alone.
Provisioned(c, old, stored, t) ==
    LET role == Column(c.role, old.role, stored.role)
    IN IF old.live = "free"
       THEN [live |-> "live", tenant |-> t, role |-> c.role, email |-> c.email,
             subject |-> c.subject]
       ELSE IF c.subject = NoSubject THEN [stored EXCEPT !.role = role]
       ELSE [stored EXCEPT !.role = role, !.email = Column(c.email, old.email, @),
                           !.subject = Column(c.subject, old.subject, @)]

\* The commit of both logins.  The unique keys of both tables are checked by it.
SignIn(p) ==
    LET r == thread[p]
        c == r.ask
        t == IF r.home = NoTenant THEN Fresh(Tenants, tenant) ELSE r.home
        u == IF r.seen = NoUser THEN Fresh(Users, user) ELSE r.seen
        row == Provisioned(c, r.old, user[u], t)
    IN /\ r.pc = "signin"
       /\ r.home = NoTenant => Room(Tenants, tenant)
       /\ r.seen = NoUser => Room(Users, user)
       /\ IF /\ IF r.home = NoTenant THEN NamedTenant(c.name) = {} ELSE t \in TenantsLive
             /\ r.seen # NoUser => user[u].live = "live"
             /\ WithEmail(t, row.email) \subseteq {u}
             /\ row.subject # NoSubject => WithSubject(t, row.subject) \subseteq {u}
          THEN /\ IF r.home = NoTenant THEN NewTenant(t, NoTenant, TRUE, c.name)
                  ELSE UNCHANGED tenant
               /\ user' = [user EXCEPT ![u] = row]
               /\ Committed(p, {t, u}, Assigned(u, row.role, t))
               /\ UNCHANGED link
          ELSE Fails(p)

\* An address and a password, right or wrong, of a user of the default tenant,
\* which is created if need be.
LoginPassword(p, b) ==
    LET homes == NamedTenant(DefaultName)
        answer == Answer(b, cookie[b])
    IN /\ LocalAuth /\ UNCHANGED sent
       /\ IF homes = {}
          THEN /\ Room(Tenants, tenant)
               /\ thread[p].pc = "idle" /\ requests < MaxRequests
               /\ requests' = requests + 1
               /\ NewTenant(Fresh(Tenants, tenant), NoTenant, TRUE, DefaultName)
               /\ thread' = [thread EXCEPT ![p] = answer]
               /\ news' = [Told(p, {Fresh(Tenants, tenant)}) EXCEPT ![p] = {}]
               /\ UNCHANGED <<user, link, cookie>>
          ELSE \E u \in UsersOf(CHOOSE t \in homes : TRUE) \cup {NoUser} :
                 Arrive(p, IF u = NoUser THEN answer
                           ELSE [answer EXCEPT !.pc = "stamp", !.seen = u])

\* last_login_at is written, and the user read again.
Stamp(p) ==
    LET u == thread[p].seen
    IN /\ thread[p].pc = "stamp"
       /\ IF user[u].live = "live"
          THEN /\ Committed(p, {}, Assigned(u, user[u].role, user[u].tenant))
               /\ UNCHANGED tables
          ELSE Fails(p)

-----------------------------------------------------------------------------
(* Portal links: made by users, opened by anyone who has the address.      *)

ApiCreateLink(p, b) ==
    \E k \in AsksOf("createLink") :
      Handle(p, b, k, RoleOf(cookie[b]) \in {"owner", "admin", "dev"})

WebCreateLink(p, b) == ApiCreateLink(p, b)

InsertLink(p) ==
    LET r == thread[p]
        l == Fresh(Links, link)
    IN /\ Writing(p, "createLink") /\ Room(Links, link)
       /\ IF r.sess.active \in TenantsLive
          THEN /\ link' = [link EXCEPT ![l] = [FreeLink EXCEPT !.live = "live",
                                !.tenant = r.sess.active, !.feedback = r.ask.feedback]]
               /\ Committed(p, {l}, r.sess)
               /\ UNCHANGED <<tenant, user>>
          ELSE Fails(p)

ApiRevokeLink(p, b) ==
    \E k \in AsksOf("revokeLink") :
      LET s == cookie[b]
      IN Handle(p, b, k, /\ RoleOf(s) \in {"owner", "admin"} /\ link[k.link].live = "live"
                         /\ link[k.link].tenant = s.active)

WebRevokeLink(p, b) == ApiRevokeLink(p, b)

SaveRevoked(p) ==
    LET l == thread[p].ask.link
    IN /\ Writing(p, "revokeLink")
       /\ IF link[l].live = "live"
          THEN /\ link' = [link EXCEPT ![l].revoked = TRUE]
               /\ Committed(p, {l}, thread[p].sess)
               /\ UNCHANGED <<tenant, user>>
          ELSE Fails(p)

\* Time passes: a link reaches its expires_at, which its sessions know too.
Expire(l) ==
    /\ link[l].live = "live" /\ ~link[l].expired
    /\ link' = [link EXCEPT ![l].expired = TRUE]
    /\ news' = [q \in Threads |-> IF thread[q].pc # "idle" THEN news[q] \cup {l} ELSE news[q]]
    /\ UNCHANGED <<tenant, user, cookie, sent, thread, requests>>

Resolves(l) == link[l].live = "live" /\ ~link[l].revoked /\ ~link[l].expired

\* The permissions are copied into the session.
OpenLink(p, b) ==
    \E l \in Links :
      LET s == cookie[b]
      IN /\ link[l].live # "free"
         /\ Arrive(p, Answer(b, IF Resolves(l)
                                THEN [s EXCEPT !.link = l, !.feedback = link[l].feedback]
                                ELSE s))
         /\ UNCHANGED sent

PortalChecked(s) == IF s.link # NoLink /\ ~PortalOpen(s) THEN PortalCleared(s) ELSE s

\* A page of the portal, or a form of it that the link does not permit.
VisitPortal(p, b) == Arrive(p, Answer(b, PortalChecked(cookie[b]))) /\ UNCHANGED sent

PortalLogout(p, b) == Arrive(p, Answer(b, PortalCleared(cookie[b]))) /\ UNCHANGED sent

\* Feedback on a job of the link's tenant and sub-tenant.
SaveReview(p, b) ==
    \E k \in AsksOf("review") :
      LET s == cookie[b]
      IN /\ PortalOpen(s) /\ s.feedback
         /\ Arrive(p, [Answer(b, s) EXCEPT !.pc = "write", !.ask = k])
         /\ UNCHANGED sent

\* The training event is committed; its tenant must still be there.
InsertReview(p) ==
    LET r == thread[p]
    IN /\ Writing(p, "review")
       /\ IF link[r.sess.link].live = "live"
          THEN Committed(p, {}, r.sess) /\ UNCHANGED tables
          ELSE Fails(p)

-----------------------------------------------------------------------------
\* The server stops and starts: requests are lost, and the default tenant and the
\* local user are there again.
Restart ==
    LET f == Found(LocalClaims)
        t == IF f[1] = NoTenant THEN Fresh(Tenants, tenant) ELSE f[1]
        u == IF f[2] = NoUser THEN Fresh(Users, user) ELSE f[2]
        old == IF f[2] = NoUser THEN FreeUser ELSE user[u]
    IN /\ "restart" \in Faults
       /\ f[1] = NoTenant => Room(Tenants, tenant)
       /\ IF f[1] = NoTenant THEN NewTenant(t, NoTenant, TRUE, DefaultName)
          ELSE UNCHANGED tenant
       /\ IF LocalAuth
          THEN /\ f[2] = NoUser => Room(Users, user)
               /\ user' = [user EXCEPT ![u] = Provisioned(LocalClaims, old, @, t)]
          ELSE UNCHANGED user
       /\ thread' = [p \in Threads |-> Idle]
       /\ news' = [p \in Threads |-> {}]
       /\ UNCHANGED <<link, cookie, sent, requests>>

Writes(p) ==
    \/ InsertUser(p) \/ SaveUser(p) \/ DropUser(p) \/ SavePassword(p)
    \/ InsertTenant(p) \/ SaveTenant(p) \/ DropTenant(p)
    \/ InsertLink(p) \/ SaveRevoked(p) \/ InsertReview(p)

SignsIn(p) == SignIn(p) \/ Stamp(p)

Arrives(p, b) ==
    \/ ApiCreateUser(p, b) \/ WebCreateUser(p, b) \/ ApiUpdateUser(p, b)
    \/ WebUpdateUser(p, b) \/ ApiDeleteUser(p, b) \/ WebDeleteUser(p, b)
    \/ ApiResetPassword(p, b) \/ WebResetPassword(p, b)
    \/ ApiCreateTenant(p, b) \/ WebCreateTenant(p, b) \/ ApiUpdateTenant(p, b)
    \/ WebUpdateTenant(p, b) \/ ApiDeleteTenant(p, b)
    \/ Logout(p, b) \/ SwitchTenant(p, b) \/ Visit(p, b)
    \/ LoginStart(p, b) \/ LoginLocal(p, b) \/ LoginPassword(p, b)
    \/ ApiCreateLink(p, b) \/ WebCreateLink(p, b) \/ ApiRevokeLink(p, b)
    \/ WebRevokeLink(p, b) \/ OpenLink(p, b)
    \/ VisitPortal(p, b) \/ PortalLogout(p, b) \/ SaveReview(p, b)

Next ==
    \/ \E p \in Threads :
         \/ \E b \in Browsers : Arrives(p, b)
         \/ \E x \in sent : Callback(p, x)
         \/ Exchange(p) \/ Writes(p) \/ SignsIn(p) \/ Reply(p)
    \/ \E l \in Links : Expire(l)
    \/ Restart

Spec == Init /\ [][Next]_vars

-----------------------------------------------------------------------------
(* Properties.                                                             *)

Sane(s) == /\ s \in Session
           /\ s.user = NoUser => s.principal = NoTenant /\ s.active = NoTenant
           /\ s.user # NoUser => user[s.user].tenant = s.principal

\* Types; and a session names a user with the tenant the user belongs to, or
\* neither, in cookies and in requests alike (_assign_session_user,
\* _get_session_user).
TypeOK ==
    /\ tenant \in [Tenants -> Tenant] /\ user \in [Users -> User]
    /\ link \in [Links -> PortalLink]
    /\ \A b \in Browsers : Sane(cookie[b])
    /\ sent \subseteq [browser: Browsers, token: Tokens]
    /\ \A p \in Threads :
         /\ thread[p].pc \in {"idle", "write", "exchange", "signin", "stamp", "reply"}
         /\ Sane(thread[p].sess) /\ thread[p].role \in Roles
         /\ news[p] \subseteq Tenants \cup Users \cup Links
    /\ requests \in 0..MaxRequests

\* A tenant that has an owner is left without one only by a sign-in or a start of
\* the server, which write the role they were told, or by a request that counted
\* an owner who has gone since, or writes a user who has become the owner since
\* (admin.py and web.py, _count_tenant_owners).
OwnersLeaveOnlyByRaceOrSignIn ==
    [][\A t \in Tenants :
         Owners(t) # {} /\ tenant'[t].live = "live" /\ Owners(t)' = {}
         => \/ Restart
            \/ \E p \in Threads :
                 \/ SignIn(p)
                 \/ /\ Writes(p)
                    /\ \E u \in news[p] \cap Users :
                          u \notin Owners(t) \/ u = thread[p].ask.user]_vars

\* What the write of request r asks of the roles and the tree, in the tables as they are now.
Authorised(r) ==
    LET k == r.ask
        a == user[r.sess.user]
        manages == a.role \in {"owner", "admin"}
        l == link[r.sess.link]
    IN IF k.op = "review" THEN l.live = "live" /\ ~l.revoked /\ ~l.expired /\ l.feedback
       ELSE /\ a.live = "live" /\ SameOrDescendant(a.tenant, r.sess.active)
            /\ CASE k.op \in {"create", "update"} -> manages /\ (k.role = "owner" => a.role = "owner")
                 [] k.op \in {"delete", "password"} ->
                      manages /\ (user[k.user].role = "owner" => a.role = "owner")
                 [] k.op = "createTenant" ->
                      /\ manages
                      /\ IF k.parent = NoTenant THEN a.role = "owner"
                         ELSE SameOrDescendant(a.tenant, k.parent)
                 [] k.op \in {"updateTenant", "deleteTenant"} ->
                      manages /\ SameOrDescendant(a.tenant, k.tenant)
                 [] k.op = "createLink" -> a.role # "viewer"
                 [] k.op = "revokeLink" -> manages /\ link[k.link].tenant = r.sess.active

\* A commit is authorised by the tables as they are then, whatever the cookie says
\* and however old it is; only what changed while the request was being handled
\* may say otherwise (dependencies.py, _validate_session_user; web.py,
\* _portal_session_payload).
WritesAreAuthorised ==
    [][\A p \in Threads :
         Writes(p) => \/ Authorised(thread[p])
                      \/ news[p] \cap ({thread[p].sess.user, thread[p].sess.link} \cup Tenants) # {}
                      \/ thread[p].ask.op \in {"delete", "password"} /\ thread[p].ask.user \in news[p]]_vars

\* Only owners create top-level tenants (admin.py:253; the default tenant and the
\* tenants of sign-ins aside).  Deleting a tenant makes one of each sub-tenant.
OnlyOwnersMakeTopLevel ==
    [][\A p \in Threads :
         Writes(p) /\ thread[p].role # "owner"
         => \A t \in Tenants : tenant'[t].live = "live" /\ tenant'[t].parent = NoTenant
                               => t \in TenantsLive /\ tenant[t].parent = NoTenant]_vars

\* A browser that is signed out is signed in again by a sign-in only (auth.py:28,
\* logout; SessionMiddleware).  A response that is slower than the logout undoes it.
SignedOutIsOut ==
    [][\A b \in Browsers :
         cookie[b].user = NoUser /\ cookie'[b].user # NoUser
         => \E p \in Threads : Reply(p) /\ thread[p].browser = b
                                /\ thread[p].came.user = NoUser]_vars
=============================================================================
