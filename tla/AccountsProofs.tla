---------------------------- MODULE AccountsProofs ----------------------------
(***************************************************************************)
(* Theorems about Accounts for every set of tenants, users, links,         *)
(* browsers and threads, every start, every set of requests and claims.    *)
(*                                                                         *)
(* What a request was granted rests on rows that others may write before   *)
(* its commit.  The invariant says, of every request about to commit, what *)
(* its checks found: it holds still, or the rows that were written since   *)
(* are among its news.                                                     *)
(***************************************************************************)
EXTENDS Accounts, FiniteSetTheorems, TLAPS

-----------------------------------------------------------------------------
(* The inductive invariant.                                                *)

Claim == [subject: Subjects \cup {NoSubject}, email: Emails, name: Names, role: Roles]

Request == [pc: {"idle", "write", "exchange", "signin", "stamp", "reply"}, browser: Browsers,
            came: Session, sess: Session, role: Roles, ask: Requested \cup Claim \cup {NoAsk},
            home: Tenants \cup {NoTenant}, seen: Users \cup {NoUser}, old: User, was: Tenant]

TablesOK ==
    /\ tenant \in [Tenants -> Tenant] /\ user \in [Users -> User]
    /\ link \in [Links -> PortalLink]
    /\ \A u \in Users : user[u].live # "free" => user[u].tenant \in Tenants

\* A session names rows that are or were there, with the tenant of its user, and permits
\* no more than its link.
Held(s) ==
    /\ s.user = NoUser => s.principal = NoTenant /\ s.active = NoTenant
    /\ s.user # NoUser => user[s.user].live # "free" /\ user[s.user].tenant = s.principal
    /\ s.link # NoLink => link[s.link].live # "free" /\ (s.feedback => link[s.link].feedback)

\* The row an ask is about is or was there.
Named(k) ==
    /\ k.op \in {"update", "delete", "password"} => user[k.user].live # "free"
    /\ k.op = "revokeLink" => link[k.link].live # "free"

\* What a request has in hand between two steps.
RequestOK(r) ==
    /\ Held(r.sess)
    /\ r.pc = "write" => /\ r.ask \in Requested /\ Named(r.ask)
                         /\ IF r.ask.op = "review" THEN r.sess.link # NoLink
                            ELSE r.sess.user # NoUser
    /\ r.pc = "signin" => /\ r.ask \in Claim
                          /\ r.seen = NoUser => r.old.live = "free"
                          /\ r.seen # NoUser => /\ r.old.live # "free"
                                                /\ user[r.seen].live # "free"
                                                /\ user[r.seen].tenant = r.home
    /\ r.pc = "stamp" => r.seen \in Users /\ user[r.seen].live # "free"

\* A request about to commit is authorised, or N has a row it was authorised by.
StillAuthorised(r, N) ==
    r.pc = "write" =>
        \/ Authorised(r)
        \/ N \cap ({r.sess.user, r.sess.link} \cup Tenants) # {}
        \/ r.ask.op \in {"delete", "password"} /\ r.ask.user \in N

\* A request that may take an owner from its tenant found another one, or no owner in
\* the user it names; or N has the user that made the difference.
Counted(k) == k.op = "delete" \/ (k.op = "update" /\ k.role # "owner")

StillCounted(r, N) ==
    r.pc = "write" /\ Counted(r.ask) =>
        /\ user[r.ask.user].tenant = r.sess.active
        /\ \/ r.ask.user \notin Owners(r.sess.active)
           \/ \E v \in Owners(r.sess.active) : v # r.ask.user
           \/ \E x \in N \cap Users : x \notin Owners(r.sess.active) \/ x = r.ask.user

InOrder(r, N) == RequestOK(r) /\ StillAuthorised(r, N) /\ StillCounted(r, N)

IInv ==
    /\ TablesOK
    /\ cookie \in [Browsers -> Session] /\ thread \in [Threads -> Request]
    /\ news \in [Threads -> SUBSET (Tenants \cup Users \cup Links)]
    /\ sent \subseteq [browser: Browsers, token: Tokens]
    /\ requests \in 0..MaxRequests
    /\ \A b \in Browsers : \A s \in {cookie[b]} : Held(s)
    /\ \A p \in Threads : \A r \in {thread[p]}, N \in {news[p]} : InOrder(r, N)

-----------------------------------------------------------------------------
(* What a step of one request leaves to the others.                        *)

\* A row stays, with the columns that are never written again.
RowsKept ==
    /\ \A u \in Users : user[u].live # "free" =>
          user'[u].live # "free" /\ user'[u].tenant = user[u].tenant
    /\ \A l \in Links : link[l].live # "free" =>
          /\ link'[l].live # "free" /\ link'[l].tenant = link[l].tenant
          /\ link'[l].feedback = link[l].feedback

\* The rows that a step writes are told to a request.
Follows(N, M) ==
    /\ N \subseteq M
    /\ \A t \in Tenants : tenant'[t] # tenant[t] => t \in M
    /\ \A u \in Users : user'[u] # user[u] => u \in M
    /\ \A l \in Links : link'[l] # link[l] => l \in M

LEMMA FreshIsFree ==
    ASSUME NEW S, NEW table, Room(S, table)
    PROVE  Fresh(S, table) \in S /\ table[Fresh(S, table)].live = "free"
BY DEF Room, Fresh

LEMMA LineageKept ==
    ASSUME tenant' = tenant
    PROVE  \A t : Lineage(t)' = Lineage(t)
BY DEF Lineage, TenantsLive

LEMMA HeldStays ==
    ASSUME NEW s \in Session, RowsKept, Held(s), TablesOK
    PROVE  Held(s)'
BY DEF RowsKept, Held, TablesOK, Session

LEMMA RequestStays ==
    ASSUME NEW r \in Request, RowsKept, TablesOK, RequestOK(r)
    PROVE  RequestOK(r)'
<1>1. Held(r.sess)'
    BY HeldStays DEF Request, RequestOK
<1>2. ASSUME r.pc = "write" PROVE Named(r.ask)'
    <2>1. r.ask \in Requested /\ Named(r.ask)
        BY <1>2 DEF RequestOK
    <2>2. /\ r.ask.op \in {"update", "delete", "password"} => r.ask.user \in Users
          /\ r.ask.op = "revokeLink" => r.ask.link \in Links
        BY <2>1 DEF Requested
    <2>. QED
        BY <2>1, <2>2 DEF Named, RowsKept
<1>3. r.seen \in Users \cup {NoUser}
    BY DEF Request
<1>. QED
    BY <1>1, <1>2, <1>3 DEF RequestOK, RowsKept

LEMMA AuthorityStays ==
    ASSUME NEW r \in Request, NEW N, NEW M, RowsKept, TablesOK, TablesOK', RequestOK(r),
           Follows(N, M), StillAuthorised(r, N)
    PROVE  StillAuthorised(r, M)'
<1>. SUFFICES ASSUME r.pc = "write", Authorised(r),
                     M \cap ({r.sess.user, r.sess.link} \cup Tenants) = {},
                     ~(r.ask.op \in {"delete", "password"} /\ r.ask.user \in M)
              PROVE  Authorised(r)'
    BY DEF StillAuthorised, Follows
<1>. DEFINE k == r.ask
            s == r.sess
<1>1. tenant' = tenant
    <2>1. \A t \in Tenants : tenant'[t] = tenant[t]
        BY DEF Follows
    <2>. QED
        BY <2>1 DEF TablesOK
<1>2. \A t : Lineage(t)' = Lineage(t)
    BY <1>1, LineageKept
<1>3. k \in Requested /\ s \in Session
    BY DEF RequestOK, Request
<1>4. CASE k.op = "review"
    <2>1. s.link \in Links
        BY <1>3, <1>4 DEF Session, RequestOK
    <2>2. link'[s.link] = link[s.link]
        BY <2>1 DEF Follows
    <2>. QED
        BY <1>4, <2>2 DEF Authorised
<1>5. CASE k.op # "review"
    <2>1. s.user \in Users
        BY <1>3, <1>5 DEF Session, RequestOK
    <2>2. user'[s.user] = user[s.user]
        BY <2>1 DEF Follows
    <2>3. k.op \in {"delete", "password"} => user'[k.user] = user[k.user]
        <3>1. k.op \in {"delete", "password"} => k.user \in Users
            BY <1>3 DEF Requested
        <3>. QED
            BY <3>1 DEF Follows
    <2>4. k.op = "revokeLink" => link'[k.link].tenant = link[k.link].tenant
        <3>1. k.op = "revokeLink" => k.link \in Links
            BY <1>3 DEF Requested
        <3>. QED
            BY <3>1 DEF RowsKept, RequestOK, Named
    <2>5. k.op \in {"create", "update", "delete", "password", "createTenant", "updateTenant",
                    "deleteTenant", "createLink", "revokeLink"}
        BY <1>3, <1>5 DEF Requested
    <2>. QED
        BY <1>2, <1>5, <2>2, <2>3, <2>4, <2>5 DEF Authorised, SameOrDescendant
<1>. QED
    BY <1>4, <1>5

LEMMA CountStays ==
    ASSUME NEW r \in Request, NEW N, NEW M, RowsKept, TablesOK, RequestOK(r),
           Follows(N, M), StillCounted(r, N)
    PROVE  StillCounted(r, M)'
<1>. SUFFICES ASSUME r.pc = "write", Counted(r.ask)
              PROVE  StillCounted(r, M)'
    BY DEF StillCounted
<1>. DEFINE u == r.ask.user
            t == r.sess.active
<1>1. u \in Users /\ user[u].live # "free"
    BY DEF RequestOK, Named, Counted, Requested
<1>2. user'[u].tenant = t
    BY <1>1 DEF RowsKept, StillCounted
<1>3. \A v : v \in Owners(t) /\ v \notin Owners(t)' => v \in M \cap Users
    BY DEF Follows, Owners, UsersOf, UsersLive
<1>4. \A v : v \notin Owners(t) /\ v \in Owners(t)' => v \in M \cap Users
    BY DEF Follows, Owners, UsersOf, UsersLive
<1>5. \/ u \notin Owners(t)'
      \/ \E v \in Owners(t)' : v # u
      \/ \E x \in M \cap Users : x \notin Owners(t)' \/ x = u
    <2>1. CASE u \notin Owners(t)
        BY <1>4, <2>1
    <2>2. CASE \E v \in Owners(t) : v # u
        BY <1>3, <2>2
    <2>3. CASE \E x \in N \cap Users : x \notin Owners(t) \/ x = u
        <3>1. PICK x \in N \cap Users : x \notin Owners(t) \/ x = u
            BY <2>3
        <3>2. x \in M \cap Users
            BY <3>1 DEF Follows
        <3>. QED
            BY <3>1, <3>2
    <2>. QED
        BY <2>1, <2>2, <2>3 DEF StillCounted
<1>. QED
    BY <1>2, <1>5 DEF StillCounted

\* A request that does nothing in a step stays in order, if it hears of the rows written.
LEMMA OthersStay ==
    ASSUME IInv, RowsKept, TablesOK', NEW q \in Threads, thread'[q] = thread[q],
           thread[q].pc # "idle" => Follows(news[q], news'[q])
    PROVE  \A r \in {thread'[q]}, N \in {news'[q]} : InOrder(r, N)'
<1>. SUFFICES ASSUME NEW r, r = thread[q], NEW M, M = news'[q]
              PROVE  InOrder(r, M)'
    OBVIOUS
<1>1. PICK N : N = news[q]
    OBVIOUS
<1>2. r \in Request /\ InOrder(r, N)
    BY <1>1 DEF IInv
<1>3. TablesOK /\ RequestOK(r) /\ StillAuthorised(r, N) /\ StillCounted(r, N)
    BY <1>2 DEF IInv, InOrder
<1>4. RequestOK(r)'
    BY <1>2, <1>3, RequestStays
<1>5. CASE r.pc # "idle"
    <2>1. Follows(N, M)
        BY <1>1, <1>5
    <2>. QED
        BY <1>2, <1>3, <1>4, <2>1, AuthorityStays, CountStays DEF InOrder
<1>6. CASE r.pc = "idle"
    BY <1>4, <1>6 DEF InOrder, StillAuthorised, StillCounted
<1>. QED
    BY <1>5, <1>6

-----------------------------------------------------------------------------
(* The steps every handler is made of.                                     *)

LEMMA RowTypes ==
    /\ FreeUser \in User /\ FreeUser.live = "free"
    /\ FreeTenant \in Tenant /\ FreeLink \in PortalLink
    /\ Empty \in Session
    /\ Empty.user = NoUser /\ Empty.link = NoLink
    /\ Empty.principal = NoTenant /\ Empty.active = NoTenant
BY AccountsAssumption
   DEF FreeUser, FreeTenant, FreeLink, Empty, User, Tenant, PortalLink, Session, Life, Roles

LEMMA EmptyIsHeld == Held(Empty)
BY RowTypes DEF Held

LEMMA IdleIsInOrder ==
    /\ Idle \in Request /\ Idle.pc = "idle"
    /\ \A N : InOrder(Idle, N)
<1>1. (CHOOSE b \in Browsers : TRUE) \in Browsers
    BY AccountsAssumption
<1>2. Idle \in Request
    BY <1>1, RowTypes DEF Idle, Request, Roles
<1>3. Idle.pc = "idle" /\ Idle.sess = Empty
    BY DEF Idle
<1>. QED
    BY <1>2, <1>3, EmptyIsHeld DEF InOrder, RequestOK, StillAuthorised, StillCounted

\* A step that leaves the tables alone keeps every row and writes none.
LEMMA TablesAlone ==
    ASSUME UNCHANGED tables, TablesOK
    PROVE  /\ RowsKept /\ TablesOK'
           /\ \A N : Follows(N, N)
           /\ \A s : Held(s) => Held(s)'
BY DEF tables, TablesOK, RowsKept, Follows, Held

\* The request p is idle in the end.
LEMMA IdleLater == \A r \in {Idle} : \A N : InOrder(r, N)'
<1>1. Held(Empty)'
    BY RowTypes DEF Held
<1>2. Idle.pc = "idle" /\ Idle.sess = Empty
    BY DEF Idle
<1>. QED
    BY <1>1, <1>2 DEF InOrder, RequestOK, StillAuthorised, StillCounted

LEMMA ArriveKeeps ==
    ASSUME IInv, NEW p \in Threads, NEW r \in Request, Arrive(p, r), InOrder(r, {}),
           sent' \subseteq [browser: Browsers, token: Tokens]
    PROVE  IInv'
<1>1. UNCHANGED tables /\ TablesOK
    BY DEF Arrive, IInv
<1>2. /\ RowsKept /\ TablesOK'
      /\ \A N : Follows(N, N)
      /\ \A s : Held(s) => Held(s)'
    BY <1>1, TablesAlone
<1>3. /\ cookie' \in [Browsers -> Session]
      /\ \A b \in Browsers : \A s \in {cookie'[b]} : Held(s)'
    BY <1>2 DEF IInv, Arrive
<1>4. /\ thread' = [thread EXCEPT ![p] = r] /\ news' = [news EXCEPT ![p] = {}]
      /\ thread' \in [Threads -> Request]
      /\ news' \in [Threads -> SUBSET (Tenants \cup Users \cup Links)]
    BY DEF IInv, Arrive
<1>5. requests' \in 0..MaxRequests
    BY AccountsAssumption DEF IInv, Arrive
<1>6. ASSUME NEW q \in Threads
      PROVE  \A x \in {thread'[q]}, N \in {news'[q]} : InOrder(x, N)'
    <2>1. CASE q # p
        <3>1. thread'[q] = thread[q] /\ news'[q] = news[q]
            BY <1>4, <2>1 DEF IInv
        <3>. QED
            BY <1>2, <3>1, OthersStay
    <2>2. CASE q = p
        <3>1. thread'[q] = r /\ news'[q] = {}
            BY <1>4, <2>2 DEF IInv
        <3>2. RequestOK(r) /\ StillAuthorised(r, {}) /\ StillCounted(r, {})
            BY DEF InOrder
        <3>3. InOrder(r, {})'
            BY <1>1, <1>2, <3>2, RequestStays, AuthorityStays, CountStays DEF InOrder
        <3>. QED
            BY <3>1, <3>3
    <2>. QED
        BY <2>1, <2>2
<1>. QED
    BY <1>2, <1>3, <1>4, <1>5, <1>6 DEF IInv

\* A request that is answered at once.
LEMMA AnswerIsInOrder ==
    ASSUME IInv, NEW b \in Browsers, NEW s \in Session, Held(s)
    PROVE  Answer(b, s) \in Request /\ InOrder(Answer(b, s), {})
<1>1. cookie[b] \in Session
    BY DEF IInv
<1>2. Answer(b, s) \in Request
    BY <1>1, IdleIsInOrder DEF Answer, Request
<1>3. Answer(b, s).pc = "reply" /\ Answer(b, s).sess = s
    BY DEF Answer, Idle
<1>. QED
    BY <1>2, <1>3 DEF InOrder, RequestOK, StillAuthorised, StillCounted

LEMMA AnswerKeeps ==
    ASSUME IInv, NEW p \in Threads, NEW b \in Browsers, NEW s \in Session, Held(s),
           Arrive(p, Answer(b, s)), UNCHANGED sent
    PROVE  IInv'
BY AnswerIsInOrder, ArriveKeeps DEF IInv

LEMMA CookiesAreHeld ==
    ASSUME IInv, NEW b \in Browsers
    PROVE  /\ cookie[b] \in Session /\ Held(cookie[b])
           /\ Validated(cookie[b]) \in Session /\ Held(Validated(cookie[b]))
BY RowTypes, EmptyIsHeld DEF IInv, Validated

LEMMA HandleKeeps ==
    ASSUME IInv, NEW p \in Threads, NEW b \in Browsers, NEW k \in Requested, NEW granted,
           k.op # "review", Handle(p, b, k, granted),
           granted /\ Valid(cookie[b]) =>
               /\ Named(k)
               /\ \A w \in Request : w.sess = cookie[b] /\ w.ask = k =>
                     Authorised(w) /\ StillCounted(w, {})
    PROVE  IInv'
<1>. DEFINE s == cookie[b]
            w == [Answer(b, s) EXCEPT !.pc = "write", !.role = RoleOf(s), !.ask = k]
            x == CASE k.op = "update" -> [w EXCEPT !.old = user[k.user]]
                   [] k.op = "updateTenant" -> [w EXCEPT !.was = tenant[k.tenant]]
                   [] OTHER -> w
<1>1. s \in Session /\ Held(s) /\ Validated(s) \in Session /\ Held(Validated(s))
    BY CookiesAreHeld
<1>2. UNCHANGED sent
    BY DEF Handle
<1>3. CASE ~(Valid(s) /\ granted)
    <2>1. Arrive(p, Answer(b, Validated(s)))
        BY <1>3 DEF Handle
    <2>. QED
        BY <1>1, <1>2, <2>1, AnswerKeeps
<1>4. CASE Valid(s) /\ granted
    <2>1. Arrive(p, x)
        BY <1>4 DEF Handle
    <2>2. s.user \in Users /\ RoleOf(s) \in Roles
        BY <1>1, <1>4 DEF Valid, SignedIn, RoleOf, Session, IInv, TablesOK, User
    <2>3. Answer(b, s) \in Request
        BY <1>1, AnswerIsInOrder
    <2>4. w \in Request /\ w.pc = "write" /\ w.ask = k /\ w.sess = s
        <3>1. w \in Request
            BY <2>2, <2>3 DEF Request
        <3>2. w.pc = "write" /\ w.ask = k /\ w.sess = s
            BY DEF Answer, Idle
        <3>. QED
            BY <3>1, <3>2
    <2>5. x \in Request /\ x.pc = "write" /\ x.ask = k /\ x.sess = s
        <3>. HIDE DEF w
        <3>1. CASE k.op = "update"
            <4>1. user[k.user] \in User
                BY <3>1 DEF Requested, IInv, TablesOK
            <4>2. x = [w EXCEPT !.old = user[k.user]]
                BY <3>1
            <4>. QED
                BY <2>4, <4>1, <4>2 DEF Request
        <3>2. CASE k.op = "updateTenant"
            <4>1. tenant[k.tenant] \in Tenant
                BY <3>2 DEF Requested, IInv, TablesOK
            <4>2. x = [w EXCEPT !.was = tenant[k.tenant]]
                BY <3>2
            <4>. QED
                BY <2>4, <4>1, <4>2 DEF Request
        <3>3. CASE k.op # "update" /\ k.op # "updateTenant"
            BY <2>4, <3>3
        <3>. QED
            BY <3>1, <3>2, <3>3
    <2>. HIDE DEF x
    <2>6. Named(k) /\ Authorised(x) /\ StillCounted(x, {})
        BY <1>4, <2>5
    <2>7. s.user # NoUser
        BY <1>4 DEF Valid, SignedIn
    <2>8. InOrder(x, {})
        BY <1>1, <2>5, <2>6, <2>7 DEF InOrder, RequestOK, StillAuthorised
    <2>. QED
        BY <1>2, <2>1, <2>5, <2>8, ArriveKeeps DEF IInv
<1>. QED
    BY <1>3, <1>4

-----------------------------------------------------------------------------
(* What the checks of each handler find.                                   *)

LEMMA AsksAreRequested ==
    ASSUME NEW op, NEW k \in AsksOf(op)
    PROVE  k \in Requested /\ k.op = op
BY AccountsAssumption DEF AsksOf

LEMMA NotCounted ==
    ASSUME NEW k \in Requested, ~Counted(k), NEW w, w.ask = k
    PROVE  StillCounted(w, {})
BY DEF StillCounted

\* A user who is not the last owner of the tenant leaves it another one, or was none.
LEMMA NotTheLast ==
    ASSUME NEW k \in Requested, NEW t, NEW w, w.ask = k, w.sess.active = t,
           k.user \in UsersOf(t), ~LastOwner(k.user, t)
    PROVE  StillCounted(w, {})
<1>1. user[k.user].tenant = t
    BY DEF UsersOf
<1>2. CASE user[k.user].role # "owner"
    BY <1>1, <1>2 DEF StillCounted, Owners
<1>3. CASE ~(Cardinality(Owners(t)) <= 1)
    <2>1. Owners(t) # {k.user}
        <3>1. Cardinality({k.user}) = 1
            BY FS_Singleton
        <3>. QED
            BY <1>3, <3>1
    <2>. QED
        BY <1>1, <2>1 DEF StillCounted
<1>. QED
    BY <1>2, <1>3 DEF LastOwner

LEMMA ApiCreateUserKeeps ==
    ASSUME IInv, NEW p \in Threads, NEW b \in Browsers, ApiCreateUser(p, b)
    PROVE  IInv'
<1>. DEFINE s == cookie[b]
<1>1. PICK k \in AsksOf("create") :
          Handle(p, b, k, /\ RoleOf(s) \in {"owner", "admin"} /\ Assignable(RoleOf(s), k.role)
                          /\ WithEmail(s.active, k.email) = {})
    BY DEF ApiCreateUser
<1>2. k \in Requested /\ k.op = "create"
    BY AsksAreRequested
<1>3. ASSUME RoleOf(s) \in {"owner", "admin"}, Assignable(RoleOf(s), k.role), Valid(s)
      PROVE  /\ Named(k)
             /\ \A w \in Request : w.sess = s /\ w.ask = k =>
                   Authorised(w) /\ StillCounted(w, {})
    BY <1>2, <1>3, NotCounted
       DEF Named, Counted, Authorised, Valid, RoleOf, Assignable
<1>. QED
    BY <1>1, <1>2, <1>3, HandleKeeps

LEMMA ApiUpdateUserKeeps ==
    ASSUME IInv, NEW p \in Threads, NEW b \in Browsers, ApiUpdateUser(p, b)
    PROVE  IInv'
<1>. DEFINE s == cookie[b]
<1>1. PICK k \in AsksOf("update") :
          Handle(p, b, k, /\ RoleOf(s) \in {"owner", "admin"} /\ k.user \in UsersOf(s.active)
                          /\ Assignable(RoleOf(s), k.role)
                          /\ k.role # "owner" => ~LastOwner(k.user, s.active))
    BY DEF ApiUpdateUser
<1>2. k \in Requested /\ k.op = "update"
    BY AsksAreRequested
<1>3. ASSUME RoleOf(s) \in {"owner", "admin"}, k.user \in UsersOf(s.active),
             Assignable(RoleOf(s), k.role),
             k.role # "owner" => ~LastOwner(k.user, s.active), Valid(s)
      PROVE  /\ Named(k)
             /\ \A w \in Request : w.sess = s /\ w.ask = k =>
                   Authorised(w) /\ StillCounted(w, {})
    <2>1. Named(k)
        BY <1>2, <1>3 DEF Named, UsersOf, UsersLive
    <2>2. ASSUME NEW w \in Request, w.sess = s, w.ask = k PROVE Authorised(w)
        BY <1>2, <1>3, <2>2 DEF Authorised, Valid, RoleOf, Assignable
    <2>3. ASSUME NEW w \in Request, w.sess = s, w.ask = k PROVE StillCounted(w, {})
        <3>1. w.sess.active = s.active
            BY <2>3
        <3>2. CASE k.role # "owner"
            BY <1>2, <1>3, <2>3, <3>1, <3>2, NotTheLast
        <3>3. CASE k.role = "owner"
            BY <1>2, <2>3, <3>3, NotCounted DEF Counted
        <3>. QED
            BY <3>2, <3>3
    <2>. QED
        BY <2>1, <2>2, <2>3
<1>. QED
    BY <1>1, <1>2, <1>3, HandleKeeps

LEMMA ApiDeleteUserKeeps ==
    ASSUME IInv, NEW p \in Threads, NEW b \in Browsers, ApiDeleteUser(p, b)
    PROVE  IInv'
<1>. DEFINE s == cookie[b]
<1>1. PICK k \in AsksOf("delete") :
          Handle(p, b, k, /\ RoleOf(s) \in {"owner", "admin"} /\ k.user \in UsersOf(s.active)
                          /\ k.user # s.user
                          /\ user[k.user].role = "owner" => RoleOf(s) = "owner"
                          /\ ~LastOwner(k.user, s.active))
    BY DEF ApiDeleteUser
<1>2. k \in Requested /\ k.op = "delete"
    BY AsksAreRequested
<1>3. ASSUME RoleOf(s) \in {"owner", "admin"}, k.user \in UsersOf(s.active),
             user[k.user].role = "owner" => RoleOf(s) = "owner",
             ~LastOwner(k.user, s.active), Valid(s)
      PROVE  /\ Named(k)
             /\ \A w \in Request : w.sess = s /\ w.ask = k =>
                   Authorised(w) /\ StillCounted(w, {})
    <2>1. Named(k)
        BY <1>2, <1>3 DEF Named, UsersOf, UsersLive
    <2>2. ASSUME NEW w \in Request, w.sess = s, w.ask = k PROVE Authorised(w)
        BY <1>2, <1>3, <2>2 DEF Authorised, Valid, RoleOf
    <2>3. ASSUME NEW w \in Request, w.sess = s, w.ask = k PROVE StillCounted(w, {})
        <3>1. w.sess.active = s.active
            BY <2>3
        <3>. QED
            BY <1>2, <1>3, <2>3, <3>1, NotTheLast
    <2>. QED
        BY <2>1, <2>2, <2>3
<1>. QED
    BY <1>1, <1>2, <1>3, HandleKeeps

LEMMA ApiResetPasswordKeeps ==
    ASSUME IInv, NEW p \in Threads, NEW b \in Browsers, ApiResetPassword(p, b)
    PROVE  IInv'
<1>. DEFINE s == cookie[b]
<1>1. PICK k \in AsksOf("password") :
          Handle(p, b, k, /\ RoleOf(s) \in {"owner", "admin"} /\ k.user \in UsersOf(s.active)
                          /\ user[k.user].role = "owner" => RoleOf(s) = "owner")
    BY DEF ApiResetPassword
<1>2. k \in Requested /\ k.op = "password"
    BY AsksAreRequested
<1>3. ASSUME RoleOf(s) \in {"owner", "admin"}, k.user \in UsersOf(s.active),
             user[k.user].role = "owner" => RoleOf(s) = "owner", Valid(s)
      PROVE  /\ Named(k)
             /\ \A w \in Request : w.sess = s /\ w.ask = k =>
                   Authorised(w) /\ StillCounted(w, {})
    BY <1>2, <1>3, NotCounted
       DEF Named, UsersOf, UsersLive, Counted, Authorised, Valid, RoleOf
<1>. QED
    BY <1>1, <1>2, <1>3, HandleKeeps

LEMMA CreateTenantKeeps ==
    ASSUME IInv, NEW p \in Threads, NEW b \in Browsers,
           NEW k \in AsksOf("createTenant"), CreateTenant(p, b, k)
    PROVE  IInv'
<1>. DEFINE s == cookie[b]
<1>1. Handle(p, b, k, /\ RoleOf(s) \in {"owner", "admin"} /\ MayCreate(s, k)
                      /\ NamedTenant(k.name) = {})
    BY DEF CreateTenant
<1>2. k \in Requested /\ k.op = "createTenant"
    BY AsksAreRequested
<1>3. ASSUME RoleOf(s) \in {"owner", "admin"}, MayCreate(s, k), Valid(s)
      PROVE  /\ Named(k)
             /\ \A w \in Request : w.sess = s /\ w.ask = k =>
                   Authorised(w) /\ StillCounted(w, {})
    BY <1>2, <1>3, NotCounted DEF Named, Counted, Authorised, Valid, RoleOf, MayCreate
<1>. QED
    BY <1>1, <1>2, <1>3, HandleKeeps

LEMMA UpdateTenantKeeps ==
    ASSUME IInv, NEW p \in Threads, NEW b \in Browsers, NEW k \in Requested,
           k.op = "updateTenant", UpdateTenant(p, b, k)
    PROVE  IInv'
<1>. DEFINE s == cookie[b]
<1>1. Handle(p, b, k, /\ RoleOf(s) \in {"owner", "admin"} /\ k.tenant \in TenantsLive
                      /\ SameOrDescendant(s.principal, k.tenant))
    BY DEF UpdateTenant
<1>2. ASSUME RoleOf(s) \in {"owner", "admin"}, SameOrDescendant(s.principal, k.tenant), Valid(s)
      PROVE  /\ Named(k)
             /\ \A w \in Request : w.sess = s /\ w.ask = k =>
                   Authorised(w) /\ StillCounted(w, {})
    BY <1>2, NotCounted DEF Named, Counted, Authorised, Valid, RoleOf
<1>. QED
    BY <1>1, <1>2, HandleKeeps

LEMMA WebUpdateTenantKeeps ==
    ASSUME IInv, NEW p \in Threads, NEW b \in Browsers, WebUpdateTenant(p, b)
    PROVE  IInv'
<1>1. PICK k \in AsksOf("updateTenant") :
          UpdateTenant(p, b, [k EXCEPT !.name = tenant[k.tenant].name])
    BY DEF WebUpdateTenant
<1>. DEFINE m == [k EXCEPT !.name = tenant[k.tenant].name]
<1>2. k \in [op: {"updateTenant"}, tenant: Tenants, open: BOOLEAN, name: Names]
    BY AsksAreRequested DEF Requested
<1>3. tenant[k.tenant].name \in Names
    BY <1>2 DEF IInv, TablesOK, Tenant
<1>4. m \in [op: {"updateTenant"}, tenant: Tenants, open: BOOLEAN, name: Names]
    BY <1>2, <1>3
<1>5. m \in Requested /\ m.op = "updateTenant"
    BY <1>4 DEF Requested
<1>. QED
    BY <1>1, <1>5, UpdateTenantKeeps

LEMMA ApiDeleteTenantKeeps ==
    ASSUME IInv, NEW p \in Threads, NEW b \in Browsers, ApiDeleteTenant(p, b)
    PROVE  IInv'
<1>. DEFINE s == cookie[b]
<1>1. PICK k \in AsksOf("deleteTenant") :
          Handle(p, b, k, /\ RoleOf(s) \in {"owner", "admin"} /\ k.tenant \in TenantsLive
                          /\ k.tenant # s.principal /\ SameOrDescendant(s.principal, k.tenant))
    BY DEF ApiDeleteTenant
<1>2. k \in Requested /\ k.op = "deleteTenant"
    BY AsksAreRequested
<1>3. ASSUME RoleOf(s) \in {"owner", "admin"}, SameOrDescendant(s.principal, k.tenant), Valid(s)
      PROVE  /\ Named(k)
             /\ \A w \in Request : w.sess = s /\ w.ask = k =>
                   Authorised(w) /\ StillCounted(w, {})
    BY <1>2, <1>3, NotCounted DEF Named, Counted, Authorised, Valid, RoleOf
<1>. QED
    BY <1>1, <1>2, <1>3, HandleKeeps

LEMMA ApiCreateLinkKeeps ==
    ASSUME IInv, NEW p \in Threads, NEW b \in Browsers, ApiCreateLink(p, b)
    PROVE  IInv'
<1>. DEFINE s == cookie[b]
<1>1. PICK k \in AsksOf("createLink") :
          Handle(p, b, k, RoleOf(s) \in {"owner", "admin", "dev"})
    BY DEF ApiCreateLink
<1>2. k \in Requested /\ k.op = "createLink"
    BY AsksAreRequested
<1>3. ASSUME RoleOf(s) \in {"owner", "admin", "dev"}, Valid(s)
      PROVE  /\ Named(k)
             /\ \A w \in Request : w.sess = s /\ w.ask = k =>
                   Authorised(w) /\ StillCounted(w, {})
    BY <1>2, <1>3, NotCounted DEF Named, Counted, Authorised, Valid, RoleOf
<1>. QED
    BY <1>1, <1>2, <1>3, HandleKeeps

LEMMA ApiRevokeLinkKeeps ==
    ASSUME IInv, NEW p \in Threads, NEW b \in Browsers, ApiRevokeLink(p, b)
    PROVE  IInv'
<1>. DEFINE s == cookie[b]
<1>1. PICK k \in AsksOf("revokeLink") :
          Handle(p, b, k, /\ RoleOf(s) \in {"owner", "admin"} /\ link[k.link].live = "live"
                          /\ link[k.link].tenant = s.active)
    BY DEF ApiRevokeLink
<1>2. k \in Requested /\ k.op = "revokeLink"
    BY AsksAreRequested
<1>3. ASSUME RoleOf(s) \in {"owner", "admin"}, link[k.link].live = "live",
             link[k.link].tenant = s.active, Valid(s)
      PROVE  /\ Named(k)
             /\ \A w \in Request : w.sess = s /\ w.ask = k =>
                   Authorised(w) /\ StillCounted(w, {})
    BY <1>2, <1>3, NotCounted DEF Named, Counted, Authorised, Valid, RoleOf
<1>. QED
    BY <1>1, <1>2, <1>3, HandleKeeps

-----------------------------------------------------------------------------
(* Requests that change the session alone.                                 *)

LEMMA SwitchTenantKeeps ==
    ASSUME IInv, NEW p \in Threads, NEW b \in Browsers, SwitchTenant(p, b)
    PROVE  IInv'
<1>. DEFINE s == Validated(cookie[b])
<1>1. PICK t \in Tenants :
          Arrive(p, Answer(b, IF SignedIn(s) /\ SameOrDescendant(s.principal, t)
                              THEN [s EXCEPT !.active = t] ELSE s))
    BY DEF SwitchTenant
<1>2. s \in Session /\ Held(s)
    BY CookiesAreHeld
<1>. HIDE DEF s
<1>3. CASE SignedIn(s)
    <2>1. [s EXCEPT !.active = t] \in Session
        BY <1>2 DEF Session
    <2>2. Held([s EXCEPT !.active = t])
        <3>1. s.user # NoUser
            BY <1>3 DEF SignedIn
        <3>. QED
            BY <1>2, <3>1 DEF Held, Session
    <2>. QED
        BY <1>1, <1>2, <2>1, <2>2, AnswerKeeps DEF SwitchTenant
<1>4. CASE ~SignedIn(s)
    BY <1>1, <1>2, <1>4, AnswerKeeps DEF SwitchTenant
<1>. QED
    BY <1>3, <1>4

LEMMA TokenIsApart ==
    ASSUME NEW s \in Session, Held(s), NEW k \in Tokens \cup {NoToken}
    PROVE  [s EXCEPT !.token = k] \in Session /\ Held([s EXCEPT !.token = k])
<1>1. [s EXCEPT !.token = k] \in Session
    BY DEF Session
<1>. QED
    BY <1>1 DEF Held, Session

LEMMA LoginStartKeeps ==
    ASSUME IInv, NEW p \in Threads, NEW b \in Browsers, LoginStart(p, b)
    PROVE  IInv'
<1>1. PICK k \in Tokens : /\ Arrive(p, Answer(b, [cookie[b] EXCEPT !.token = k]))
                          /\ sent' = sent \cup {[browser |-> b, token |-> k]}
    BY DEF LoginStart
<1>2. [cookie[b] EXCEPT !.token = k] \in Session /\ Held([cookie[b] EXCEPT !.token = k])
    BY CookiesAreHeld, TokenIsApart
<1>3. sent' \subseteq [browser: Browsers, token: Tokens]
    BY <1>1 DEF IInv
<1>. QED
    BY <1>1, <1>2, <1>3, AnswerIsInOrder, ArriveKeeps

LEMMA CallbackKeeps ==
    ASSUME IInv, NEW p \in Threads, NEW x \in sent, Callback(p, x)
    PROVE  IInv'
<1>. DEFINE b == x.browser
            s == cookie[b]
            popped == Answer(b, [s EXCEPT !.token = NoToken])
            e == [popped EXCEPT !.pc = "exchange"]
<1>1. b \in Browsers
    BY DEF IInv
<1>2. /\ s \in Session /\ Held(s)
      /\ [s EXCEPT !.token = NoToken] \in Session /\ Held([s EXCEPT !.token = NoToken])
    BY <1>1, CookiesAreHeld, TokenIsApart
<1>3. sent' \subseteq [browser: Browsers, token: Tokens]
    BY DEF Callback, IInv
<1>4. popped \in Request /\ InOrder(popped, {})
    BY <1>1, <1>2, AnswerIsInOrder
<1>5. e \in Request /\ InOrder(e, {})
    <2>1. popped.sess = [s EXCEPT !.token = NoToken]
        BY DEF Answer, Idle
    <2>. HIDE DEF popped
    <2>2. e \in Request
        BY <1>4 DEF Request
    <2>3. e.pc = "exchange" /\ e.sess = popped.sess
        BY <1>4 DEF Request
    <2>. QED
        BY <1>2, <2>1, <2>2, <2>3 DEF InOrder, RequestOK, StillAuthorised, StillCounted
<1>6. Answer(b, s) \in Request /\ InOrder(Answer(b, s), {})
    BY <1>1, <1>2, AnswerIsInOrder
<1>7. \/ Arrive(p, Answer(b, s)) \/ Arrive(p, e) \/ Arrive(p, popped)
    BY DEF Callback
<1>. QED
    BY <1>3, <1>4, <1>5, <1>6, <1>7, ArriveKeeps

\* What Found names is there, and the user it finds belongs to the tenant it finds.
LEMMA WhatIsFound ==
    ASSUME NEW c
    PROVE  /\ Found(c)[1] \in TenantsLive \cup {NoTenant}
           /\ \/ Found(c)[2] = NoUser
              \/ Found(c)[2] \in UsersOf(Found(c)[1])
<1>. DEFINE homes == NamedTenant(c.name)
            home == IF homes = {} THEN NoTenant ELSE CHOOSE t \in homes : TRUE
            known == IF c.subject # NoSubject /\ WithSubject(home, c.subject) # {}
                     THEN WithSubject(home, c.subject) ELSE WithEmail(home, c.email)
            who == IF known = {} THEN NoUser ELSE CHOOSE u \in known : TRUE
<1>1. Found(c)[1] = home /\ Found(c)[2] = who
    BY DEF Found
<1>2. homes \subseteq TenantsLive
    BY DEF NamedTenant
<1>3. home \in TenantsLive \cup {NoTenant}
    BY <1>2
<1>4. known \subseteq UsersOf(home)
    <2>. HIDE DEF home
    <2>. QED
        BY DEF WithSubject, WithEmail
<1>5. who = NoUser \/ who \in known
    <2>. HIDE DEF known
    <2>. QED
        OBVIOUS
<1>. HIDE DEF home, known, who
<1>. QED
    BY <1>1, <1>3, <1>4, <1>5

LEMMA ProvisioningIsInOrder ==
    ASSUME IInv, NEW r \in Request, Held(r.sess), NEW c \in Claim
    PROVE  /\ Provisioning(r, c) \in Request
           /\ \A N : InOrder(Provisioning(r, c), N)
<1>. DEFINE home == Found(c)[1]
            who == Found(c)[2]
            x == Provisioning(r, c)
            o == IF who = NoUser THEN FreeUser ELSE user[who]
<1>1. x = [r EXCEPT !.pc = "signin", !.ask = c, !.home = home, !.seen = who, !.old = o]
    BY DEF Provisioning
<1>2. /\ home \in Tenants \cup {NoTenant}
      /\ who = NoUser \/ who \in UsersOf(home)
    BY WhatIsFound DEF TenantsLive
<1>3. /\ who \in Users \cup {NoUser}
      /\ who # NoUser => /\ user[who] \in User
                         /\ user[who].live = "live" /\ user[who].tenant = home
    BY <1>2, AccountsAssumption DEF UsersOf, UsersLive, IInv, TablesOK
<1>4. /\ o \in User
      /\ who = NoUser => o.live = "free"
      /\ who # NoUser => o.live # "free"
    BY <1>3, RowTypes
<1>. HIDE DEF home, who, o, x
<1>5. x \in Request
    BY <1>1, <1>2, <1>3, <1>4 DEF Request
<1>6. /\ x.pc = "signin" /\ x.ask = c /\ x.home = home /\ x.seen = who /\ x.old = o
      /\ x.sess = r.sess
    BY <1>1 DEF Request
<1>7. \A N : InOrder(x, N)
    BY <1>3, <1>4, <1>6 DEF InOrder, RequestOK, StillAuthorised, StillCounted
<1>. QED
    BY <1>5, <1>7 DEF x

LEMMA LoginLocalKeeps ==
    ASSUME IInv, NEW p \in Threads, NEW b \in Browsers, LoginLocal(p, b)
    PROVE  IInv'
<1>1. LocalClaims \in Claim
    BY AccountsAssumption DEF LocalClaims, Claim
<1>2. Answer(b, cookie[b]) \in Request /\ Held(Answer(b, cookie[b]).sess)
    BY CookiesAreHeld, AnswerIsInOrder DEF InOrder, RequestOK
<1>3. /\ Provisioning(Answer(b, cookie[b]), LocalClaims) \in Request
      /\ InOrder(Provisioning(Answer(b, cookie[b]), LocalClaims), {})
    BY <1>1, <1>2, ProvisioningIsInOrder
<1>. QED
    BY <1>3, ArriveKeeps DEF LoginLocal, IInv

LEMMA PortalClearedIsHeld ==
    ASSUME NEW s \in Session, Held(s)
    PROVE  PortalCleared(s) \in Session /\ Held(PortalCleared(s))
<1>1. PortalCleared(s) \in Session
    BY DEF PortalCleared, Session
<1>. QED
    BY <1>1 DEF Held, PortalCleared, Session

LEMMA OpenLinkKeeps ==
    ASSUME IInv, NEW p \in Threads, NEW b \in Browsers, OpenLink(p, b)
    PROVE  IInv'
<1>. DEFINE s == cookie[b]
<1>1. PICK l \in Links :
          /\ link[l].live # "free"
          /\ Arrive(p, Answer(b, IF Resolves(l)
                                 THEN [s EXCEPT !.link = l, !.feedback = link[l].feedback]
                                 ELSE s))
    BY DEF OpenLink
<1>2. s \in Session /\ Held(s)
    BY CookiesAreHeld
<1>3. [s EXCEPT !.link = l, !.feedback = link[l].feedback] \in Session
    BY <1>2 DEF Session, IInv, TablesOK, PortalLink
<1>4. Held([s EXCEPT !.link = l, !.feedback = link[l].feedback])
    BY <1>1, <1>2 DEF Held, Session
<1>5. UNCHANGED sent
    BY DEF OpenLink
<1>6. CASE Resolves(l)
    BY <1>1, <1>3, <1>4, <1>5, <1>6, AnswerKeeps
<1>7. CASE ~Resolves(l)
    BY <1>1, <1>2, <1>5, <1>7, AnswerKeeps
<1>. QED
    BY <1>6, <1>7

LEMMA SaveReviewKeeps ==
    ASSUME IInv, NEW p \in Threads, NEW b \in Browsers, SaveReview(p, b)
    PROVE  IInv'
<1>. DEFINE s == cookie[b]
<1>1. PICK k \in AsksOf("review") :
          /\ PortalOpen(s) /\ s.feedback
          /\ Arrive(p, [Answer(b, s) EXCEPT !.pc = "write", !.ask = k])
          /\ UNCHANGED sent
    BY DEF SaveReview
<1>. DEFINE w == [Answer(b, s) EXCEPT !.pc = "write", !.ask = k]
<1>2. k \in Requested /\ k.op = "review"
    BY AsksAreRequested
<1>3. s \in Session /\ Held(s)
    BY CookiesAreHeld
<1>4. Answer(b, s) \in Request
    BY <1>3, AnswerIsInOrder
<1>5. w \in Request
    BY <1>2, <1>4 DEF Request
<1>6. w.pc = "write" /\ w.ask = k /\ w.sess = s
    BY DEF Answer, Idle
<1>. HIDE DEF w
<1>7. RequestOK(w)
    BY <1>1, <1>2, <1>3, <1>6 DEF RequestOK, Named, PortalOpen
<1>8. Authorised(w)
    BY <1>1, <1>2, <1>3, <1>6 DEF Authorised, PortalOpen, Held
<1>9. InOrder(w, {})
    BY <1>2, <1>6, <1>7, <1>8, NotCounted DEF InOrder, StillAuthorised, Counted
<1>10. Arrive(p, w)
    BY <1>1 DEF w
<1>. QED
    BY <1>1, <1>5, <1>9, <1>10, ArriveKeeps DEF IInv

-----------------------------------------------------------------------------
(* Commits.                                                                *)

\* The rest of the state after a step that sets request p to r, and in which the others
\* hear of what it writes.
LEMMA MoveKeeps ==
    ASSUME IInv, RowsKept, TablesOK', NEW p \in Threads, NEW r \in Request,
           thread' = [thread EXCEPT ![p] = r],
           \A x \in {r} : \A N : InOrder(x, N)',
           news' \in [Threads -> SUBSET (Tenants \cup Users \cup Links)],
           \A q \in Threads \ {p} : thread[q].pc # "idle" => Follows(news[q], news'[q]),
           cookie' \in [Browsers -> Session],
           \A b \in Browsers : \A s \in {cookie'[b]} : Held(s)',
           UNCHANGED <<sent, requests>>
    PROVE  IInv'
<1>1. thread' \in [Threads -> Request]
    BY DEF IInv
<1>2. ASSUME NEW q \in Threads
      PROVE  \A x \in {thread'[q]}, N \in {news'[q]} : InOrder(x, N)'
    <2>1. CASE q # p
        <3>1. thread'[q] = thread[q]
            BY <2>1 DEF IInv
        <3>. QED
            BY <2>1, <3>1, OthersStay
    <2>2. CASE q = p
        <3>1. thread'[q] = r
            BY <2>2 DEF IInv
        <3>. QED
            BY <3>1
    <2>. QED
        BY <2>1, <2>2
<1>3. /\ sent' \subseteq [browser: Browsers, token: Tokens]
      /\ requests' \in 0..MaxRequests
    BY DEF IInv
<1>. QED
    BY <1>1, <1>2, <1>3 DEF IInv

LEMMA CookiesStay ==
    ASSUME IInv, RowsKept, cookie' = cookie
    PROVE  /\ cookie' \in [Browsers -> Session]
           /\ \A b \in Browsers : \A s \in {cookie'[b]} : Held(s)'
<1>1. ASSUME NEW b \in Browsers, NEW s, s = cookie[b] PROVE Held(s)'
    BY <1>1, CookiesAreHeld, HeldStays DEF IInv
<1>. QED
    BY <1>1 DEF IInv

LEMMA FailKeeps ==
    ASSUME IInv, NEW p \in Threads, Fails(p)
    PROVE  IInv'
<1>1. UNCHANGED tables /\ TablesOK
    BY DEF Fails, IInv
<1>2. RowsKept /\ TablesOK' /\ \A N : Follows(N, N)
    BY <1>1, TablesAlone
<1>3. /\ thread' = [thread EXCEPT ![p] = Idle] /\ news' = [news EXCEPT ![p] = {}]
      /\ news' \in [Threads -> SUBSET (Tenants \cup Users \cup Links)]
      /\ UNCHANGED <<sent, requests>> /\ cookie' = cookie
    BY DEF Fails, IInv
<1>4. \A q \in Threads \ {p} : Follows(news[q], news'[q])
    BY <1>2, <1>3 DEF IInv
<1>. QED
    BY <1>2, <1>3, <1>4, CookiesStay, MoveKeeps, IdleIsInOrder, IdleLater

LEMMA CommitKeeps ==
    ASSUME IInv, RowsKept, TablesOK', NEW p \in Threads,
           NEW S \in SUBSET (Tenants \cup Users \cup Links), Follows({}, S),
           NEW s \in Session, \A x \in {s} : Held(x)', Committed(p, S, s)
    PROVE  IInv'
<1>. DEFINE r == [thread[p] EXCEPT !.pc = "reply", !.sess = s]
<1>1. r \in Request /\ r.pc = "reply" /\ r.sess = s
    BY DEF IInv, Request
<1>2. /\ thread' = [thread EXCEPT ![p] = r] /\ news' = Told(p, S)
      /\ UNCHANGED <<sent, requests>> /\ cookie' = cookie
    BY DEF Committed, IInv
<1>. HIDE DEF r
<1>3. ASSUME NEW x, x = r, NEW N PROVE InOrder(x, N)'
    BY <1>1, <1>3 DEF InOrder, RequestOK, StillAuthorised, StillCounted
<1>4. news' \in [Threads -> SUBSET (Tenants \cup Users \cup Links)]
    BY <1>2 DEF Told, IInv
<1>5. ASSUME NEW q \in Threads \ {p}, thread[q].pc # "idle"
      PROVE  Follows(news[q], news'[q])
    <2>1. news'[q] = news[q] \cup S
        BY <1>2, <1>5 DEF Told
    <2>. QED
        BY <2>1 DEF Follows
<1>6. \A x \in {r} : \A N : InOrder(x, N)'
    BY <1>3
<1>. QED
    BY <1>1, <1>2, <1>4, <1>5, <1>6, CookiesStay, MoveKeeps

\* A commit of p that answers with the session the request has.
LEMMA SessionKept ==
    ASSUME IInv, RowsKept, TablesOK', NEW p \in Threads,
           NEW S \in SUBSET (Tenants \cup Users \cup Links), Follows({}, S),
           Committed(p, S, thread[p].sess)
    PROVE  IInv'
<1>1. PICK s : s = thread[p].sess
    OBVIOUS
<1>2. s \in Session /\ Held(s)
    BY <1>1 DEF IInv, InOrder, RequestOK, Request
<1>3. Held(s)' /\ Committed(p, S, s)
    BY <1>1, <1>2, HeldStays DEF IInv
<1>4. \A x \in {s} : Held(x)'
    BY <1>3
<1>. QED
    BY <1>2, <1>3, <1>4, CommitKeeps

LEMMA WritesWhat ==
    ASSUME IInv, NEW p \in Threads, NEW op, Writing(p, op)
    PROVE  /\ thread[p] \in Request /\ thread[p].ask \in Requested
           /\ thread[p].ask.op = op /\ Named(thread[p].ask) /\ Held(thread[p].sess)
           /\ thread[p].sess \in Session
BY DEF IInv, Writing, InOrder, RequestOK, Request

LEMMA InsertUserKeeps ==
    ASSUME IInv, NEW p \in Threads, InsertUser(p)
    PROVE  IInv'
<1>. DEFINE r == thread[p]
            t == r.sess.active
            u == Fresh(Users, user)
            row == [live |-> "live", tenant |-> t, role |-> r.ask.role,
                    email |-> r.ask.email, subject |-> NoSubject]
<1>1. Writing(p, "create") /\ Room(Users, user)
    BY DEF InsertUser
<1>2. CASE ~(t \in TenantsLive /\ WithEmail(t, r.ask.email) = {})
    BY <1>2, FailKeeps DEF InsertUser
<1>3. CASE t \in TenantsLive /\ WithEmail(t, r.ask.email) = {}
    <2>1. /\ user' = [user EXCEPT ![u] = row] /\ UNCHANGED <<tenant, link>>
          /\ Committed(p, {u}, r.sess)
        BY <1>3 DEF InsertUser
    <2>2. u \in Users /\ user[u].live = "free"
        BY <1>1, FreshIsFree
    <2>3. t \in Tenants
        BY <1>3 DEF TenantsLive
    <2>4. r.ask.role \in Roles /\ r.ask.email \in Emails
        BY <1>1, WritesWhat DEF Requested
    <2>. HIDE DEF u, t, r
    <2>5. row \in User /\ row.tenant = t
        BY <2>3, <2>4 DEF User, Life
    <2>. HIDE DEF row
    <2>6. RowsKept /\ TablesOK' /\ Follows({}, {u})
        BY <2>1, <2>2, <2>3, <2>5 DEF RowsKept, TablesOK, Follows, IInv
    <2>. QED
        BY <2>1, <2>2, <2>6, SessionKept DEF r
<1>. QED
    BY <1>2, <1>3

LEMMA SaveUserKeeps ==
    ASSUME IInv, NEW p \in Threads, SaveUser(p)
    PROVE  IInv'
<1>. DEFINE r == thread[p]
            u == r.ask.user
<1>1. Writing(p, "update")
    BY DEF SaveUser
<1>2. u \in Users /\ r.ask.role \in Roles
    BY <1>1, WritesWhat DEF Requested
<1>3. CASE Fails(p)
    BY <1>3, FailKeeps
<1>4. CASE Committed(p, {}, r.sess) /\ UNCHANGED tables
    <2>1. RowsKept /\ TablesOK' /\ Follows({}, {})
        BY <1>4, TablesAlone DEF IInv
    <2>. QED
        BY <1>4, <2>1, SessionKept
<1>5. CASE /\ user' = [user EXCEPT ![u].role = r.ask.role]
           /\ Committed(p, {u}, r.sess) /\ UNCHANGED <<tenant, link>>
    <2>. HIDE DEF u, r
    <2>1. /\ TablesOK'
          /\ \A x \in Users : /\ user'[x].live = user[x].live
                             /\ user'[x].tenant = user[x].tenant
        BY <1>2, <1>5 DEF TablesOK, IInv, User
    <2>2. RowsKept /\ Follows({}, {u})
        BY <1>5, <2>1 DEF RowsKept, Follows, IInv, TablesOK
    <2>. QED
        BY <1>2, <1>5, <2>1, <2>2, SessionKept DEF r
<1>. QED
    BY <1>3, <1>4, <1>5 DEF SaveUser

LEMMA DropUserKeeps ==
    ASSUME IInv, NEW p \in Threads, DropUser(p)
    PROVE  IInv'
<1>. DEFINE r == thread[p]
            u == r.ask.user
<1>1. Writing(p, "delete")
    BY DEF DropUser
<1>2. u \in Users /\ user[u].live # "free"
    BY <1>1, WritesWhat DEF Requested, Named
<1>3. /\ user' = [user EXCEPT ![u].live = "gone"]
      /\ Committed(p, {u}, r.sess) /\ UNCHANGED <<tenant, link>>
    BY DEF DropUser
<1>. HIDE DEF u, r
<1>4. \A x \in Users : /\ user'[x].tenant = user[x].tenant
                       /\ user'[x].live = IF x = u THEN "gone" ELSE user[x].live
    BY <1>3 DEF TablesOK, IInv, User
<1>5. user' \in [Users -> User]
    BY <1>2, <1>3 DEF TablesOK, IInv, User, Life
<1>6. TablesOK' /\ RowsKept /\ Follows({}, {u})
    BY <1>2, <1>3, <1>4, <1>5 DEF RowsKept, Follows, IInv, TablesOK
<1>. QED
    BY <1>2, <1>3, <1>6, SessionKept DEF r

LEMMA SavePasswordKeeps ==
    ASSUME IInv, NEW p \in Threads, SavePassword(p)
    PROVE  IInv'
<1>. DEFINE u == thread[p].ask.user
<1>1. u \in Users
    BY WritesWhat DEF Requested, SavePassword
<1>2. CASE Fails(p)
    BY <1>2, FailKeeps
<1>3. CASE Committed(p, {u}, thread[p].sess) /\ UNCHANGED tables
    <2>1. RowsKept /\ TablesOK' /\ Follows({}, {u})
        BY <1>3, TablesAlone DEF IInv, Follows
    <2>. QED
        BY <1>1, <1>3, <2>1, SessionKept
<1>. QED
    BY <1>2, <1>3 DEF SavePassword

LEMMA NewTenantKeepsRows ==
    ASSUME TablesOK, Room(Tenants, tenant), NEW parent \in Tenants \cup {NoTenant},
           NEW open \in BOOLEAN, NEW name \in Names,
           NewTenant(Fresh(Tenants, tenant), parent, open, name)
    PROVE  /\ Fresh(Tenants, tenant) \in Tenants
           /\ tenant' \in [Tenants -> Tenant]
           /\ \A t \in Tenants : tenant'[t] # tenant[t] => t = Fresh(Tenants, tenant)
<1>. DEFINE t == Fresh(Tenants, tenant)
            row == [live |-> "live", parent |-> parent, open |-> open, name |-> name]
<1>1. t \in Tenants
    BY FreshIsFree
<1>2. row \in Tenant
    BY DEF Tenant, Life
<1>3. tenant' = [tenant EXCEPT ![t] = row]
    BY DEF NewTenant
<1>. HIDE DEF t, row
<1>4. tenant' \in [Tenants -> Tenant] /\ \A x \in Tenants : tenant'[x] # tenant[x] => x = t
    BY <1>1, <1>2, <1>3 DEF TablesOK
<1>. QED
    BY <1>1, <1>4 DEF t

LEMMA InsertTenantKeeps ==
    ASSUME IInv, NEW p \in Threads, InsertTenant(p)
    PROVE  IInv'
<1>. DEFINE k == thread[p].ask
            t == Fresh(Tenants, tenant)
<1>1. CASE Fails(p)
    BY <1>1, FailKeeps
<1>2. CASE /\ NewTenant(t, k.parent, k.open, k.name)
           /\ Committed(p, {t}, thread[p].sess)
           /\ UNCHANGED <<user, link>>
    <2>1. k.parent \in Tenants \cup {NoTenant} /\ k.open \in BOOLEAN /\ k.name \in Names
        BY WritesWhat DEF Requested, InsertTenant
    <2>2. /\ t \in Tenants /\ tenant' \in [Tenants -> Tenant]
          /\ \A x \in Tenants : tenant'[x] # tenant[x] => x = t
        BY <1>2, <2>1, NewTenantKeepsRows DEF InsertTenant, IInv
    <2>3. TablesOK' /\ RowsKept /\ Follows({}, {t})
        BY <1>2, <2>2 DEF TablesOK, RowsKept, Follows, IInv
    <2>. QED
        BY <1>2, <2>2, <2>3, SessionKept
<1>. QED
    BY <1>1, <1>2 DEF InsertTenant

LEMMA SaveTenantKeeps ==
    ASSUME IInv, NEW p \in Threads, SaveTenant(p)
    PROVE  IInv'
<1>. DEFINE r == thread[p]
            t == r.ask.tenant
            name == IF r.ask.name # r.was.name THEN r.ask.name ELSE tenant[t].name
            open == IF r.ask.open # r.was.open THEN r.ask.open ELSE tenant[t].open
<1>1. CASE Fails(p)
    BY <1>1, FailKeeps
<1>2. CASE /\ tenant' = [tenant EXCEPT ![t].open = open, ![t].name = name]
           /\ Committed(p, {t}, r.sess) /\ UNCHANGED <<user, link>>
    <2>1. t \in Tenants /\ r.ask.open \in BOOLEAN /\ r.ask.name \in Names
        BY WritesWhat DEF Requested, SaveTenant
    <2>2. tenant[t] \in Tenant
        BY <2>1 DEF IInv, TablesOK
    <2>3. open \in BOOLEAN /\ name \in Names
        BY <2>1, <2>2 DEF Tenant
    <2>. HIDE DEF t, open, name, r
    <2>4. /\ tenant' \in [Tenants -> Tenant]
          /\ \A x \in Tenants : tenant'[x] # tenant[x] => x = t
        BY <1>2, <2>1, <2>2, <2>3 DEF IInv, TablesOK, Tenant
    <2>5. TablesOK' /\ RowsKept /\ Follows({}, {t})
        BY <1>2, <2>4 DEF TablesOK, RowsKept, Follows, IInv
    <2>. QED
        BY <1>2, <2>1, <2>5, SessionKept DEF r
<1>. QED
    BY <1>1, <1>2 DEF SaveTenant

\* Deleting a tenant writes its row, those of its sub-tenants, its users and its links.
LEMMA DropTenantKeepsRows ==
    ASSUME TablesOK, NEW t \in Tenants,
           NEW children, children = {c \in Tenants : tenant[c].parent = t},
           NEW lost, lost = {u \in UsersLive : user[u].tenant = t},
           NEW closed, closed = {l \in Links : link[l].live = "live" /\ link[l].tenant = t},
           tenant' = [c \in Tenants |->
                        IF c = t THEN [tenant[c] EXCEPT !.live = "gone", !.parent = NoTenant]
                        ELSE IF c \in children THEN [tenant[c] EXCEPT !.parent = NoTenant]
                        ELSE tenant[c]],
           user' = [u \in Users |-> IF u \in lost THEN [user[u] EXCEPT !.live = "gone"]
                                    ELSE user[u]],
           link' = [l \in Links |-> IF l \in closed THEN [link[l] EXCEPT !.live = "gone"]
                                    ELSE link[l]]
    PROVE  TablesOK' /\ RowsKept /\ Follows({}, {t} \cup children \cup lost \cup closed)
<1>1. tenant' \in [Tenants -> Tenant]
    BY DEF TablesOK, Tenant, Life
<1>2. user' \in [Users -> User]
    BY DEF TablesOK, User, Life
<1>3. link' \in [Links -> PortalLink]
    BY DEF TablesOK, PortalLink, Life
<1>4. \A u \in Users : /\ user'[u].tenant = user[u].tenant
                       /\ user'[u].live = IF u \in lost THEN "gone" ELSE user[u].live
    BY DEF TablesOK, User
<1>5. \A l \in Links : /\ link'[l].tenant = link[l].tenant
                       /\ link'[l].feedback = link[l].feedback
                       /\ link'[l].live = IF l \in closed THEN "gone" ELSE link[l].live
    BY DEF TablesOK, PortalLink
<1>6. lost \subseteq {u \in Users : user[u].live = "live"}
    BY DEF UsersLive
<1>7. TablesOK'
    BY <1>1, <1>2, <1>3, <1>4, <1>6 DEF TablesOK
<1>8. RowsKept
    <2>1. ASSUME NEW u \in Users, user[u].live # "free"
          PROVE  user'[u].live # "free" /\ user'[u].tenant = user[u].tenant
        <3>1. user'[u].live = "gone" \/ user'[u].live = user[u].live
            BY <1>4
        <3>. QED
            BY <1>4, <2>1, <3>1
    <2>2. ASSUME NEW l \in Links, link[l].live # "free"
          PROVE  link'[l].live # "free"
        <3>1. link'[l].live = "gone" \/ link'[l].live = link[l].live
            BY <1>5
        <3>. QED
            BY <2>2, <3>1
    <2>. QED
        BY <1>5, <2>1, <2>2 DEF RowsKept
<1>9. Follows({}, {t} \cup children \cup lost \cup closed)
    BY DEF Follows
<1>. QED
    BY <1>7, <1>8, <1>9

LEMMA DropTenantKeeps ==
    ASSUME IInv, NEW p \in Threads, DropTenant(p)
    PROVE  IInv'
<1>. DEFINE t == thread[p].ask.tenant
            children == {c \in Tenants : tenant[c].parent = t}
            lost == {u \in UsersLive : user[u].tenant = t}
            closed == {l \in Links : link[l].live = "live" /\ link[l].tenant = t}
            S == {t} \cup children \cup lost \cup closed
<1>1. t \in Tenants
    <2>1. Writing(p, "deleteTenant")
        BY DEF DropTenant
    <2>2. thread[p].ask \in Requested /\ thread[p].ask.op = "deleteTenant"
        BY <2>1, WritesWhat
    <2>. QED
        BY <2>2 DEF Requested
<1>2. S \in SUBSET (Tenants \cup Users \cup Links)
    BY <1>1 DEF UsersLive
<1>3. Committed(p, S, thread[p].sess)
    BY DEF DropTenant
<1>4. TablesOK' /\ RowsKept /\ Follows({}, S)
    BY <1>1, DropTenantKeepsRows DEF DropTenant, IInv
<1>. HIDE DEF S
<1>. QED
    BY <1>2, <1>3, <1>4, SessionKept

LEMMA InsertLinkKeeps ==
    ASSUME IInv, NEW p \in Threads, InsertLink(p)
    PROVE  IInv'
<1>. DEFINE r == thread[p]
            l == Fresh(Links, link)
            row == [FreeLink EXCEPT !.live = "live", !.tenant = r.sess.active,
                                    !.feedback = r.ask.feedback]
<1>1. CASE Fails(p)
    BY <1>1, FailKeeps
<1>2. CASE /\ r.sess.active \in TenantsLive /\ link' = [link EXCEPT ![l] = row]
           /\ Committed(p, {l}, r.sess) /\ UNCHANGED <<tenant, user>>
    <2>1. r.ask.feedback \in BOOLEAN
        BY WritesWhat DEF Requested, InsertLink
    <2>2. l \in Links /\ link[l].live = "free"
        BY FreshIsFree DEF InsertLink
    <2>3. row \in PortalLink
        BY <1>2, <2>1, RowTypes DEF PortalLink, TenantsLive, Life
    <2>. HIDE DEF row, l, r
    <2>4. TablesOK' /\ RowsKept /\ Follows({}, {l})
        BY <1>2, <2>2, <2>3 DEF TablesOK, RowsKept, Follows, IInv
    <2>. QED
        BY <1>2, <2>2, <2>4, SessionKept DEF r
<1>. QED
    BY <1>1, <1>2 DEF InsertLink

LEMMA SaveRevokedKeeps ==
    ASSUME IInv, NEW p \in Threads, SaveRevoked(p)
    PROVE  IInv'
<1>. DEFINE r == thread[p]
            l == r.ask.link
<1>1. CASE Fails(p)
    BY <1>1, FailKeeps
<1>2. CASE /\ link' = [link EXCEPT ![l].revoked = TRUE]
           /\ Committed(p, {l}, r.sess) /\ UNCHANGED <<tenant, user>>
    <2>1. l \in Links
        BY WritesWhat DEF Requested, SaveRevoked
    <2>. HIDE DEF l, r
    <2>2. link' \in [Links -> PortalLink]
        BY <1>2, <2>1 DEF TablesOK, IInv, PortalLink
    <2>3. \A x \in Links : /\ link'[x].live = link[x].live /\ link'[x].tenant = link[x].tenant
                           /\ link'[x].feedback = link[x].feedback
        BY <1>2 DEF TablesOK, IInv, PortalLink
    <2>4. TablesOK' /\ RowsKept /\ Follows({}, {l})
        BY <1>2, <2>2, <2>3 DEF TablesOK, RowsKept, Follows, IInv
    <2>. QED
        BY <1>2, <2>1, <2>4, SessionKept DEF r
<1>. QED
    BY <1>1, <1>2 DEF SaveRevoked

LEMMA InsertReviewKeeps ==
    ASSUME IInv, NEW p \in Threads, InsertReview(p)
    PROVE  IInv'
<1>1. CASE Fails(p)
    BY <1>1, FailKeeps
<1>2. CASE Committed(p, {}, thread[p].sess) /\ UNCHANGED tables
    <2>1. RowsKept /\ TablesOK' /\ Follows({}, {})
        BY <1>2, TablesAlone DEF IInv
    <2>. QED
        BY <1>2, <2>1, SessionKept
<1>. QED
    BY <1>1, <1>2 DEF InsertReview

-----------------------------------------------------------------------------
(* Sign-ins, replies, and what no request does.                            *)

LEMMA ExchangeKeeps ==
    ASSUME IInv, NEW p \in Threads, Exchange(p)
    PROVE  IInv'
<1>. DEFINE r == thread[p]
<1>1. r \in Request /\ Held(r.sess)
    BY DEF IInv, InOrder, RequestOK
<1>2. UNCHANGED tables /\ TablesOK
    BY DEF Exchange, IInv
<1>3. RowsKept /\ TablesOK' /\ \A N : Follows(N, N)
    BY <1>2, TablesAlone
<1>4. PICK x : /\ \/ x = [r EXCEPT !.pc = "reply"]
                  \/ \E c \in Claims : x = Provisioning(r, c)
               /\ thread' = [thread EXCEPT ![p] = x]
    BY DEF Exchange
<1>5. x \in Request /\ \A N : InOrder(x, N)
    <2>1. CASE x = [r EXCEPT !.pc = "reply"]
        <3>1. x \in Request /\ x.pc = "reply" /\ x.sess = r.sess
            BY <1>1, <2>1 DEF Request
        <3>. QED
            BY <1>1, <3>1 DEF InOrder, RequestOK, StillAuthorised, StillCounted
    <2>2. CASE \E c \in Claims : x = Provisioning(r, c)
        <3>1. PICK c \in Claims : x = Provisioning(r, c)
            BY <2>2
        <3>2. c \in Claim
            BY AccountsAssumption DEF Claim
        <3>. QED
            BY <1>1, <3>1, <3>2, ProvisioningIsInOrder
    <2>. QED
        BY <1>4, <2>1, <2>2
<1>6. \A N : InOrder(x, N)'
    BY <1>2, <1>3, <1>5, RequestStays, AuthorityStays, CountStays DEF InOrder
<1>7. \A y \in {x} : \A N : InOrder(y, N)'
    BY <1>6
<1>8. /\ news' \in [Threads -> SUBSET (Tenants \cup Users \cup Links)]
      /\ \A q \in Threads \ {p} : Follows(news[q], news'[q])
      /\ UNCHANGED <<sent, requests>> /\ cookie' = cookie
    BY <1>3 DEF IInv, Exchange
<1>. QED
    BY <1>3, <1>4, <1>5, <1>7, <1>8, CookiesStay, MoveKeeps

LEMMA AssignedSession ==
    ASSUME NEW u \in Users, NEW role \in Roles, NEW t \in Tenants
    PROVE  /\ Assigned(u, role, t) \in Session
           /\ Assigned(u, role, t).user = u /\ Assigned(u, role, t).principal = t
           /\ Assigned(u, role, t).link = NoLink
<1>1. Assigned(u, role, t) \in Session
    BY RowTypes DEF Assigned, Session
<1>. QED
    BY <1>1, RowTypes DEF Assigned, Session

LEMMA StampKeeps ==
    ASSUME IInv, NEW p \in Threads, Stamp(p)
    PROVE  IInv'
<1>. DEFINE u == thread[p].seen
<1>1. CASE Fails(p)
    BY <1>1, FailKeeps
<1>2. CASE Committed(p, {}, Assigned(u, user[u].role, user[u].tenant)) /\ UNCHANGED tables
    <2>1. u \in Users /\ user[u].live # "free"
        BY DEF Stamp, IInv, InOrder, RequestOK
    <2>2. user[u].role \in Roles /\ user[u].tenant \in Tenants
        BY <2>1 DEF IInv, TablesOK, User
    <2>3. RowsKept /\ TablesOK' /\ Follows({}, {})
        BY <1>2, TablesAlone DEF IInv
    <2>4. PICK s : s = Assigned(u, user[u].role, user[u].tenant)
        OBVIOUS
    <2>5. s \in Session /\ s.user = u /\ s.principal = user[u].tenant /\ s.link = NoLink
        BY <2>1, <2>2, <2>4, AssignedSession
    <2>6. Held(s)
        BY <2>1, <2>5, AccountsAssumption DEF Held
    <2>7. \A x \in {s} : Held(x)'
        BY <2>3, <2>5, <2>6, HeldStays DEF IInv
    <2>8. Committed(p, {}, s)
        BY <1>2, <2>4
    <2>. QED
        BY <2>3, <2>5, <2>7, <2>8, CommitKeeps
<1>. QED
    BY <1>1, <1>2 DEF Stamp

\* The row a sign-in or a start writes: a new user of the tenant, or the user found, who
\* belongs to it.
LEMMA ProvisionedRow ==
    ASSUME TablesOK, NEW c \in Claim, NEW old \in User, NEW t \in Tenants, NEW u \in Users,
           \/ old.live = "free" /\ user[u].live = "free"
           \/ old.live # "free" /\ user[u].live # "free" /\ user[u].tenant = t,
           user' = [user EXCEPT ![u] = Provisioned(c, old, user[u], t)]
    PROVE  /\ user' \in [Users -> User]
           /\ Provisioned(c, old, user[u], t).role \in Roles
           /\ user'[u].live # "free" /\ user'[u].tenant = t
           /\ user[u].live # "free" => user[u].tenant = t
           /\ \A x \in Users \ {u} : user'[x] = user[x]
<1>. DEFINE st == user[u]
            row == Provisioned(c, old, st, t)
<1>1. st \in User
    BY DEF TablesOK
<1>. DEFINE role == Column(c.role, old.role, st.role)
<1>2. role \in Roles
    BY <1>1 DEF Column, User, Claim
<1>3. row \in User /\ row.live # "free" /\ row.tenant = t
    <2>. HIDE DEF role, st
    <2>1. CASE old.live = "free"
        <3>1. row = [live |-> "live", tenant |-> t, role |-> c.role, email |-> c.email,
                     subject |-> c.subject]
            BY <2>1 DEF Provisioned
        <3>. HIDE DEF row
        <3>. QED
            BY <3>1 DEF User, Claim, Life
    <2>2. CASE old.live # "free"
        <3>1. st.live # "free" /\ st.tenant = t
            BY <2>2 DEF st
        <3>2. CASE c.subject = NoSubject
            <4>1. row = [st EXCEPT !.role = role]
                BY <2>2, <3>2 DEF Provisioned, role
            <4>. HIDE DEF row
            <4>. QED
                BY <1>1, <1>2, <3>1, <4>1 DEF User
        <3>3. CASE c.subject # NoSubject
            <4>. DEFINE email == Column(c.email, old.email, st.email)
                        subject == Column(c.subject, old.subject, st.subject)
            <4>1. row = [st EXCEPT !.role = role, !.email = email, !.subject = subject]
                BY <1>1, <2>2, <3>3 DEF Provisioned, role, User
            <4>2. email \in Emails /\ subject \in Subjects \cup {NoSubject}
                BY <1>1 DEF Column, User, Claim
            <4>. HIDE DEF row, email, subject
            <4>. QED
                BY <1>1, <1>2, <3>1, <4>1, <4>2 DEF User
        <3>. QED
            BY <3>2, <3>3
    <2>. QED
        BY <2>1, <2>2
<1>4. user' = [user EXCEPT ![u] = row]
    OBVIOUS
<1>. HIDE DEF row
<1>5. /\ user' \in [Users -> User] /\ user'[u] = row
      /\ \A x \in Users \ {u} : user'[x] = user[x]
    BY <1>3, <1>4 DEF TablesOK
<1>6. row.role \in Roles
    BY <1>3 DEF User
<1>7. user[u].live # "free" => user[u].tenant = t
    OBVIOUS
<1>. QED
    BY <1>3, <1>5, <1>6, <1>7 DEF row

LEMMA SignInKeeps ==
    ASSUME IInv, NEW p \in Threads, SignIn(p)
    PROVE  IInv'
<1>. DEFINE r == thread[p]
            c == r.ask
            t == IF r.home = NoTenant THEN Fresh(Tenants, tenant) ELSE r.home
            u == IF r.seen = NoUser THEN Fresh(Users, user) ELSE r.seen
            row == Provisioned(c, r.old, user[u], t)
<1>1. CASE Fails(p)
    BY <1>1, FailKeeps
<1>2. CASE /\ IF r.home = NoTenant THEN NewTenant(t, NoTenant, TRUE, c.name)
              ELSE UNCHANGED tenant
           /\ user' = [user EXCEPT ![u] = row]
           /\ Committed(p, {t, u}, Assigned(u, row.role, t))
           /\ UNCHANGED link
    <2>1. /\ r.pc = "signin"
          /\ r.home = NoTenant => Room(Tenants, tenant)
          /\ r.seen = NoUser => Room(Users, user)
        BY DEF SignIn
    <2>2. r \in Request /\ RequestOK(r)
        BY DEF IInv, InOrder
    <2>3. /\ c \in Claim /\ r.old \in User
          /\ r.home \in Tenants \cup {NoTenant} /\ r.seen \in Users \cup {NoUser}
          /\ r.seen = NoUser => r.old.live = "free"
          /\ r.seen # NoUser => /\ r.old.live # "free" /\ user[r.seen].live # "free"
                                /\ user[r.seen].tenant = r.home
        BY <2>1, <2>2 DEF Request, RequestOK
    <2>4. c.name \in Names
        BY <2>3 DEF Claim
    <2>5. /\ t \in Tenants /\ tenant' \in [Tenants -> Tenant]
          /\ \A x \in Tenants : tenant'[x] # tenant[x] => x = t
        <3>1. CASE r.home = NoTenant
            BY <1>2, <2>1, <2>4, <3>1, NewTenantKeepsRows DEF IInv
        <3>2. CASE r.home # NoTenant
            BY <1>2, <2>3, <3>2 DEF IInv, TablesOK
        <3>. QED
            BY <3>1, <3>2
    <2>6. /\ u \in Users
          /\ \/ r.old.live = "free" /\ user[u].live = "free"
             \/ r.old.live # "free" /\ user[u].live # "free" /\ user[u].tenant = t
        <3>1. CASE r.seen = NoUser
            BY <2>1, <2>3, <3>1, FreshIsFree
        <3>2. CASE r.seen # NoUser
            <4>1. u = r.seen /\ u \in Users /\ user[u].tenant \in Tenants
                BY <2>3, <3>2 DEF IInv, TablesOK
            <4>2. t = r.home
                BY <2>3, <3>2, <4>1, AccountsAssumption
            <4>. QED
                BY <2>3, <3>2, <4>1, <4>2
        <3>. QED
            BY <3>1, <3>2
    <2>. HIDE DEF t, u, c, r
    <2>7. /\ user' \in [Users -> User] /\ row.role \in Roles
          /\ user'[u].live # "free" /\ user'[u].tenant = t
          /\ user[u].live # "free" => user[u].tenant = t
          /\ \A x \in Users \ {u} : user'[x] = user[x]
        BY <1>2, <2>3, <2>5, <2>6, ProvisionedRow DEF IInv
    <2>. HIDE DEF row
    <2>8. TablesOK' /\ RowsKept /\ Follows({}, {t, u})
        BY <1>2, <2>5, <2>7 DEF TablesOK, RowsKept, Follows, IInv
    <2>9. PICK s : s = Assigned(u, row.role, t)
        OBVIOUS
    <2>10. s \in Session /\ s.user = u /\ s.principal = t /\ s.link = NoLink
        BY <2>5, <2>6, <2>7, <2>9, AssignedSession
    <2>11. Held(s)'
        BY <2>6, <2>7, <2>10, AccountsAssumption DEF Held
    <2>12. \A x \in {s} : Held(x)'
        BY <2>11
    <2>13. Committed(p, {t, u}, s) /\ {t, u} \in SUBSET (Tenants \cup Users \cup Links)
        BY <1>2, <2>5, <2>6, <2>9
    <2>. QED
        BY <2>8, <2>10, <2>12, <2>13, CommitKeeps
<1>. QED
    BY <1>1, <1>2 DEF SignIn

LEMMA LoginPasswordKeeps ==
    ASSUME IInv, NEW p \in Threads, NEW b \in Browsers, LoginPassword(p, b)
    PROVE  IInv'
<1>. DEFINE homes == NamedTenant(DefaultName)
            answer == Answer(b, cookie[b])
            t == Fresh(Tenants, tenant)
<1>1. cookie[b] \in Session /\ Held(cookie[b])
    BY CookiesAreHeld
<1>2. answer \in Request /\ InOrder(answer, {})
    BY <1>1, AnswerIsInOrder
<1>3. answer.pc = "reply" /\ answer.sess = cookie[b]
    BY DEF Answer, Idle
<1>. HIDE DEF answer
<1>4. CASE homes = {}
    <2>1. /\ Room(Tenants, tenant) /\ thread[p].pc = "idle" /\ requests < MaxRequests
          /\ requests' = requests + 1
          /\ NewTenant(t, NoTenant, TRUE, DefaultName)
          /\ thread' = [thread EXCEPT ![p] = answer]
          /\ news' = [Told(p, {t}) EXCEPT ![p] = {}]
          /\ UNCHANGED <<user, link, cookie>> /\ UNCHANGED sent
        BY <1>4 DEF LoginPassword, answer
    <2>2. /\ t \in Tenants /\ tenant' \in [Tenants -> Tenant]
          /\ \A x \in Tenants : tenant'[x] # tenant[x] => x = t
        BY <2>1, AccountsAssumption, NewTenantKeepsRows DEF IInv
    <2>. HIDE DEF t
    <2>3. TablesOK' /\ RowsKept /\ Follows({}, {t})
        BY <2>1, <2>2 DEF TablesOK, RowsKept, Follows, IInv
    <2>4. ASSUME NEW x, x = answer, NEW N PROVE InOrder(x, N)'
        <3>1. x \in Request /\ x.pc = "reply" /\ RequestOK(x)
            BY <1>2, <1>3, <2>4 DEF InOrder
        <3>2. RequestOK(x)'
            BY <2>3, <3>1, RequestStays DEF IInv
        <3>. QED
            BY <3>1, <3>2 DEF InOrder, StillAuthorised, StillCounted
    <2>5. news' \in [Threads -> SUBSET (Tenants \cup Users \cup Links)]
        BY <2>1, <2>2 DEF Told, IInv
    <2>6. ASSUME NEW q \in Threads, q # p, thread[q].pc # "idle"
          PROVE  Follows(news[q], news'[q])
        <3>1. news'[q] = news[q] \cup {t}
            BY <2>1, <2>6 DEF Told
        <3>. QED
            BY <2>3, <3>1 DEF Follows
    <2>7. thread' \in [Threads -> Request] /\ requests' \in 0..MaxRequests
        BY <1>2, <2>1, AccountsAssumption DEF IInv
    <2>8. ASSUME NEW q \in Threads
          PROVE  \A x \in {thread'[q]}, N \in {news'[q]} : InOrder(x, N)'
        <3>1. CASE q # p
            <4>1. thread'[q] = thread[q]
                BY <2>1, <3>1 DEF IInv
            <4>. QED
                BY <2>3, <2>6, <3>1, <4>1, OthersStay
        <3>2. CASE q = p
            <4>1. thread'[q] = answer
                BY <2>1, <3>2 DEF IInv
            <4>. QED
                BY <2>4, <4>1
        <3>. QED
            BY <3>1, <3>2
    <2>9. /\ cookie' \in [Browsers -> Session]
          /\ \A x \in Browsers : \A s \in {cookie'[x]} : Held(s)'
        BY <2>1, <2>3, CookiesStay
    <2>. QED
        BY <2>1, <2>3, <2>5, <2>7, <2>8, <2>9 DEF IInv
<1>5. CASE homes # {}
    <2>1. PICK u \in UsersOf(CHOOSE h \in homes : TRUE) \cup {NoUser} :
              Arrive(p, IF u = NoUser THEN answer
                        ELSE [answer EXCEPT !.pc = "stamp", !.seen = u])
        BY <1>5 DEF LoginPassword, answer
    <2>2. UNCHANGED sent
        BY DEF LoginPassword
    <2>3. CASE u = NoUser
        BY <1>2, <2>1, <2>2, <2>3, ArriveKeeps DEF IInv
    <2>4. CASE u # NoUser
        <3>. DEFINE x == [answer EXCEPT !.pc = "stamp", !.seen = u]
        <3>1. u \in Users /\ user[u].live # "free"
            BY <2>1, <2>4 DEF UsersOf, UsersLive
        <3>2. x \in Request /\ x.pc = "stamp" /\ x.seen = u /\ x.sess = cookie[b]
            BY <1>2, <1>3, <3>1 DEF Request
        <3>. HIDE DEF x
        <3>3. InOrder(x, {})
            BY <1>1, <3>1, <3>2 DEF InOrder, RequestOK, StillAuthorised, StillCounted
        <3>4. Arrive(p, x)
            BY <2>1, <2>4 DEF x
        <3>. QED
            BY <2>2, <3>2, <3>3, <3>4, ArriveKeeps DEF IInv
    <2>. QED
        BY <2>3, <2>4
<1>. QED
    BY <1>4, <1>5

LEMMA ReplyKeeps ==
    ASSUME IInv, NEW p \in Threads, Reply(p)
    PROVE  IInv'
<1>. DEFINE r == thread[p]
<1>1. UNCHANGED tables /\ TablesOK
    BY DEF Reply, IInv
<1>2. /\ RowsKept /\ TablesOK' /\ \A N : Follows(N, N)
      /\ \A s : Held(s) => Held(s)'
    BY <1>1, TablesAlone
<1>3. r.browser \in Browsers /\ r.sess \in Session /\ Held(r.sess)
    BY DEF IInv, InOrder, RequestOK, Request
<1>4. \/ cookie' = [cookie EXCEPT ![r.browser] = r.sess]
      \/ cookie' = cookie
    BY DEF Reply
<1>5. cookie' \in [Browsers -> Session]
    BY <1>3, <1>4 DEF IInv
<1>6. ASSUME NEW b \in Browsers, NEW s, s = cookie'[b] PROVE Held(s)'
    <2>1. cookie'[b] = cookie[b] \/ cookie'[b] = r.sess
        BY <1>4 DEF IInv
    <2>2. Held(s)
        BY <1>3, <1>6, <2>1, CookiesAreHeld
    <2>. QED
        BY <1>2, <2>2
<1>7. \A b \in Browsers : \A s \in {cookie'[b]} : Held(s)'
    BY <1>6
<1>8. /\ thread' = [thread EXCEPT ![p] = Idle] /\ news' = [news EXCEPT ![p] = {}]
      /\ news' \in [Threads -> SUBSET (Tenants \cup Users \cup Links)]
      /\ UNCHANGED <<sent, requests>>
    BY DEF Reply, IInv
<1>9. \A q \in Threads \ {p} : Follows(news[q], news'[q])
    BY <1>2, <1>8 DEF IInv
<1>. QED
    BY <1>2, <1>5, <1>7, <1>8, <1>9, MoveKeeps, IdleIsInOrder, IdleLater

LEMMA ExpireKeeps ==
    ASSUME IInv, NEW l \in Links, Expire(l)
    PROVE  IInv'
<1>1. /\ link' = [link EXCEPT ![l].expired = TRUE]
      /\ news' = [q \in Threads |-> IF thread[q].pc # "idle" THEN news[q] \cup {l} ELSE news[q]]
      /\ UNCHANGED <<tenant, user, cookie, sent, thread, requests>>
    BY DEF Expire
<1>2. link' \in [Links -> PortalLink]
    BY <1>1 DEF TablesOK, IInv, PortalLink
<1>3. \A x \in Links : /\ link'[x].live = link[x].live /\ link'[x].tenant = link[x].tenant
                       /\ link'[x].feedback = link[x].feedback
                       /\ link'[x] # link[x] => x = l
    BY <1>1 DEF TablesOK, IInv, PortalLink
<1>4. TablesOK' /\ RowsKept
    BY <1>1, <1>2, <1>3 DEF TablesOK, RowsKept, IInv
<1>5. ASSUME NEW q \in Threads, thread[q].pc # "idle" PROVE Follows(news[q], news'[q])
    BY <1>1, <1>3, <1>5 DEF Follows
<1>6. news' \in [Threads -> SUBSET (Tenants \cup Users \cup Links)]
    BY <1>1 DEF IInv
<1>7. ASSUME NEW q \in Threads
      PROVE  \A x \in {thread'[q]}, N \in {news'[q]} : InOrder(x, N)'
    BY <1>1, <1>4, <1>5, OthersStay
<1>8. /\ cookie' \in [Browsers -> Session]
      /\ \A b \in Browsers : \A s \in {cookie'[b]} : Held(s)'
    BY <1>1, <1>4, CookiesStay
<1>. QED
    BY <1>1, <1>4, <1>6, <1>7, <1>8 DEF IInv

LEMMA RestartKeeps ==
    ASSUME IInv, Restart
    PROVE  IInv'
<1>. DEFINE f == Found(LocalClaims)
            t == IF f[1] = NoTenant THEN Fresh(Tenants, tenant) ELSE f[1]
            u == IF f[2] = NoUser THEN Fresh(Users, user) ELSE f[2]
            old == IF f[2] = NoUser THEN FreeUser ELSE user[u]
<1>1. /\ f[1] = NoTenant => Room(Tenants, tenant)
      /\ IF f[1] = NoTenant THEN NewTenant(t, NoTenant, TRUE, DefaultName)
         ELSE UNCHANGED tenant
      /\ IF LocalAuth
         THEN /\ f[2] = NoUser => Room(Users, user)
              /\ user' = [user EXCEPT ![u] = Provisioned(LocalClaims, old, user[u], t)]
         ELSE UNCHANGED user
      /\ thread' = [p \in Threads |-> Idle]
      /\ news' = [p \in Threads |-> {}]
      /\ UNCHANGED <<link, cookie, sent, requests>>
    BY DEF Restart, IInv, TablesOK
<1>2. /\ f[1] \in Tenants \cup {NoTenant}
      /\ f[2] = NoUser \/ f[2] \in UsersOf(f[1])
    BY WhatIsFound DEF TenantsLive
<1>3. LocalClaims \in Claim
    BY AccountsAssumption DEF LocalClaims, Claim
<1>4. /\ t \in Tenants /\ tenant' \in [Tenants -> Tenant]
    <2>1. CASE f[1] = NoTenant
        BY <1>1, <2>1, AccountsAssumption, NewTenantKeepsRows DEF IInv
    <2>2. CASE f[1] # NoTenant
        BY <1>1, <1>2, <2>2 DEF IInv, TablesOK
    <2>. QED
        BY <2>1, <2>2
<1>5. /\ user' \in [Users -> User]
      /\ \A x \in Users : user'[x].live # "free" => user'[x].tenant \in Tenants
      /\ \A x \in Users : user[x].live # "free" =>
            user'[x].live # "free" /\ user'[x].tenant = user[x].tenant
    <2>1. CASE LocalAuth
        <3>1. /\ u \in Users /\ old \in User
              /\ \/ old.live = "free" /\ user[u].live = "free"
                 \/ old.live # "free" /\ user[u].live # "free" /\ user[u].tenant = t
            <4>1. CASE f[2] = NoUser
                BY <1>1, <2>1, <4>1, FreshIsFree, RowTypes
            <4>2. CASE f[2] # NoUser
                <5>1. u \in Users /\ user[u].live = "live" /\ user[u].tenant = f[1]
                    BY <1>2, <4>2 DEF UsersOf, UsersLive
                <5>2. t = f[1] /\ user[u] \in User
                    BY <5>1, AccountsAssumption DEF IInv, TablesOK
                <5>. QED
                    BY <4>2, <5>1, <5>2
            <4>. QED
                BY <4>1, <4>2
        <3>2. user' = [user EXCEPT ![u] = Provisioned(LocalClaims, old, user[u], t)]
            BY <1>1, <2>1
        <3>. HIDE DEF u, old, t
        <3>3. /\ user' \in [Users -> User]
              /\ user'[u].live # "free" /\ user'[u].tenant = t
              /\ user[u].live # "free" => user[u].tenant = t
              /\ \A x \in Users \ {u} : user'[x] = user[x]
            BY <1>3, <1>4, <3>1, <3>2, ProvisionedRow DEF IInv
        <3>. QED
            BY <1>4, <3>1, <3>3 DEF IInv, TablesOK
    <2>2. CASE ~LocalAuth
        BY <1>1, <2>2 DEF IInv, TablesOK
    <2>. QED
        BY <2>1, <2>2
<1>6. TablesOK' /\ RowsKept
    BY <1>1, <1>4, <1>5 DEF TablesOK, RowsKept, IInv
<1>7. /\ cookie' \in [Browsers -> Session]
      /\ \A b \in Browsers : \A s \in {cookie'[b]} : Held(s)'
    BY <1>1, <1>6, CookiesStay
<1>8. ASSUME NEW q \in Threads
      PROVE  \A x \in {thread'[q]}, N \in {news'[q]} : InOrder(x, N)'
    BY <1>1, IdleLater
<1>. QED
    BY <1>1, <1>6, <1>7, <1>8, IdleIsInOrder DEF IInv

-----------------------------------------------------------------------------
(* The theorems.                                                           *)

LEMMA InitInOrder == Init => IInv
<1>. SUFFICES ASSUME Init PROVE IInv
    OBVIOUS
<1>1. PICK s \in Starts :
          tenant = s.tenant /\ user = s.user /\ link = s.link /\ cookie = s.cookie
    BY DEF Init
<1>2. s \in Start
    BY AccountsAssumption
<1>3. TablesOK /\ cookie \in [Browsers -> Session]
    BY <1>1, <1>2, StartsAssumption DEF TablesOK, Start
<1>4. \A b \in Browsers : Held(cookie[b])
    BY <1>1, StartsAssumption DEF Held
<1>5. /\ thread = [p \in Threads |-> Idle] /\ news = [p \in Threads |-> {}]
      /\ sent = {} /\ requests \in 0..MaxRequests
    BY AccountsAssumption DEF Init
<1>6. \A p \in Threads : \A r \in {thread[p]}, N \in {news[p]} : InOrder(r, N)
    BY <1>5, IdleIsInOrder
<1>. QED
    BY <1>3, <1>4, <1>5, <1>6, IdleIsInOrder DEF IInv

LEMMA ArrivesKeeps ==
    ASSUME IInv, NEW p \in Threads, NEW b \in Browsers, Arrives(p, b)
    PROVE  IInv'
<1>. DEFINE s == cookie[b]
<1>1. /\ s \in Session /\ Held(s)
      /\ Validated(s) \in Session /\ Held(Validated(s))
    BY CookiesAreHeld
<1>2. CASE Logout(p, b)
    BY <1>2, RowTypes, EmptyIsHeld, AnswerKeeps DEF Logout, Cleared
<1>3. CASE Visit(p, b)
    BY <1>1, <1>3, AnswerKeeps DEF Visit
<1>4. CASE PortalLogout(p, b)
    BY <1>1, <1>4, PortalClearedIsHeld, AnswerKeeps DEF PortalLogout
<1>5. CASE VisitPortal(p, b)
    <2>1. PortalChecked(s) \in Session /\ Held(PortalChecked(s))
        BY <1>1, PortalClearedIsHeld DEF PortalChecked
    <2>. QED
        BY <1>5, <2>1, AnswerKeeps DEF VisitPortal
<1>6. CASE \/ ApiCreateUser(p, b) \/ WebCreateUser(p, b) \/ ApiUpdateUser(p, b)
           \/ WebUpdateUser(p, b) \/ ApiDeleteUser(p, b) \/ WebDeleteUser(p, b)
           \/ ApiResetPassword(p, b) \/ WebResetPassword(p, b)
    BY <1>6, ApiCreateUserKeeps, ApiUpdateUserKeeps, ApiDeleteUserKeeps, ApiResetPasswordKeeps
       DEF WebCreateUser, WebUpdateUser, WebDeleteUser, WebResetPassword
<1>7. CASE ApiCreateTenant(p, b) \/ WebCreateTenant(p, b)
    BY <1>7, CreateTenantKeeps DEF ApiCreateTenant, WebCreateTenant
<1>8. CASE ApiUpdateTenant(p, b)
    BY <1>8, AsksAreRequested, UpdateTenantKeeps DEF ApiUpdateTenant
<1>9. CASE WebUpdateTenant(p, b) \/ ApiDeleteTenant(p, b)
    BY <1>9, WebUpdateTenantKeeps, ApiDeleteTenantKeeps
<1>10. CASE SwitchTenant(p, b) \/ LoginStart(p, b) \/ LoginLocal(p, b) \/ LoginPassword(p, b)
    BY <1>10, SwitchTenantKeeps, LoginStartKeeps, LoginLocalKeeps, LoginPasswordKeeps
<1>11. CASE \/ ApiCreateLink(p, b) \/ WebCreateLink(p, b) \/ ApiRevokeLink(p, b)
            \/ WebRevokeLink(p, b) \/ OpenLink(p, b) \/ SaveReview(p, b)
    BY <1>11, ApiCreateLinkKeeps, ApiRevokeLinkKeeps, OpenLinkKeeps, SaveReviewKeeps
       DEF WebCreateLink, WebRevokeLink
<1>. QED
    BY <1>2, <1>3, <1>4, <1>5, <1>6, <1>7, <1>8, <1>9, <1>10, <1>11 DEF Arrives

LEMMA StepInOrder == IInv /\ [Next]_vars => IInv'
<1>. SUFFICES ASSUME IInv, [Next]_vars PROVE IInv'
    OBVIOUS
<1>1. ASSUME NEW p \in Threads, Writes(p) PROVE IInv'
    BY <1>1, InsertUserKeeps, SaveUserKeeps, DropUserKeeps, SavePasswordKeeps, InsertTenantKeeps,
       SaveTenantKeeps, DropTenantKeeps, InsertLinkKeeps, SaveRevokedKeeps, InsertReviewKeeps
       DEF Writes
<1>2. ASSUME NEW p \in Threads, SignsIn(p) PROVE IInv'
    BY <1>2, SignInKeeps, StampKeeps DEF SignsIn
<1>3. CASE UNCHANGED vars
    <2>1. /\ UNCHANGED tables
          /\ UNCHANGED <<cookie, sent, thread, news, requests>>
        BY <1>3 DEF vars
    <2>2. /\ RowsKept /\ TablesOK' /\ \A N : Follows(N, N)
          /\ \A s : Held(s) => Held(s)'
        BY <2>1, TablesAlone DEF IInv
    <2>3. ASSUME NEW q \in Threads
          PROVE  \A x \in {thread'[q]}, N \in {news'[q]} : InOrder(x, N)'
        BY <2>1, <2>2, OthersStay
    <2>. QED
        BY <2>1, <2>2, <2>3, CookiesStay DEF IInv
<1>. QED
    BY <1>1, <1>2, <1>3, ArrivesKeeps, CallbackKeeps, ExchangeKeeps, ReplyKeeps, ExpireKeeps,
       RestartKeeps
       DEF Next

\* The invariant: the tables are well formed, sessions name what is or was there, and what
\* a request was granted holds still or is among its news.
THEOREM Inductive == Spec => []IInv
    BY InitInOrder, StepInOrder, PTL DEF Spec

\* Types, and a session names a user with the tenant of the user, or neither, whatever is
\* created, deleted and signed in meanwhile (_assign_session_user, _get_session_user).
THEOREM TypeCorrect == Spec => []TypeOK
<1>1. IInv => TypeOK
    <2>. SUFFICES ASSUME IInv PROVE TypeOK
        OBVIOUS
    <2>1. \A b \in Browsers : Sane(cookie[b])
        BY CookiesAreHeld DEF Held, Sane
    <2>2. ASSUME NEW p \in Threads
          PROVE  /\ thread[p].pc \in {"idle", "write", "exchange", "signin", "stamp", "reply"}
                 /\ Sane(thread[p].sess) /\ thread[p].role \in Roles
                 /\ news[p] \subseteq Tenants \cup Users \cup Links
        BY DEF IInv, InOrder, RequestOK, Held, Sane, Request
    <2>. QED
        BY <2>1, <2>2 DEF TypeOK, IInv, TablesOK
<1>. QED
    BY <1>1, Inductive, PTL

\* Whatever a cookie says and however old it is, a commit is authorised by the tables as
\* they are then, or by rows that changed while the request was handled
\* (_validate_session_user, _portal_session_payload).
THEOREM CommitsAreAuthorised == Spec => WritesAreAuthorised
<1>1. ASSUME IInv, NEW p \in Threads, Writes(p)
      PROVE  \/ Authorised(thread[p])
             \/ news[p] \cap ({thread[p].sess.user, thread[p].sess.link} \cup Tenants) # {}
             \/ thread[p].ask.op \in {"delete", "password"} /\ thread[p].ask.user \in news[p]
    <2>1. thread[p].pc = "write"
        BY <1>1 DEF Writes, Writing, InsertUser, SaveUser, DropUser, SavePassword, InsertTenant,
                    SaveTenant, DropTenant, InsertLink, SaveRevoked, InsertReview
    <2>2. PICK r, N : r = thread[p] /\ N = news[p]
        OBVIOUS
    <2>3. StillAuthorised(r, N)
        BY <1>1, <2>2 DEF IInv, InOrder
    <2>4. \/ Authorised(r)
          \/ N \cap ({r.sess.user, r.sess.link} \cup Tenants) # {}
          \/ r.ask.op \in {"delete", "password"} /\ r.ask.user \in N
        BY <2>1, <2>2, <2>3 DEF StillAuthorised
    <2>. QED
        BY <2>2, <2>4
<1>2. IInv /\ [Next]_vars =>
          [\A p \in Threads :
             Writes(p) => \/ Authorised(thread[p])
                          \/ news[p] \cap ({thread[p].sess.user, thread[p].sess.link} \cup Tenants)
                               # {}
                          \/ thread[p].ask.op \in {"delete", "password"}
                               /\ thread[p].ask.user \in news[p]]_vars
    BY <1>1
<1>. QED
    BY <1>2, Inductive, PTL DEF Spec, WritesAreAuthorised

-----------------------------------------------------------------------------
(* The owners of a tenant.                                                 *)

\* Only these change the users.
LEMMA UsersStay ==
    ASSUME IInv, [Next]_vars
    PROVE  \/ user' = user
           \/ Restart
           \/ \E p \in Threads : \/ SignIn(p) \/ InsertUser(p) \/ SaveUser(p)
                                 \/ DropUser(p) \/ DropTenant(p)
<1>1. ASSUME NEW p \in Threads, NEW r, Arrive(p, r) PROVE user' = user
    BY <1>1 DEF Arrive, tables
<1>2. ASSUME NEW p \in Threads, NEW b \in Browsers, NEW k, NEW g, Handle(p, b, k, g)
      PROVE  user' = user
    BY <1>2 DEF Handle, Arrive, tables
<1>3. ASSUME NEW p \in Threads, NEW b \in Browsers, Arrives(p, b) PROVE user' = user
    <2>1. CASE \/ ApiCreateUser(p, b) \/ WebCreateUser(p, b) \/ ApiUpdateUser(p, b)
               \/ WebUpdateUser(p, b) \/ ApiDeleteUser(p, b) \/ WebDeleteUser(p, b)
               \/ ApiResetPassword(p, b) \/ WebResetPassword(p, b)
        BY <1>2, <2>1 DEF ApiCreateUser, WebCreateUser, ApiUpdateUser, WebUpdateUser,
                          ApiDeleteUser, WebDeleteUser, ApiResetPassword, WebResetPassword
    <2>2. CASE \/ ApiCreateTenant(p, b) \/ WebCreateTenant(p, b) \/ ApiUpdateTenant(p, b)
               \/ WebUpdateTenant(p, b) \/ ApiDeleteTenant(p, b)
        BY <1>2, <2>2 DEF ApiCreateTenant, WebCreateTenant, CreateTenant, ApiUpdateTenant,
                          WebUpdateTenant, UpdateTenant, ApiDeleteTenant
    <2>3. CASE \/ Logout(p, b) \/ SwitchTenant(p, b) \/ Visit(p, b)
               \/ LoginStart(p, b) \/ LoginLocal(p, b)
        BY <1>1, <2>3 DEF Logout, SwitchTenant, Visit, LoginStart, LoginLocal
    <2>4. CASE LoginPassword(p, b)
        BY <1>1, <2>4 DEF LoginPassword
    <2>5. CASE \/ ApiCreateLink(p, b) \/ WebCreateLink(p, b) \/ ApiRevokeLink(p, b)
               \/ WebRevokeLink(p, b)
        BY <1>2, <2>5 DEF ApiCreateLink, WebCreateLink, ApiRevokeLink, WebRevokeLink
    <2>6. CASE \/ OpenLink(p, b) \/ VisitPortal(p, b) \/ PortalLogout(p, b) \/ SaveReview(p, b)
        BY <1>1, <2>6 DEF OpenLink, VisitPortal, PortalLogout, SaveReview
    <2>. QED
        BY <1>3, <2>1, <2>2, <2>3, <2>4, <2>5, <2>6 DEF Arrives
<1>4. ASSUME NEW p \in Threads, NEW x \in sent, Callback(p, x) PROVE user' = user
    BY <1>1, <1>4 DEF Callback
<1>5. ASSUME NEW p \in Threads, Writes(p)
      PROVE  \/ user' = user
             \/ InsertUser(p) \/ SaveUser(p) \/ DropUser(p) \/ DropTenant(p)
    BY <1>5 DEF Writes, SavePassword, InsertTenant, SaveTenant, InsertLink, SaveRevoked,
                InsertReview, Fails, tables
<1>6. ASSUME NEW p \in Threads, Exchange(p) \/ Reply(p) \/ Stamp(p) PROVE user' = user
    BY <1>6 DEF Exchange, Reply, Stamp, Fails, tables
<1>7. ASSUME NEW l \in Links, Expire(l) PROVE user' = user
    BY <1>7 DEF Expire
<1>8. CASE UNCHANGED vars
    BY <1>8 DEF vars, tables
<1>. QED
    BY <1>3, <1>4, <1>5, <1>6, <1>7, <1>8 DEF Next, SignsIn

\* A request that takes the last owner from a tenant counted another, who has gone since,
\* or saw no owner in the user, who has become one.
LEMMA TheLastOwnerIsNews ==
    ASSUME IInv, NEW p \in Threads, NEW t \in Tenants, NEW u \in Users, NEW r, r = thread[p],
           r.pc = "write", Counted(r.ask), u = r.ask.user, Owners(t) = {u}
    PROVE  \E x \in news[p] \cap Users : x \notin Owners(t) \/ x = u
<1>1. PICK N : N = news[p]
    OBVIOUS
<1>2. StillCounted(r, N)
    BY <1>1 DEF IInv, InOrder
<1>3. user[u].tenant = t
    BY DEF Owners, UsersOf
<1>4. r.sess.active = t
    BY <1>2, <1>3 DEF StillCounted
<1>. QED
    BY <1>1, <1>2, <1>4 DEF StillCounted

\* A tenant with an owner keeps one, but for a sign-in, a start of the server, and a request
\* that counted the owners before they changed (_count_tenant_owners).
THEOREM OwnersStay == Spec => OwnersLeaveOnlyByRaceOrSignIn
<1>. DEFINE Excused(t) ==
              \/ Restart
              \/ \E p \in Threads :
                   \/ SignIn(p)
                   \/ /\ Writes(p)
                      /\ \E u \in news[p] \cap Users : u \notin Owners(t) \/ u = thread[p].ask.user
<1>1. ASSUME IInv, [Next]_vars, NEW t \in Tenants, Owners(t) # {}, tenant'[t].live = "live",
             Owners(t)' = {}
      PROVE  Excused(t)
    <2>. SUFFICES ASSUME ~Restart, \A p \in Threads : ~SignIn(p)
                  PROVE  Excused(t)
        OBVIOUS
    <2>1. user' # user
        BY <1>1 DEF Owners, UsersOf, UsersLive
    <2>2. PICK p \in Threads :
              InsertUser(p) \/ SaveUser(p) \/ DropUser(p) \/ DropTenant(p)
        BY <1>1, <2>1, UsersStay
    <2>3. PICK w \in Owners(t) : w \notin Owners(t)'
        BY <1>1
    <2>4. w \in Users /\ user[w].live = "live" /\ user[w].tenant = t /\ user[w].role = "owner"
        BY <2>3 DEF Owners, UsersOf, UsersLive
    <2>5. ASSUME NEW u \in Users, u = thread[p].ask.user, thread[p].pc = "write",
                 Counted(thread[p].ask), Writes(p), \A x \in Users \ {u} : user'[x] = user[x]
          PROVE  Excused(t)
        <3>1. \A x \in Owners(t) : x = u
            BY <1>1, <2>5 DEF Owners, UsersOf, UsersLive
        <3>2. Owners(t) = {u}
            BY <2>3, <3>1
        <3>3. \E x \in news[p] \cap Users : x \notin Owners(t) \/ x = u
            BY <1>1, <2>5, <3>2, TheLastOwnerIsNews
        <3>. QED
            BY <2>5, <3>3
    <2>6. CASE InsertUser(p)
        <3>1. Room(Users, user) /\ \A x \in Users \ {Fresh(Users, user)} : user'[x] = user[x]
            BY <1>1, <2>6 DEF InsertUser, Fails, tables, IInv, TablesOK
        <3>2. w # Fresh(Users, user)
            BY <2>4, <3>1, FreshIsFree
        <3>3. user'[w] = user[w]
            BY <2>4, <3>1, <3>2
        <3>. QED
            BY <1>1, <2>3, <2>4, <3>3 DEF Owners, UsersOf, UsersLive
    <2>7. CASE SaveUser(p)
        <3>. DEFINE r == thread[p]
                    u == r.ask.user
        <3>1. /\ r.pc = "write" /\ r.ask.op = "update"
              /\ r.ask.role # r.old.role /\ user[u].live = "live"
              /\ user' = [user EXCEPT ![u].role = r.ask.role]
            BY <2>1, <2>7 DEF SaveUser, Writing, Fails, tables
        <3>2. u \in Users
            BY <1>1, <2>7, WritesWhat DEF SaveUser, Requested
        <3>3. \A x \in Users \ {u} : user'[x] = user[x]
            BY <1>1, <3>1 DEF IInv, TablesOK
        <3>4. CASE r.ask.role = "owner"
            <4>1. /\ user'[w].live = "live" /\ user'[w].tenant = t /\ user'[w].role = "owner"
                BY <1>1, <2>4, <3>1, <3>4 DEF IInv, TablesOK, User
            <4>. QED
                BY <2>3, <2>4, <4>1 DEF Owners, UsersOf, UsersLive
        <3>5. CASE r.ask.role # "owner"
            BY <2>5, <2>7, <3>1, <3>2, <3>3, <3>5 DEF Counted, Writes
        <3>. QED
            BY <3>4, <3>5
    <2>8. CASE DropUser(p)
        <3>. DEFINE r == thread[p]
                    u == r.ask.user
        <3>1. /\ r.pc = "write" /\ r.ask.op = "delete"
              /\ user' = [user EXCEPT ![u].live = "gone"]
            BY <2>8 DEF DropUser, Writing
        <3>2. u \in Users
            BY <1>1, <2>8, WritesWhat DEF DropUser, Requested
        <3>3. \A x \in Users \ {u} : user'[x] = user[x]
            BY <1>1, <3>1 DEF IInv, TablesOK
        <3>. QED
            BY <2>5, <2>8, <3>1, <3>2, <3>3 DEF Counted, Writes
    <2>9. CASE DropTenant(p)
        <3>. DEFINE d == thread[p].ask.tenant
        <3>1. /\ user' = [u \in Users |-> IF u \in {x \in UsersLive : user[x].tenant = d}
                                         THEN [user[u] EXCEPT !.live = "gone"] ELSE user[u]]
              /\ tenant' = [c \in Tenants |->
                              IF c = d THEN [tenant[c] EXCEPT !.live = "gone", !.parent = NoTenant]
                              ELSE IF c \in {e \in Tenants : tenant[e].parent = d}
                                   THEN [tenant[c] EXCEPT !.parent = NoTenant]
                              ELSE tenant[c]]
            BY <2>9 DEF DropTenant
        <3>2. t # d
            <4>1. CASE t = d
                <5>1. tenant'[t] = [tenant[t] EXCEPT !.live = "gone", !.parent = NoTenant]
                    BY <3>1, <4>1
                <5>2. tenant'[t].live = "gone"
                    BY <1>1, <5>1 DEF IInv, TablesOK, Tenant
                <5>. QED
                    BY <1>1, <5>2
            <4>. QED
                BY <4>1
        <3>3. user'[w] = user[w]
            BY <2>4, <3>1, <3>2
        <3>. QED
            BY <2>3, <2>4, <3>3 DEF Owners, UsersOf, UsersLive
    <2>. QED
        BY <2>2, <2>6, <2>7, <2>8, <2>9
<1>2. IInv /\ [Next]_vars =>
          [\A t \in Tenants :
             Owners(t) # {} /\ tenant'[t].live = "live" /\ Owners(t)' = {} => Excused(t)]_vars
    BY <1>1
<1>. QED
    BY <1>2, Inductive, PTL DEF Spec, OwnersLeaveOnlyByRaceOrSignIn

=============================================================================
