-------------------------- MODULE PublicAccessProofs --------------------------
(***************************************************************************)
(* Theorems about PublicAccess for every set of API keys, endpoints, calls *)
(* and processes, every number of retries, every subset of the faults and  *)
(* every bound.                                                            *)
(*                                                                         *)
(* TypeInv holds the types and how far a call has got with its attempts.   *)
(* RowInv follows the rows of an Idempotency-Key, and of a call without    *)
(* one, through the attempts that may make them.  LimitInv compares the    *)
(* counters and the limits with the requests each store has counted,       *)
(* which JudgedInv ties to attempts that are past the limits.              *)
(***************************************************************************)
EXTENDS PublicAccess, FiniteSetTheorems, TLAPS

-----------------------------------------------------------------------------
(* Types, calls and attempts.                                              *)

\* The points at which a process handles an attempt.
Busy == {"limit", "find", "insert", "start"}

ClientOK(c, x) ==
    /\ x \in Client
    /\ x.attempts <= Allowed(c)
    /\ x.pc = "send" => x.attempts < Allowed(c)
    /\ x.pc = "wait" => x.attempts >= 1

RequestOK(q) == q \in Request /\ (q.pc \in Busy => q.process \in Processes)

TypeInv ==
    /\ TypeOK
    /\ \A c \in Calls : ClientOK(c, client[c])
    /\ \A a \in Attempts :
          /\ RequestOK(request[a])
          /\ request[a].pc # "idle" => a[2] <= client[a[1]].attempts

LEMMA AllowedType ==
    ASSUME NEW c
    PROVE  Allowed(c) \in 1 .. 1 + MaxRetries /\ (c.idem = NoIdem => Allowed(c) = 1)
    BY BoundsAssumption DEF Allowed, CanRetry

LEMMA AttemptType ==
    /\ \A a \in Attempts : a = <<a[1], a[2]>> /\ a[1] \in Calls /\ a[2] \in 1 .. 1 + MaxRetries
    /\ \A a \in Attempts : KeyOf(a) \in Keys /\ EndpointOf(a) \in Endpoints
    /\ \A c \in Calls : \A n \in 1 .. 1 + MaxRetries :
          <<c, n>> \in Attempts /\ <<c, n>>[1] = c /\ <<c, n>>[2] = n
    BY CallsAssumption DEF Attempts, KeyOf, EndpointOf

LEMMA TickType ==
    ASSUME NEW t \in Ticks
    PROVE  t \in Nat /\ Minute(t) \in Minutes /\ Month(t) \in Months
    BY DEF Ticks, Minutes, Months

LEMMA IdleType ==
    /\ Idle.pc = "idle" /\ Dead.pc = "dead" /\ RequestOK(Idle) /\ RequestOK(Dead)
    BY TimeAssumption DEF Idle, Dead, RequestOK, Request, Busy, Stores, Ticks

LEMMA KeyType ==
    /\ FreeKey \in ApiKey
    /\ \A p \in Payloads : NewKey(p) \in ApiKey /\ NewKey(p).live
    /\ LocalKey \in Keys => NewKey(Local) \in ApiKey /\ NewKey(Local).live
<1>1. FreeKey \in ApiKey
    BY DEF FreeKey, ApiKey
<1>2. \A p \in Payloads : NewKey(p) \in ApiKey /\ NewKey(p).live
    BY PayloadsAssumption DEF NewKey, ApiKey
<1>3. LocalKey \in Keys => Local \in Payloads
    BY LocalKeyIsAKey DEF Local
<1>. QED
    BY <1>1, <1>2, <1>3

\* What the SDK does after its last allowed attempt is to stop.
LEMMA AfterType ==
    ASSUME NEW c \in Calls, NEW n \in 1 .. 1 + MaxRetries, n <= Allowed(c),
           NEW status, NEW r \in Rows \cup {NoRow}
    PROVE  /\ ClientOK(c, After(c, n, status, r)) /\ After(c, n, status, r).attempts = n
           /\ After(c, n, status, r).pc = "done" => status = 200
           /\ After(c, n, status, r).row = r
           /\ ClientOK(c, Raised(c, n)) /\ Raised(c, n).attempts = n /\ Raised(c, n).pc # "done"
<1>1. n \in 0 .. 1 + MaxRetries /\ n >= 1 /\ Allowed(c) \in Nat /\ n \in Nat
    BY AllowedType, BoundsAssumption
<1>2. After(c, n, status, r) \in Client /\ Raised(c, n) \in Client
    BY <1>1 DEF After, Raised, Client
<1>3. /\ After(c, n, status, r).pc = "send" => n < Allowed(c)
      /\ After(c, n, status, r).pc # "wait"
      /\ After(c, n, status, r).pc = "done" => status = 200
      /\ Raised(c, n).pc = "send" => n < Allowed(c)
      /\ Raised(c, n).pc \notin {"wait", "done"}
    BY DEF After, Raised
<1>4. After(c, n, status, r).attempts = n /\ Raised(c, n).attempts = n /\ After(c, n, status, r).row = r
    BY DEF After, Raised
<1>. QED
    BY <1>2, <1>3, <1>4 DEF ClientOK

\* One attempt of the handling of which a step changes nothing but the point and the row ...
LEMMA GotoStep ==
    ASSUME TypeInv, NEW a \in Attempts, request[a].pc \in Busy, NEW pc \in Busy,
           NEW r \in Rows \cup {NoRow}, Goto(a, pc, r)
    PROVE  /\ \A b \in Attempts : RequestOK(request'[b])
           /\ request' \in [Attempts -> Request] /\ UNCHANGED client
           /\ request'[a].pc = pc /\ request'[a].row = r
           /\ request'[a].now = request[a].now /\ request'[a].process = request[a].process
           /\ \A b \in Attempts \ {a} : request'[b] = request[b]
           /\ \A b \in Attempts : request'[b].pc # "idle" => b[2] <= client[b[1]].attempts
<1>0. request \in [Attempts -> Request] /\ request[a] \in Request /\ request[a].process \in Processes
    BY DEF TypeInv, TypeOK, RequestOK
<1>1. /\ request' = [request EXCEPT ![a].pc = pc, ![a].row = r]
      /\ UNCHANGED client
    BY DEF Goto
<1>2. pc \in {"idle", "limit", "find", "insert", "start", "dead"}
    BY DEF Busy
<1>3. /\ request'[a] \in Request /\ request'[a].pc = pc /\ request'[a].row = r
      /\ request'[a].now = request[a].now /\ request'[a].process = request[a].process
    BY <1>0, <1>1, <1>2 DEF Request
<1>4. \A b \in Attempts \ {a} : request'[b] = request[b]
    BY <1>0, <1>1
<1>5. request' \in [Attempts -> Request]
    BY <1>0, <1>1, <1>3, <1>4
<1>6. \A b \in Attempts : RequestOK(request'[b])
    BY <1>0, <1>3, <1>4 DEF RequestOK, TypeInv
<1>7. request[a].pc # "idle"
    BY DEF Busy
<1>. QED
    BY <1>1, <1>3, <1>4, <1>5, <1>6, <1>7 DEF TypeInv

\* ... and one that is answered, to whom the client may still be listening.
LEMMA AnswerStep ==
    ASSUME TypeInv, NEW a \in Attempts, request[a].pc \in Busy, NEW status,
           NEW r \in Rows \cup {NoRow}, Answer(a, status, r)
    PROVE  /\ \A b \in Attempts : RequestOK(request'[b])
           /\ request' \in [Attempts -> Request] /\ client' \in [Calls -> Client]
           /\ request'[a] = Dead
           /\ \A b \in Attempts \ {a} : request'[b] = request[b]
           /\ \A b \in Attempts : request'[b].pc # "idle" => b[2] <= client[b[1]].attempts
           /\ \A c \in Calls : ClientOK(c, client'[c]) /\ client'[c].attempts = client[c].attempts
           /\ \A c \in Calls : client'[c].pc = "done" =>
                 \/ client'[c] = client[c]
                 \/ c = a[1] /\ status = 200 /\ client'[c].row = r
<1>0. request \in [Attempts -> Request] /\ client \in [Calls -> Client]
    BY DEF TypeInv, TypeOK
<1>1. request' = [request EXCEPT ![a] = Dead]
    BY DEF Answer
<1>2. request' \in [Attempts -> Request] /\ \A b \in Attempts : RequestOK(request'[b])
    BY <1>0, <1>1, IdleType DEF TypeInv, RequestOK
<1>3. request'[a] = Dead /\ \A b \in Attempts \ {a} : request'[b] = request[b]
    BY <1>0, <1>1
<1>4. \A b \in Attempts : request'[b].pc # "idle" => b[2] <= client[b[1]].attempts
    <2>1. request[a].pc # "idle"
        BY DEF Busy
    <2>. QED
        BY <1>3, <2>1 DEF TypeInv
<1>5. a[1] \in Calls /\ a[2] \in 1 .. 1 + MaxRetries
    BY AttemptType
<1>6. CASE client[a[1]].pc = "wait" /\ Last(a[1]) = a
    <2>. DEFINE c == a[1]  n == a[2]
    <2>1. client' = [client EXCEPT ![c] = After(c, n, status, r)]
        BY <1>6 DEF Answer
    <2>2. n = client[c].attempts
        BY <1>6 DEF Last
    <2>3. n <= Allowed(c)
        BY <1>5, <2>2 DEF TypeInv, ClientOK
    <2>4. /\ ClientOK(c, After(c, n, status, r)) /\ After(c, n, status, r).attempts = n
          /\ After(c, n, status, r).pc = "done" => status = 200
          /\ After(c, n, status, r).row = r
        BY <1>5, <2>3, AfterType
    <2>. HIDE DEF n
    <2>5. client'[c] = After(c, n, status, r) /\ \A d \in Calls \ {c} : client'[d] = client[d]
        BY <1>0, <1>5, <2>1
    <2>6. client' \in [Calls -> Client]
        BY <1>0, <1>5, <2>1, <2>4 DEF ClientOK
    <2>7. \A d \in Calls : ClientOK(d, client'[d]) /\ client'[d].attempts = client[d].attempts
        BY <2>2, <2>4, <2>5 DEF TypeInv
    <2>8. \A d \in Calls : client'[d].pc = "done" =>
                 \/ client'[d] = client[d]
                 \/ d = c /\ status = 200 /\ client'[d].row = r
        BY <2>4, <2>5
    <2>. QED
        BY <1>2, <1>3, <1>4, <2>6, <2>7, <2>8
<1>7. CASE ~(client[a[1]].pc = "wait" /\ Last(a[1]) = a)
    <2>1. client' = client
        BY <1>7 DEF Answer
    <2>. QED
        BY <1>0, <1>2, <1>3, <1>4, <2>1 DEF TypeInv
<1>. QED
    BY <1>6, <1>7

LEMMA CounterType ==
    ASSUME TypeInv, NEW a \in Attempts, NEW s \in Stores
    PROVE  /\ InRate(s, a) \in Stores \X Keys \X Minutes
           /\ InQuota(s, a) \in Stores \X Keys \X Months
           /\ RateCount(s, a) \in Nat /\ QuotaCount(s, a) \in Nat
           /\ \A reason \in {"admitted", "rate", "quota", "unknown"} :
                 Judged(s, a, reason) \in Verdict
           /\ Reason(s, a) \in {"admitted", "rate", "quota"}
<1>1. request[a].now \in Ticks /\ KeyOf(a) \in Keys /\ clock \in Ticks
    BY AttemptType DEF TypeInv, TypeOK, Request
<1>2. /\ InRate(s, a) \in Stores \X Keys \X Minutes
      /\ InQuota(s, a) \in Stores \X Keys \X Months
    BY <1>1, TickType DEF InRate, InQuota
<1>3. RateCount(s, a) \in Nat /\ QuotaCount(s, a) \in Nat
    BY <1>2 DEF RateCount, QuotaCount, TypeInv, TypeOK
<1>4. \A reason \in {"admitted", "rate", "quota", "unknown"} : Judged(s, a, reason) \in Verdict
    BY <1>1 DEF Judged, Verdict
<1>5. Reason(s, a) \in {"admitted", "rate", "quota"}
    BY DEF Reason
<1>. QED
    BY <1>2, <1>3, <1>4, <1>5

\* The steps, each with its parameter.
LEMMA StepsOfNext ==
    ASSUME Next
    PROVE  \/ \E c \in Calls : Send(c) \/ Unsent(c) \/ Raise(c)
           \/ \E a \in Attempts :
                 \/ Enforce(a) \/ EnforceFallback(a) \/ EnforceUnavailable(a)
                 \/ Find(a) \/ Insert(a) \/ Begin(a) \/ Fails(a)
           \/ \E k \in Keys : DeactivateKey(k) \/ \E p \in Payloads : CreateKey(k, p)
           \/ \E t \in Ticks : TimePasses(t)
           \/ \E p \in Processes : Restart(p)
    BY DEF Next, Sdk, Handle, Administer, ApiCreateKey, WebCreateKey, ApiDeactivateKey,
       WebDeactivateKey

\* The attempts and the calls keep to what was counted, whatever happens to the rest.
LEMMA CallsKept ==
    ASSUME TypeInv, TypeOK',
           \A c \in Calls : ClientOK(c, client'[c]) /\ client'[c].attempts = client[c].attempts,
           \A b \in Attempts : RequestOK(request'[b]),
           \A b \in Attempts : request'[b].pc # "idle" => b[2] <= client[b[1]].attempts
    PROVE  TypeInv'
<1>1. \A b \in Attempts : b[1] \in Calls
    BY AttemptType
<1>2. \A b \in Attempts : request'[b].pc # "idle" => b[2] <= client'[b[1]].attempts
    BY <1>1
<1>. QED
    BY <1>2 DEF TypeInv, ClientOK, RequestOK

LEMMA TypeInvInit == Init => TypeInv
<1>. SUFFICES ASSUME Init PROVE TypeInv
    OBVIOUS
<1>1. fallback \in Modes /\ clock \in Ticks /\ seen \subseteq Verdict /\ events \in 0 .. MaxEvents
    <2>1. clock = 0 /\ seen = {} /\ events = 0 /\ fallback \in Modes
        BY DEF Init
    <2>. QED
        BY <2>1, TimeAssumption, BoundsAssumption DEF Ticks
<1>2. key \in [Keys -> ApiKey]
    <2>1. key = [k \in Keys |-> IF k = LocalKey THEN NewKey(Local) ELSE FreeKey]
        BY DEF Init
    <2>. QED
        BY <2>1, KeyType
<1>3. rate \in [Stores \X Keys \X Minutes -> Nat] /\ quota \in [Stores \X Keys \X Months -> Nat]
    BY DEF Init
<1>4. row \in [Rows -> Row]
    <2>1. FreeRow \in Row
        BY CallsAssumption DEF FreeRow, Row
    <2>. QED
        BY <2>1 DEF Init
<1>5. request \in [Attempts -> Request] /\ \A a \in Attempts : RequestOK(request[a]) /\ request[a].pc = "idle"
    BY IdleType DEF Init, RequestOK
<1>6. client \in [Calls -> Client] /\ \A c \in Calls : ClientOK(c, client[c])
    <2>1. PICK crowd \in Crowds :
             client = [c \in Calls |-> [pc |-> IF c \in crowd THEN "send" ELSE "failed",
                                        attempts |-> 0, row |-> NoRow]]
        BY DEF Init
    <2>2. ASSUME NEW c \in Calls
          PROVE  client[c] \in Client /\ client[c].attempts = 0 /\ client[c].pc # "wait"
        BY <2>1, BoundsAssumption DEF Client
    <2>3. \A c \in Calls : ClientOK(c, client[c])
        BY <2>2, AllowedType, BoundsAssumption DEF ClientOK
    <2>. QED
        BY <2>1, <2>2, <2>3
<1>. QED
    BY <1>1, <1>2, <1>3, <1>4, <1>5, <1>6 DEF TypeInv, TypeOK

LEMMA TypeInvSdk ==
    ASSUME TypeInv, NEW c \in Calls, Send(c) \/ Unsent(c) \/ Raise(c)
    PROVE  TypeInv'
<1>0. /\ client \in [Calls -> Client] /\ request \in [Attempts -> Request] /\ TypeOK
      /\ client[c] \in Client /\ ClientOK(c, client[c]) /\ clock \in Ticks
    BY DEF TypeInv, TypeOK
<1>. DEFINE n == client[c].attempts + 1
<1>1. ASSUME client[c].pc = "send" PROVE n \in 1 .. 1 + MaxRetries /\ n <= Allowed(c)
    <2>1. client[c].attempts \in 0 .. 1 + MaxRetries /\ client[c].attempts < Allowed(c)
        BY <1>0, <1>1 DEF ClientOK, Client
    <2>. QED
        BY <2>1, AllowedType, BoundsAssumption
<1>. HIDE DEF n
\* The next attempt exists as soon as it is counted.
<1>2. ASSUME NEW q, NEW x, RequestOK(q), ClientOK(c, x), x.attempts = n,
             client[c].pc = "send",
             client' = [client EXCEPT ![c] = x], request' = [request EXCEPT ![<<c, n>>] = q],
             UNCHANGED <<fallback, key, rate, quota, row, clock, seen>>, events' \in 0 .. MaxEvents
      PROVE  TypeInv'
    <2>1. <<c, n>> \in Attempts /\ <<c, n>>[1] = c /\ <<c, n>>[2] = n
        BY <1>1, <1>2, AttemptType
    <2>2. TypeOK'
        BY <1>0, <1>2, <2>1 DEF TypeOK, RequestOK, ClientOK
    <2>3. client'[c] = x /\ \A d \in Calls \ {c} : client'[d] = client[d]
        BY <1>0, <1>2
    <2>4. request'[<<c, n>>] = q /\ \A b \in Attempts \ {<<c, n>>} : request'[b] = request[b]
        BY <1>0, <1>2, <2>1
    <2>5. n \in Nat /\ client[c].attempts \in Nat /\ client[c].attempts <= n
        BY <1>0, <1>1, <1>2, BoundsAssumption DEF Client, n
    <2>6. ASSUME NEW b \in Attempts, request'[b].pc # "idle" PROVE b[2] <= client'[b[1]].attempts
        <3>1. CASE b = <<c, n>>
            BY <1>2, <2>1, <2>3, <2>5, <3>1
        <3>2. CASE b # <<c, n>>
            <4>1. b[2] <= client[b[1]].attempts /\ b[1] \in Calls /\ b[2] \in Nat
                BY <2>4, <2>6, <3>2, AttemptType DEF TypeInv
            <4>. QED
                BY <1>2, <2>3, <2>5, <4>1
        <3>. QED
            BY <3>1, <3>2
    <2>7. \A d \in Calls : ClientOK(d, client'[d])
        BY <1>2, <2>3 DEF TypeInv
    <2>8. \A b \in Attempts : RequestOK(request'[b])
        BY <1>2, <2>4 DEF TypeInv
    <2>. QED
        BY <2>2, <2>6, <2>7, <2>8 DEF TypeInv, ClientOK, RequestOK
<1>3. CASE Send(c)
    <2>0. client[c].pc = "send" /\ UNCHANGED <<fallback, key, rate, quota, row, clock, seen, events>>
        BY <1>3 DEF Send
    <2>1. CASE Resolved(c) = 200
        <3>1. PICK p \in Processes :
                 /\ client' = [client EXCEPT ![c].pc = "wait", ![c].attempts = n]
                 /\ request' = [request EXCEPT ![<<c, n>>] =
                                  [Idle EXCEPT !.pc = "limit", !.process = p, !.now = clock]]
            BY <1>3, <2>1 DEF Send, n
        <3>. DEFINE x == [client[c] EXCEPT !.pc = "wait", !.attempts = n]
                    q == [Idle EXCEPT !.pc = "limit", !.process = p, !.now = clock]
        <3>2. n \in 1 .. 1 + MaxRetries /\ n <= Allowed(c)
            BY <1>1, <2>0
        <3>3. x \in Client /\ x.pc = "wait" /\ x.attempts = n /\ n >= 1
            <4>1. n \in 0 .. 1 + MaxRetries /\ n >= 1
                BY <3>2, BoundsAssumption
            <4>. QED
                BY <1>0, <4>1 DEF Client
        <3>4. ClientOK(c, x)
            BY <3>2, <3>3 DEF ClientOK
        <3>5. RequestOK(q)
            BY <1>0 DEF RequestOK, Request, Idle, Stores
        <3>6. client' = [client EXCEPT ![c] = x] /\ request' = [request EXCEPT ![<<c, n>>] = q]
            BY <1>0, <3>1
        <3>. HIDE DEF x, q
        <3>7. events' \in 0 .. MaxEvents
            BY <1>0, <2>0 DEF TypeOK
        <3>. QED
            BY <1>2, <2>0, <3>3, <3>4, <3>5, <3>6, <3>7
    <2>2. CASE Resolved(c) # 200
        <3>1. /\ client' = [client EXCEPT ![c] = After(c, n, Resolved(c), NoRow)]
              /\ request' = [request EXCEPT ![<<c, n>>] = Dead]
            BY <1>3, <2>2 DEF Send, n
        <3>2. ClientOK(c, After(c, n, Resolved(c), NoRow)) /\ After(c, n, Resolved(c), NoRow).attempts = n
            BY <1>1, <2>0, AfterType
        <3>3. events' \in 0 .. MaxEvents
            BY <1>0, <2>0 DEF TypeOK
        <3>. QED
            BY <1>2, <2>0, <3>1, <3>2, <3>3, IdleType
    <2>. QED
        BY <2>1, <2>2
<1>4. CASE Unsent(c)
    <2>1. /\ client' = [client EXCEPT ![c] = Raised(c, n)]
          /\ request' = [request EXCEPT ![<<c, n>>] = Dead]
          /\ client[c].pc = "send" /\ UNCHANGED <<fallback, key, rate, quota, row, clock, seen>>
        BY <1>4 DEF Unsent, n
    <2>2. ClientOK(c, Raised(c, n)) /\ Raised(c, n).attempts = n
        BY <1>1, <2>1, AfterType
    <2>3. events' \in 0 .. MaxEvents
        BY <1>0, <1>4, BoundsAssumption DEF Unsent, Fault, Event, TypeOK
    <2>. QED
        BY <1>2, <2>1, <2>2, <2>3, IdleType
<1>5. CASE Raise(c)
    <2>. DEFINE m == client[c].attempts
    <2>1. m \in 1 .. 1 + MaxRetries /\ m <= Allowed(c)
        BY <1>0, <1>5, BoundsAssumption DEF Raise, ClientOK, Client
    <2>. HIDE DEF m
    <2>2. ClientOK(c, Raised(c, m)) /\ Raised(c, m).attempts = m
        BY <2>1, AfterType
    <2>3. /\ client' = [client EXCEPT ![c] = Raised(c, m)]
          /\ UNCHANGED <<fallback, key, rate, quota, row, request, clock, seen>>
        BY <1>5 DEF Raise, m
    <2>4. events' \in 0 .. MaxEvents
        BY <1>0, <1>5, BoundsAssumption DEF Raise, Fault, Event, TypeOK
    <2>5. TypeOK'
        BY <1>0, <2>2, <2>3, <2>4 DEF TypeOK, ClientOK
    <2>6. \A d \in Calls : ClientOK(d, client'[d]) /\ client'[d].attempts = client[d].attempts
        BY <1>0, <2>2, <2>3 DEF TypeInv, m
    <2>. QED
        BY <2>3, <2>5, <2>6, CallsKept DEF TypeInv
<1>. QED
    BY <1>3, <1>4, <1>5

\* The counters and the verdicts keep their types through the steps of the limits.
LEMMA IncrementedType ==
    ASSUME TypeInv, NEW a \in Attempts, Incremented(a)
    PROVE  /\ rate' \in [Stores \X Keys \X Minutes -> Nat]
           /\ quota' \in [Stores \X Keys \X Months -> Nat]
<1>1. Redis \in Stores /\ rate \in [Stores \X Keys \X Minutes -> Nat]
      /\ quota \in [Stores \X Keys \X Months -> Nat]
    BY DEF Stores, TypeInv, TypeOK
<1>2. InRate(Redis, a) \in Stores \X Keys \X Minutes /\ InQuota(Redis, a) \in Stores \X Keys \X Months
    BY <1>1, CounterType
<1>3. rate' = [rate EXCEPT ![InRate(Redis, a)] = @ + 1]
      /\ quota' = [quota EXCEPT ![InQuota(Redis, a)] = IF LastSecond(request[a].now) THEN 0 ELSE @ + 1]
    BY DEF Incremented
<1>4. rate[InRate(Redis, a)] + 1 \in Nat /\ quota[InQuota(Redis, a)] + 1 \in Nat
    BY <1>1, <1>2
<1>. QED
    BY <1>1, <1>3, <1>4

\* An attempt at one of its points moves or is answered.
Moves(a) ==
    \E r \in Rows \cup {NoRow} :
        (\E pc \in Busy : Goto(a, pc, r)) \/ \E status : Answer(a, status, r)

LEMMA TypesKept ==
    ASSUME TypeInv, NEW a \in Attempts, request[a].pc \in Busy,
           Moves(a),
           UNCHANGED <<fallback, key, clock>>,
           rate' \in [Stores \X Keys \X Minutes -> Nat],
           quota' \in [Stores \X Keys \X Months -> Nat],
           row' \in [Rows -> Row], seen' \subseteq Verdict, events' \in 0 .. MaxEvents
    PROVE  TypeInv'
<1>1. CASE \E r \in Rows \cup {NoRow} : \E pc \in Busy : Goto(a, pc, r)
    <2>1. /\ \A b \in Attempts : RequestOK(request'[b])
          /\ request' \in [Attempts -> Request] /\ UNCHANGED client
          /\ \A b \in Attempts : request'[b].pc # "idle" => b[2] <= client[b[1]].attempts
        BY <1>1, GotoStep
    <2>2. TypeOK'
        BY <2>1 DEF TypeInv, TypeOK
    <2>. QED
        BY <2>1, <2>2, CallsKept DEF TypeInv
<1>2. CASE \E r \in Rows \cup {NoRow} : \E status : Answer(a, status, r)
    <2>1. /\ \A b \in Attempts : RequestOK(request'[b])
          /\ request' \in [Attempts -> Request] /\ client' \in [Calls -> Client]
          /\ \A b \in Attempts : request'[b].pc # "idle" => b[2] <= client[b[1]].attempts
          /\ \A c \in Calls : ClientOK(c, client'[c]) /\ client'[c].attempts = client[c].attempts
        BY <1>2, AnswerStep
    <2>2. TypeOK'
        BY <2>1 DEF TypeInv, TypeOK
    <2>. QED
        BY <2>1, <2>2, CallsKept
<1>. QED
    BY <1>1, <1>2 DEF Moves

LEMMA FreeRowChosen ==
    ASSUME NEW q \in Rows, ~row[q].live
    PROVE  LET r == CHOOSE r \in Rows : ~row[r].live IN r \in Rows /\ ~row[r].live
    OBVIOUS

LEMMA TypeInvHandle ==
    ASSUME TypeInv, NEW a \in Attempts,
           \/ Enforce(a) \/ EnforceFallback(a) \/ EnforceUnavailable(a)
           \/ Find(a) \/ Insert(a) \/ Begin(a) \/ Fails(a)
    PROVE  TypeInv'
<1>0. /\ rate \in [Stores \X Keys \X Minutes -> Nat] /\ quota \in [Stores \X Keys \X Months -> Nat]
      /\ row \in [Rows -> Row] /\ seen \subseteq Verdict /\ events \in 0 .. MaxEvents
      /\ request[a] \in Request /\ Redis \in Stores
    BY DEF TypeInv, TypeOK, Stores
<1>1. \A reason : Decide(a, reason) => Moves(a)
    BY DEF Decide, Moves, Busy
<1>2. Event => events' \in 0 .. MaxEvents
    BY <1>0, BoundsAssumption DEF Event
<1>3. CASE Enforce(a)
    <2>1. /\ request[a].pc \in Busy /\ Incremented(a) /\ Decide(a, Reason(Redis, a))
          /\ seen' = seen \cup {Judged(Redis, a, Reason(Redis, a))}
          /\ UNCHANGED <<fallback, key, row, clock, events>>
        BY <1>3 DEF Enforce, Busy
    <2>2. seen' \subseteq Verdict
        BY <1>0, <2>1, CounterType
    <2>. QED
        BY <1>0, <1>1, <2>1, <2>2, IncrementedType, TypesKept
<1>4. CASE EnforceFallback(a)
    <2>. DEFINE p == request[a].process
    <2>1. request[a].pc \in Busy /\ Event /\ Decide(a, Reason(p, a)) /\ UNCHANGED <<fallback, key, row, clock>>
        BY <1>4 DEF EnforceFallback, Busy, Fault
    <2>2. PICK done \in BOOLEAN :
             /\ rate' = [i \in DOMAIN rate |->
                           IF i = InRate(p, a) \/ (done /\ i = InRate(Redis, a))
                           THEN rate[i] + 1 ELSE rate[i]]
             /\ quota' = [i \in DOMAIN quota |->
                            IF done /\ i = InQuota(Redis, a) /\ LastSecond(request[a].now) THEN 0
                            ELSE IF i = InQuota(p, a) \/ (done /\ i = InQuota(Redis, a))
                            THEN quota[i] + 1 ELSE quota[i]]
             /\ seen' = seen \cup {Judged(p, a, Reason(p, a))} \cup Unheard(a, done)
        BY <1>4 DEF EnforceFallback
    <2>3. p \in Stores
        BY <1>0 DEF Request
    <2>4. rate' \in [Stores \X Keys \X Minutes -> Nat]
        BY <1>0, <2>2
    <2>5. quota' \in [Stores \X Keys \X Months -> Nat]
        BY <1>0, <2>2
    <2>6. Unheard(a, done) \subseteq Verdict
        BY <1>0, CounterType DEF Unheard
    <2>7. seen' \subseteq Verdict
        BY <1>0, <2>2, <2>3, <2>6, CounterType
    <2>. QED
        BY <1>0, <1>1, <1>2, <2>1, <2>4, <2>5, <2>7, TypesKept
<1>5. CASE EnforceUnavailable(a)
    <2>1. /\ request[a].pc \in Busy /\ Event /\ Answer(a, 429, NoRow) /\ UNCHANGED <<fallback, key, row, clock>>
          /\ \/ Incremented(a) /\ seen' = seen \cup Unheard(a, TRUE)
             \/ UNCHANGED <<rate, quota, seen>>
        BY <1>5 DEF EnforceUnavailable, Busy, Fault
    <2>2. Unheard(a, TRUE) \subseteq Verdict
        BY <1>0, CounterType DEF Unheard
    <2>3. /\ rate' \in [Stores \X Keys \X Minutes -> Nat]
          /\ quota' \in [Stores \X Keys \X Months -> Nat] /\ seen' \subseteq Verdict
        BY <1>0, <2>1, <2>2, IncrementedType
    <2>. QED
        BY <1>0, <1>2, <2>1, <2>3, TypesKept DEF Moves
<1>6. CASE Find(a)
    <2>1. request[a].pc \in Busy /\ UNCHANGED <<fallback, key, rate, quota, row, clock, seen, events>>
        BY <1>6 DEF Find, Busy
    <2>2. Moves(a)
        BY <1>6 DEF Find, Busy, Existing, Moves
    <2>. QED
        BY <1>0, <2>1, <2>2, TypesKept
<1>7. CASE Insert(a)
    <2>1. request[a].pc \in Busy /\ UNCHANGED <<fallback, key, rate, quota, clock, seen, events>>
        BY <1>7 DEF Insert, Busy
    <2>2. CASE Existing(a) = {}
        <3>. DEFINE r == CHOOSE r \in Rows : ~row[r].live
        <3>1. (\E q \in Rows : ~row[q].live) /\ row' = [row EXCEPT ![r] = NewRow(a)] /\ Goto(a, "start", r)
            BY <1>7, <2>2 DEF Insert
        <3>2. r \in Rows
            BY <3>1, FreeRowChosen
        <3>3. NewRow(a) \in Row
            BY AttemptType DEF NewRow, Row
        <3>. HIDE DEF r
        <3>4. row' \in [Rows -> Row]
            BY <1>0, <3>1, <3>2, <3>3
        <3>. QED
            BY <1>0, <2>1, <3>1, <3>2, <3>4, TypesKept DEF Busy, Moves
    <2>3. CASE Existing(a) # {}
        <3>1. /\ UNCHANGED row
              /\ \E r \in Rows : Goto(a, "start", r) \/ Answer(a, 200, r)
            BY <1>7, <2>3 DEF Insert, Existing
        <3>. QED
            BY <1>0, <2>1, <3>1, TypesKept DEF Busy, Moves
    <2>. QED
        BY <2>2, <2>3
<1>8. CASE Begin(a)
    <2>1. request[a].pc \in Busy /\ UNCHANGED <<fallback, key, rate, quota, clock, seen>>
        BY <1>8 DEF Begin, Busy
    <2>2. row' \in [Rows -> Row]
        BY <1>0, <1>8 DEF Begin, Row
    <2>3. events' \in 0 .. MaxEvents
        BY <1>0, <1>2, <1>8 DEF Begin, Fault
    <2>4. Moves(a)
        BY <1>0, <1>8 DEF Begin, Request, Moves
    <2>. QED
        BY <1>0, <2>1, <2>2, <2>3, <2>4, TypesKept
<1>9. CASE Fails(a)
    <2>1. request[a].pc \in Busy /\ Answer(a, 500, NoRow) /\ Event
          /\ UNCHANGED <<fallback, key, rate, quota, row, clock, seen>>
        BY <1>9 DEF Fails, Busy, Fault
    <2>. QED
        BY <1>0, <1>2, <2>1, TypesKept DEF Moves
<1>. QED
    BY <1>3, <1>4, <1>5, <1>6, <1>7, <1>8, <1>9

LEMMA TypeInvOther ==
    ASSUME TypeInv,
           \/ \E k \in Keys : DeactivateKey(k) \/ \E p \in Payloads : CreateKey(k, p)
           \/ \E t \in Ticks : TimePasses(t)
           \/ \E p \in Processes : Restart(p)
    PROVE  TypeInv'
<1>0. TypeOK
    BY DEF TypeInv
<1>1. ASSUME TypeOK', UNCHANGED <<request, client>> PROVE TypeInv'
    BY <1>1 DEF TypeInv, ClientOK, RequestOK
<1>2. Event => events' \in 0 .. MaxEvents
    BY <1>0, BoundsAssumption DEF Event, TypeOK
<1>3. ASSUME NEW k \in Keys, DeactivateKey(k) PROVE TypeInv'
    <2>1. key' \in [Keys -> ApiKey]
        BY <1>0, <1>3 DEF DeactivateKey, TypeOK, ApiKey
    <2>. QED
        BY <1>0, <1>1, <1>2, <1>3, <2>1 DEF DeactivateKey, TypeOK
<1>4. ASSUME NEW k \in Keys, NEW p \in Payloads, CreateKey(k, p) PROVE TypeInv'
    <2>1. key' \in [Keys -> ApiKey]
        BY <1>0, <1>4, KeyType DEF CreateKey, TypeOK
    <2>. QED
        BY <1>0, <1>1, <1>4, <2>1 DEF CreateKey, TypeOK
<1>5. ASSUME NEW t \in Ticks, TimePasses(t) PROVE TypeInv'
    <2>1. quota' \in [Stores \X Keys \X Months -> Nat]
        BY <1>0, <1>5 DEF TimePasses, TypeOK
    <2>. QED
        BY <1>0, <1>1, <1>2, <1>5, <2>1 DEF TimePasses, TypeOK
<1>6. ASSUME NEW p \in Processes, Restart(p) PROVE TypeInv'
    <2>1. rate' \in [Stores \X Keys \X Minutes -> Nat] /\ quota' \in [Stores \X Keys \X Months -> Nat]
        BY <1>0, <1>6 DEF Restart, TypeOK
    <2>2. key' \in [Keys -> ApiKey]
        <3>1. \A k \in Keys : key[k] \in ApiKey /\ [key[k] EXCEPT !.active = TRUE] \in ApiKey
            BY <1>0 DEF TypeOK, ApiKey
        <3>. QED
            BY <1>6, <3>1, KeyType DEF Restart
    <2>3. /\ request' \in [Attempts -> Request]
          /\ \A b \in Attempts : RequestOK(request'[b])
          /\ \A b \in Attempts : request'[b].pc # "idle" => request[b].pc # "idle"
        <3>1. request' = [b \in Attempts |-> IF request[b].process = p /\ request[b].pc # "idle"
                                             THEN Dead ELSE request[b]]
            BY <1>6 DEF Restart
        <3>2. \A b \in Attempts : RequestOK(request'[b]) /\ (request'[b].pc # "idle" => request[b].pc # "idle")
            BY <3>1, IdleType DEF TypeInv
        <3>. QED
            BY <3>1, <3>2 DEF RequestOK
    <2>4. UNCHANGED <<fallback, row, client, clock>> /\ seen' \subseteq seen /\ events' \in 0 .. MaxEvents
        BY <1>2, <1>6 DEF Restart, Fault
    <2>5. TypeOK'
        BY <1>0, <2>1, <2>2, <2>3, <2>4 DEF TypeOK
    <2>. QED
        BY <2>3, <2>4, <2>5, CallsKept DEF TypeInv
<1>. QED
    BY <1>3, <1>4, <1>5, <1>6

LEMMA TypeInvAlways == Spec => []TypeInv
<1>1. TypeInv /\ [Next]_vars => TypeInv'
    <2>. SUFFICES ASSUME TypeInv, [Next]_vars PROVE TypeInv'
        OBVIOUS
    <2>1. CASE Next
        BY <2>1, StepsOfNext, TypeInvSdk, TypeInvHandle, TypeInvOther
    <2>2. CASE UNCHANGED vars
        BY <2>2 DEF vars, TypeInv, TypeOK, ClientOK, RequestOK
    <2>. QED
        BY <2>1, <2>2
<1>. QED
    BY <1>1, TypeInvInit, PTL DEF Spec

\* Keys, counters, rows, attempts and calls keep their types; a call makes no more attempts
\* than its retries allow (FlashConnectorClient._request).
THEOREM TypeCorrect == Spec => []TypeOK
<1>1. TypeInv => TypeOK
    BY DEF TypeInv
<1>. QED
    BY <1>1, TypeInvAlways, PTL

-----------------------------------------------------------------------------
(* One row for an Idempotency-Key, and for a call without one.             *)

\* The points before the row is made or found.
Unmade == {"limit", "find", "insert"}

\* The row r is an answer to the call c.
Serves(r, c) ==
    /\ r \in Rows
    /\ row[r].live /\ row[r].key = c.key /\ row[r].endpoint = c.endpoint
    /\ row[r].call = c \/ (c.idem # NoIdem /\ row[r].call.idem = c.idem)

\* Two rows that the index over key, endpoint and Idempotency-Key, and the one attempt of a
\* call without that key, keep apart.
Apart(r, q) ==
    /\ row[r].call # row[q].call
    /\ \/ row[r].call.idem = NoIdem \/ row[r].call.idem # row[q].call.idem
       \/ row[r].key # row[q].key \/ row[r].endpoint # row[q].endpoint

Made(r) ==
    /\ row[r].call \in Calls
    /\ row[r].key = row[r].call.key /\ row[r].endpoint = row[r].call.endpoint
    /\ client[row[r].call].attempts >= 1

RowInv ==
    /\ \A r \in Rows : row[r].live => Made(r)
    /\ \A r, q \in Rows : row[r].live /\ row[q].live /\ r # q => Apart(r, q)
    /\ \A a \in Attempts :
         /\ request[a].pc = "start" => Serves(request[a].row, a[1])
         /\ request[a].pc \in Unmade /\ a[1].idem = NoIdem =>
              \A r \in Rows : row[r].live => row[r].call # a[1]
    /\ \A c \in Calls : client[c].pc = "done" => Serves(client[c].row, c)

SameRow(r) ==
    /\ row'[r].live = row[r].live /\ row'[r].call = row[r].call
    /\ row'[r].key = row[r].key /\ row'[r].endpoint = row[r].endpoint

\* No row is made: what starts or is answered has a row that serves it.
LEMMA RowsKept ==
    ASSUME TypeInv, RowInv, \A r \in Rows : SameRow(r),
           \A c \in Calls : client[c].attempts >= 1 => client'[c].attempts >= 1,
           \A c \in Calls : client'[c].pc = "done" =>
               client'[c] = client[c] \/ Serves(client'[c].row, c),
           \A a \in Attempts : request'[a].pc = "start" =>
               request'[a] = request[a] \/ Serves(request'[a].row, a[1]),
           \A a \in Attempts : request'[a].pc \in Unmade /\ a[1].idem = NoIdem =>
               request[a].pc \in Unmade \/ ~(client[a[1]].attempts >= 1)
    PROVE  RowInv'
<1>1. \A r \in Rows : row'[r].live => Made(r)'
    BY DEF RowInv, Made, SameRow
<1>2. \A r, q \in Rows : row'[r].live /\ row'[q].live /\ r # q => Apart(r, q)'
    BY DEF RowInv, Apart, SameRow
<1>3. ASSUME NEW c \in Calls, NEW r, Serves(r, c) PROVE Serves(r, c)'
    BY <1>3 DEF Serves, SameRow
<1>4. \A a \in Attempts : request'[a].pc = "start" => Serves(request[a].row, a[1])'
    BY <1>3, AttemptType DEF RowInv
<1>5. \A c \in Calls : client'[c].pc = "done" => Serves(client[c].row, c)'
    BY <1>3 DEF RowInv
<1>6. ASSUME NEW a \in Attempts, request'[a].pc \in Unmade, a[1].idem = NoIdem,
             NEW r \in Rows, row'[r].live
      PROVE  row'[r].call # a[1]
    <2>1. row[r].live /\ row'[r].call = row[r].call /\ Made(r)
        BY <1>6 DEF SameRow, RowInv
    <2>. QED
        BY <1>6, <2>1 DEF RowInv, Made
<1>. QED
    BY <1>1, <1>2, <1>4, <1>5, <1>6 DEF RowInv

LEMMA RowInvInit == Init => RowInv
<1>. SUFFICES ASSUME Init PROVE RowInv
    OBVIOUS
<1>1. \A r \in Rows : ~row[r].live
    BY DEF Init, FreeRow
<1>2. \A a \in Attempts : request[a].pc = "idle"
    BY DEF Init, Idle
<1>3. \A c \in Calls : client[c].pc # "done"
    BY DEF Init
<1>. QED
    BY <1>1, <1>2, <1>3 DEF RowInv, Unmade

LEMMA RowInvSdk ==
    ASSUME TypeInv, TypeInv', RowInv, NEW c \in Calls, Send(c) \/ Unsent(c) \/ Raise(c)
    PROVE  RowInv'
<1>. DEFINE n == client[c].attempts + 1
<1>0. /\ client \in [Calls -> Client] /\ request \in [Attempts -> Request]
      /\ client[c] \in Client /\ ClientOK(c, client[c])
    BY DEF TypeInv, TypeOK
<1>1. \A r \in Rows : SameRow(r)
    BY DEF SameRow, Send, Unsent, Raise
\* A call that sends has an attempt left: one without a key sends its first.
<1>2. ASSUME client[c].pc = "send"
      PROVE  /\ n \in 1 .. 1 + MaxRetries /\ n <= Allowed(c) /\ <<c, n>> \in Attempts
             /\ c.idem = NoIdem => ~(client[c].attempts >= 1)
    <2>1. client[c].attempts \in 0 .. 1 + MaxRetries /\ client[c].attempts < Allowed(c)
        BY <1>0, <1>2 DEF ClientOK, Client
    <2>2. n \in 1 .. 1 + MaxRetries /\ n <= Allowed(c)
        BY <2>1, AllowedType, BoundsAssumption
    <2>3. <<c, n>> \in Attempts
        BY <2>2, AttemptType
    <2>4. c.idem = NoIdem => ~(client[c].attempts >= 1)
        BY <2>1, AllowedType
    <2>. QED
        BY <2>2, <2>3, <2>4
<1>3. client[c].attempts \in Nat /\ n \in Nat /\ n >= 1
    BY <1>0, BoundsAssumption DEF Client
<1>. HIDE DEF n
<1>4. ASSUME NEW x, NEW q, client[c].pc = "send", x.attempts = n, x.pc # "done", q.pc # "start",
             client' = [client EXCEPT ![c] = x], request' = [request EXCEPT ![<<c, n>>] = q]
      PROVE  RowInv'
    <2>1. client'[c] = x /\ \A d \in Calls \ {c} : client'[d] = client[d]
        BY <1>0, <1>4
    <2>2. request'[<<c, n>>] = q /\ \A b \in Attempts \ {<<c, n>>} : request'[b] = request[b]
        BY <1>0, <1>2, <1>4
    <2>3. \A d \in Calls : client[d].attempts >= 1 => client'[d].attempts >= 1
        BY <1>3, <1>4, <2>1
    <2>4. \A d \in Calls : client'[d].pc = "done" => client'[d] = client[d]
        BY <1>4, <2>1
    <2>5. \A a \in Attempts : request'[a].pc = "start" => request'[a] = request[a]
        BY <1>4, <2>2
    <2>6. \A a \in Attempts : request'[a].pc \in Unmade /\ a[1].idem = NoIdem =>
             request[a].pc \in Unmade \/ ~(client[a[1]].attempts >= 1)
        BY <1>2, <1>4, <2>2
    <2>. QED
        BY <1>1, <2>3, <2>4, <2>5, <2>6, RowsKept
<1>5. CASE Send(c)
    <2>0. client[c].pc = "send"
        BY <1>5 DEF Send
    <2>1. CASE Resolved(c) = 200
        <3>1. PICK p \in Processes :
                 /\ client' = [client EXCEPT ![c].pc = "wait", ![c].attempts = n]
                 /\ request' = [request EXCEPT ![<<c, n>>] =
                                  [Idle EXCEPT !.pc = "limit", !.process = p, !.now = clock]]
            BY <1>5, <2>1 DEF Send, n
        <3>. DEFINE x == [client[c] EXCEPT !.pc = "wait", !.attempts = n]
                    q == [Idle EXCEPT !.pc = "limit", !.process = p, !.now = clock]
        <3>2. x.pc = "wait" /\ x.attempts = n /\ q.pc = "limit"
            BY <1>0 DEF Client, Idle
        <3>3. client' = [client EXCEPT ![c] = x] /\ request' = [request EXCEPT ![<<c, n>>] = q]
            BY <1>0, <3>1
        <3>. HIDE DEF x, q
        <3>. QED
            BY <1>4, <2>0, <3>2, <3>3
    <2>2. CASE Resolved(c) # 200
        <3>1. /\ client' = [client EXCEPT ![c] = After(c, n, Resolved(c), NoRow)]
              /\ request' = [request EXCEPT ![<<c, n>>] = Dead]
            BY <1>5, <2>2 DEF Send, n
        <3>2. After(c, n, Resolved(c), NoRow).attempts = n /\ After(c, n, Resolved(c), NoRow).pc # "done"
            BY <1>2, <2>0, <2>2, AfterType
        <3>. QED
            BY <1>4, <2>0, <3>1, <3>2, IdleType
    <2>. QED
        BY <2>1, <2>2
<1>6. CASE Unsent(c)
    <2>1. /\ client' = [client EXCEPT ![c] = Raised(c, n)]
          /\ request' = [request EXCEPT ![<<c, n>>] = Dead]
          /\ client[c].pc = "send"
        BY <1>6 DEF Unsent, n
    <2>2. Raised(c, n).attempts = n /\ Raised(c, n).pc # "done"
        BY <1>2, <2>1, AfterType
    <2>. QED
        BY <1>4, <2>1, <2>2, IdleType
<1>7. CASE Raise(c)
    <2>1. client' = [client EXCEPT ![c] = Raised(c, client[c].attempts)] /\ UNCHANGED request
        BY <1>7 DEF Raise
    <2>2. Raised(c, client[c].attempts).attempts = client[c].attempts
          /\ Raised(c, client[c].attempts).pc # "done"
        BY DEF Raised
    <2>3. client'[c].attempts = client[c].attempts /\ client'[c].pc # "done"
          /\ \A d \in Calls \ {c} : client'[d] = client[d]
        BY <1>0, <2>1, <2>2
    <2>. QED
        BY <1>1, <2>1, <2>3, RowsKept
<1>. QED
    BY <1>5, <1>6, <1>7

\* An attempt that is found a row, or refused, with the rows as they are.
LEMMA RowInvMove ==
    ASSUME TypeInv, RowInv, NEW a \in Attempts, request[a].pc \in Busy, \A r \in Rows : SameRow(r),
           NEW r \in Rows \cup {NoRow},
           \/ request[a].pc \in Unmade /\ \E pc \in Unmade : Goto(a, pc, r)
           \/ Serves(r, a[1]) /\ (Goto(a, "start", r) \/ Answer(a, 200, r))
           \/ \E status : status # 200 /\ Answer(a, status, r)
    PROVE  RowInv'
<1>1. CASE Goto(a, "start", r) /\ Serves(r, a[1])
    <2>1. /\ UNCHANGED client /\ request'[a].pc = "start" /\ request'[a].row = r
          /\ \A b \in Attempts \ {a} : request'[b] = request[b]
        BY <1>1, GotoStep DEF Busy
    <2>. QED
        BY <1>1, <2>1, RowsKept DEF Unmade
<1>2. ASSUME NEW pc \in Unmade, request[a].pc \in Unmade, Goto(a, pc, r) PROVE RowInv'
    <2>1. /\ UNCHANGED client /\ request'[a].pc = pc
          /\ \A b \in Attempts \ {a} : request'[b] = request[b]
        BY <1>2, GotoStep DEF Busy, Unmade
    <2>2. pc # "start"
        BY DEF Unmade
    <2>. QED
        BY <1>2, <2>1, <2>2, RowsKept
<1>3. ASSUME NEW status, Answer(a, status, r), status # 200 \/ Serves(r, a[1]) PROVE RowInv'
    <2>1. /\ request'[a] = Dead
          /\ \A b \in Attempts \ {a} : request'[b] = request[b]
          /\ \A c \in Calls : client'[c].attempts = client[c].attempts
          /\ \A c \in Calls : client'[c].pc = "done" =>
                 \/ client'[c] = client[c]
                 \/ c = a[1] /\ status = 200 /\ client'[c].row = r
        BY <1>3, AnswerStep
    <2>2. Dead.pc \notin Unmade \cup {"start"}
        BY IdleType DEF Unmade
    <2>3. \A c \in Calls : client'[c].pc = "done" =>
               client'[c] = client[c] \/ Serves(client'[c].row, c)
        BY <1>3, <2>1
    <2>. QED
        BY <2>1, <2>2, <2>3, RowsKept
<1>. QED
    BY <1>1, <1>2, <1>3

LEMMA ExistingServes ==
    ASSUME RowInv, NEW a \in Attempts, NEW r \in Existing(a)
    PROVE  Serves(r, a[1])
    BY DEF Existing, Serves, KeyOf, EndpointOf

\* The row an attempt makes is apart from every other row.
LEMMA RowInvInsert ==
    ASSUME TypeInv, TypeInv', RowInv, NEW a \in Attempts, Insert(a), Existing(a) = {}
    PROVE  RowInv'
<1>. DEFINE r == CHOOSE r \in Rows : ~row[r].live
<1>0. /\ row \in [Rows -> Row] /\ a[1] \in Calls /\ a[2] \in 1 .. 1 + MaxRetries
      /\ request[a].pc = "insert" /\ client[a[1]].attempts >= 1
    <2>1. a[1] \in Calls /\ a[2] \in 1 .. 1 + MaxRetries /\ request[a].pc = "insert"
        BY AttemptType DEF Insert
    <2>2. a[2] <= client[a[1]].attempts /\ client[a[1]].attempts \in 0 .. 1 + MaxRetries
        BY <2>1 DEF TypeInv, TypeOK, Client
    <2>. QED
        BY <2>1, <2>2, BoundsAssumption DEF TypeInv, TypeOK
<1>1. (\E q \in Rows : ~row[q].live) /\ row' = [row EXCEPT ![r] = NewRow(a)] /\ Goto(a, "start", r)
    BY DEF Insert
<1>2. r \in Rows /\ ~row[r].live
    BY <1>1, FreeRowChosen
<1>3. PICK new \in Rows : new = r
    BY <1>2
<1>. HIDE DEF r
<1>4. /\ row'[new] = NewRow(a) /\ ~row[new].live
      /\ \A q \in Rows \ {new} : row'[q] = row[q]
    BY <1>0, <1>1, <1>2, <1>3
<1>5. /\ row'[new].live /\ row'[new].call = a[1]
      /\ row'[new].key = a[1].key /\ row'[new].endpoint = a[1].endpoint
    BY <1>4 DEF NewRow, KeyOf, EndpointOf
<1>6. /\ UNCHANGED client /\ request'[a].pc = "start" /\ request'[a].row = new
      /\ \A b \in Attempts \ {a} : request'[b] = request[b]
    BY <1>0, <1>1, <1>2, <1>3, GotoStep DEF Busy
<1>7. ASSUME NEW q \in Rows, row[q].live
      PROVE  /\ row[q].call # a[1]
             /\ \/ a[1].idem = NoIdem \/ a[1].idem # row[q].call.idem
                \/ a[1].key # row[q].key \/ a[1].endpoint # row[q].endpoint
    <2>1. /\ Made(q) /\ q \notin Existing(a)
        BY <1>7 DEF RowInv
    <2>2. \/ a[1].idem = NoIdem \/ a[1].idem # row[q].call.idem
          \/ a[1].key # row[q].key \/ a[1].endpoint # row[q].endpoint
        BY <1>7, <2>1 DEF Existing, KeyOf, EndpointOf
    <2>3. a[1].idem = NoIdem => row[q].call # a[1]
        BY <1>0, <1>7 DEF RowInv, Unmade
    <2>4. row[q].call = a[1] => row[q].key = a[1].key /\ row[q].endpoint = a[1].endpoint
                                /\ row[q].call.idem = a[1].idem
        BY <2>1 DEF Made
    <2>. QED
        BY <2>2, <2>3, <2>4
<1>8. \A q \in Rows : row'[q].live => Made(q)'
    BY <1>0, <1>4, <1>5, <1>6 DEF RowInv, Made
<1>9. \A p, q \in Rows : row'[p].live /\ row'[q].live /\ p # q => Apart(p, q)'
    <2>1. ASSUME NEW p \in Rows \ {new}, NEW q \in Rows \ {new}, row'[p].live, row'[q].live, p # q
          PROVE  Apart(p, q)'
        BY <1>4, <2>1 DEF RowInv, Apart
    <2>2. ASSUME NEW q \in Rows \ {new}, row'[q].live PROVE Apart(new, q)' /\ Apart(q, new)'
        BY <1>4, <1>5, <1>7, <2>2 DEF Apart
    <2>. QED
        BY <2>1, <2>2
<1>10. ASSUME NEW q, NEW c, Serves(q, c) PROVE Serves(q, c)'
    BY <1>4, <1>10 DEF Serves
<1>11. ASSUME NEW b \in Attempts, request'[b].pc = "start" PROVE Serves(request[b].row, b[1])'
    <2>1. CASE b = a
        BY <1>5, <1>6, <2>1 DEF Serves
    <2>2. CASE b # a
        <3>1. request'[b] = request[b] /\ Serves(request[b].row, b[1])
            BY <1>6, <1>11, <2>2 DEF RowInv
        <3>. QED
            BY <1>10, <3>1
    <2>. QED
        BY <2>1, <2>2
<1>12. ASSUME NEW c \in Calls, client'[c].pc = "done" PROVE Serves(client[c].row, c)'
    <2>1. client' = client /\ Serves(client[c].row, c)
        BY <1>6, <1>12 DEF RowInv
    <2>. QED
        BY <1>10, <2>1
\* Another attempt of a call without a key would be a second one.
<1>13. ASSUME NEW b \in Attempts, request'[b].pc \in Unmade, b[1].idem = NoIdem,
              NEW q \in Rows, row'[q].live
       PROVE  row'[q].call # b[1]
    <2>1. b # a /\ request'[b] = request[b]
        BY <1>6, <1>13 DEF Unmade
    <2>2. CASE q = new
        <3>1. SUFFICES ASSUME b[1] = a[1] PROVE FALSE
            BY <1>5, <2>2
        <3>2. b[2] <= client[b[1]].attempts /\ a[2] <= client[a[1]].attempts
            BY <1>0, <1>13, <2>1 DEF TypeInv, Unmade
        <3>3. client[a[1]].attempts <= 1 /\ client[a[1]].attempts \in 0 .. 1 + MaxRetries
            BY <1>0, <1>13, <3>1, AllowedType DEF TypeInv, ClientOK, Client
        <3>4. b[2] \in 1 .. 1 + MaxRetries
            BY AttemptType
        <3>5. b[2] = a[2]
            BY <1>0, <3>1, <3>2, <3>3, <3>4, BoundsAssumption
        <3>. QED
            BY <2>1, <3>1, <3>5, AttemptType
    <2>3. CASE q # new
        BY <1>4, <1>13, <2>1, <2>3 DEF RowInv
    <2>. QED
        BY <2>2, <2>3
<1>. QED
    BY <1>8, <1>9, <1>11, <1>12, <1>13 DEF RowInv

LEMMA RowInvHandle ==
    ASSUME TypeInv, TypeInv', RowInv, NEW a \in Attempts,
           \/ Enforce(a) \/ EnforceFallback(a) \/ EnforceUnavailable(a)
           \/ Find(a) \/ Insert(a) \/ Begin(a) \/ Fails(a)
    PROVE  RowInv'
<1>0. UNCHANGED row => \A r \in Rows : SameRow(r)
    BY DEF SameRow
<1>1. CASE Enforce(a) \/ EnforceFallback(a) \/ EnforceUnavailable(a)
    <2>1. UNCHANGED row /\ request[a].pc = "limit"
        BY <1>1 DEF Enforce, EnforceFallback, EnforceUnavailable
    <2>2. Goto(a, "find", NoRow) \/ Answer(a, 429, NoRow)
        BY <1>1 DEF Enforce, EnforceFallback, EnforceUnavailable, Decide
    <2>. QED
        BY <1>0, <2>1, <2>2, RowInvMove DEF Unmade, Busy
<1>2. CASE Find(a)
    <2>1. UNCHANGED row /\ request[a].pc = "find"
        BY <1>2 DEF Find
    <2>2. \/ \E status \in {400, 404} : Answer(a, status, NoRow)
          \/ Goto(a, "insert", NoRow)
          \/ \E r \in Existing(a) : Answer(a, 200, r) \/ Goto(a, "start", r)
        BY <1>2 DEF Find
    <2>3. \A r \in Existing(a) : r \in Rows /\ Serves(r, a[1])
        BY ExistingServes DEF Existing
    <2>. QED
        BY <1>0, <2>1, <2>2, <2>3, RowInvMove DEF Unmade, Busy
<1>3. CASE Insert(a) /\ Existing(a) # {}
    <2>1. UNCHANGED row /\ request[a].pc = "insert"
        BY <1>3 DEF Insert
    <2>2. \E r \in Existing(a) : Answer(a, 200, r) \/ Goto(a, "start", r)
        BY <1>3 DEF Insert
    <2>3. \A r \in Existing(a) : r \in Rows /\ Serves(r, a[1])
        BY ExistingServes DEF Existing
    <2>. QED
        BY <1>0, <2>1, <2>2, <2>3, RowInvMove DEF Busy
<1>4. CASE Begin(a)
    <2>1. request[a].pc = "start"
        BY <1>4 DEF Begin
    <2>2. Serves(request[a].row, a[1]) /\ request[a].row \in Rows
        BY <2>1 DEF RowInv, Serves
    <2>3. \A r \in Rows : SameRow(r)
        BY <1>4, <2>2 DEF Begin, SameRow, TypeInv, TypeOK, Row
    <2>4. Answer(a, 200, request[a].row) \/ Answer(a, 500, NoRow)
        BY <1>4 DEF Begin
    <2>. QED
        BY <2>1, <2>2, <2>3, <2>4, RowInvMove DEF Busy
<1>5. CASE Fails(a)
    <2>1. UNCHANGED row /\ request[a].pc = "find" /\ Answer(a, 500, NoRow)
        BY <1>5 DEF Fails
    <2>. QED
        BY <1>0, <2>1, RowInvMove DEF Busy
<1>. QED
    BY <1>1, <1>2, <1>3, <1>4, <1>5, RowInvInsert

LEMMA RowInvOther ==
    ASSUME TypeInv, RowInv,
           \/ \E k \in Keys : DeactivateKey(k) \/ \E p \in Payloads : CreateKey(k, p)
           \/ \E t \in Ticks : TimePasses(t)
           \/ \E p \in Processes : Restart(p)
    PROVE  RowInv'
<1>1. UNCHANGED <<row, client>>
    BY DEF DeactivateKey, CreateKey, TimePasses, Restart
<1>2. \A r \in Rows : SameRow(r)
    BY <1>1 DEF SameRow
<1>3. \A b \in Attempts : request'[b] = request[b] \/ request'[b] = Dead
    BY DEF DeactivateKey, CreateKey, TimePasses, Restart
<1>4. Dead.pc \notin Unmade \cup {"start"}
    BY IdleType DEF Unmade
<1>. QED
    BY <1>1, <1>2, <1>3, <1>4, RowsKept

LEMMA RowInvAlways == Spec => []RowInv
<1>1. TypeInv /\ TypeInv' /\ RowInv /\ [Next]_vars => RowInv'
    <2>. SUFFICES ASSUME TypeInv, TypeInv', RowInv, [Next]_vars PROVE RowInv'
        OBVIOUS
    <2>1. CASE Next
        BY <2>1, StepsOfNext, RowInvSdk, RowInvHandle, RowInvOther
    <2>2. CASE UNCHANGED vars
        BY <2>2 DEF vars, RowInv, Made, Apart, Serves
    <2>. QED
        BY <2>1, <2>2
<1>. QED
    BY <1>1, TypeInvAlways, RowInvInit, PTL DEF Spec

\* Calls with one Idempotency-Key make one row between them, a call without one makes at most
\* one, and every answer names the row made for its call (submit_job, submit_response, the
\* index uq_jobs_idempotency_scope).
THEOREM OneRowForARequest == Spec => []OneRowPerRequest
<1>1. RowInv => OneRowPerRequest
    BY DEF RowInv, Apart, Serves, OneRowPerRequest
<1>. QED
    BY <1>1, RowInvAlways, PTL

-----------------------------------------------------------------------------
(* Time.                                                                   *)

LEMMA Division ==
    ASSUME NEW P \in Nat \ {0}, NEW t \in Nat, NEW u \in Nat, t <= u
    PROVE  /\ t \div P \in Nat /\ u \div P \in Nat /\ t \div P <= u \div P
           /\ t % P \in Nat /\ u % P \in 0 .. P - 1
           /\ t \div P = u \div P => t % P <= u % P
<1>1. t \div P \in Nat /\ u \div P \in Nat
    OBVIOUS
<1>2. t \div P <= u \div P
    BY Z3
<1>3. t % P \in Nat
    BY Z3
<1>4. u % P \in 0 .. P - 1
    BY Z3
<1>5. t \div P = u \div P => t % P <= u % P
    BY Z3
<1>. QED
    BY <1>1, <1>2, <1>3, <1>4, <1>5

\* Months follow each other, and the last second of one is its last tick.
LEMMA MonthOrder ==
    ASSUME NEW t \in Ticks, NEW u \in Ticks, t <= u
    PROVE  /\ Month(t) \in Nat /\ Month(u) \in Nat /\ Month(t) <= Month(u)
           /\ Month(t) = Month(u) /\ LastSecond(t) => LastSecond(u)
<1>1. PerMonth \in Nat \ {0} /\ t \in Nat /\ u \in Nat
    BY TimeAssumption, TickType DEF PerMonth
<1>2. /\ Month(t) \in Nat /\ Month(u) \in Nat /\ Month(t) <= Month(u)
      /\ t % PerMonth \in Nat /\ u % PerMonth \in 0 .. PerMonth - 1
      /\ Month(t) = Month(u) => t % PerMonth <= u % PerMonth
    BY <1>1, Division DEF Month
<1>. DEFINE r == t % PerMonth  w == u % PerMonth
<1>3. /\ r \in Nat /\ w \in 0 .. MinutesPerMonth
      /\ Month(t) = Month(u) => r <= w
    BY <1>2, TimeAssumption DEF PerMonth
<1>4. (LastSecond(t) <=> r = MinutesPerMonth) /\ (LastSecond(u) <=> w = MinutesPerMonth)
    BY DEF LastSecond
<1>. HIDE DEF r, w
<1>. QED
    BY <1>2, <1>3, <1>4, TimeAssumption

-----------------------------------------------------------------------------
(* What the counters count.                                                *)

\* A verdict is that of an attempt that has passed the limits, under a key that exists.
JudgedInv ==
    /\ IsFiniteSet(seen)
    /\ \A w \in seen : /\ request[w.attempt].pc \notin {"idle", "limit"}
                       /\ key[w.key].live /\ w.at <= clock
    /\ \A a \in Attempts : request[a].pc \in Busy => key[KeyOf(a)].live /\ request[a].now <= clock

LEMMA JudgedInvInit == Init => JudgedInv
<1>. SUFFICES ASSUME Init PROVE JudgedInv
    OBVIOUS
<1>1. seen = {} /\ \A a \in Attempts : request[a].pc = "idle"
    BY DEF Init, Idle
<1>. QED
    BY <1>1, FS_EmptySet DEF JudgedInv, Busy

LEMMA JudgedInvSdk ==
    ASSUME TypeInv, JudgedInv, NEW c \in Calls, Send(c) \/ Unsent(c) \/ Raise(c)
    PROVE  JudgedInv'
<1>. DEFINE n == client[c].attempts + 1
<1>0. /\ request \in [Attempts -> Request] /\ client[c] \in Client /\ ClientOK(c, client[c])
      /\ clock \in Nat /\ seen \subseteq Verdict
    BY TickType DEF TypeInv, TypeOK
<1>1. UNCHANGED <<key, clock, seen>>
    BY DEF Send, Unsent, Raise
<1>2. ASSUME client[c].pc = "send"
      PROVE  <<c, n>> \in Attempts /\ request[<<c, n>>].pc = "idle"
    <2>1. client[c].attempts \in 0 .. 1 + MaxRetries /\ client[c].attempts < Allowed(c)
        BY <1>0, <1>2 DEF ClientOK, Client
    <2>2. n \in 1 .. 1 + MaxRetries /\ ~(n <= client[c].attempts)
        BY <2>1, AllowedType, BoundsAssumption
    <2>. HIDE DEF n
    <2>3. <<c, n>> \in Attempts /\ <<c, n>>[1] = c /\ <<c, n>>[2] = n
        BY <2>2, AttemptType
    <2>. QED
        BY <2>2, <2>3 DEF TypeInv
<1>. HIDE DEF n
\* No verdict is of an attempt that is only now made.
<1>3. ASSUME NEW q, client[c].pc = "send", request' = [request EXCEPT ![<<c, n>>] = q],
             q.pc \in Busy => key[c.key].live /\ q.now <= clock
      PROVE  JudgedInv'
    <2>1. request'[<<c, n>>] = q /\ \A b \in Attempts \ {<<c, n>>} : request'[b] = request[b]
        BY <1>0, <1>2, <1>3
    <2>2. \A w \in seen : w.attempt \in Attempts /\ w.attempt # <<c, n>>
        BY <1>0, <1>2, <1>3 DEF JudgedInv, Verdict
    <2>3. \A w \in seen : request'[w.attempt].pc \notin {"idle", "limit"}
        BY <2>1, <2>2 DEF JudgedInv
    <2>4. KeyOf(<<c, n>>) = c.key
        BY DEF KeyOf
    <2>5. \A b \in Attempts : request'[b].pc \in Busy => key[KeyOf(b)].live /\ request'[b].now <= clock
        BY <1>3, <2>1, <2>4 DEF JudgedInv
    <2>. QED
        BY <1>1, <2>3, <2>5 DEF JudgedInv
<1>4. CASE Send(c)
    <2>1. CASE Resolved(c) = 200
        <3>1. PICK p \in Processes :
                 request' = [request EXCEPT ![<<c, n>>] =
                               [Idle EXCEPT !.pc = "limit", !.process = p, !.now = clock]]
            BY <1>4, <2>1 DEF Send, n
        <3>2. key[c.key].live
            BY <2>1 DEF Resolved
        <3>3. [Idle EXCEPT !.pc = "limit", !.process = p, !.now = clock].now <= clock
            BY <1>0 DEF Idle
        <3>4. client[c].pc = "send"
            BY <1>4 DEF Send
        <3>. QED
            BY <1>3, <3>1, <3>2, <3>3, <3>4
    <2>2. CASE Resolved(c) # 200
        <3>1. request' = [request EXCEPT ![<<c, n>>] = Dead] /\ client[c].pc = "send"
            BY <1>4, <2>2 DEF Send, n
        <3>. QED
            BY <1>3, <3>1, IdleType DEF Busy
    <2>. QED
        BY <2>1, <2>2
<1>5. CASE Unsent(c)
    <2>1. request' = [request EXCEPT ![<<c, n>>] = Dead] /\ client[c].pc = "send"
        BY <1>5 DEF Unsent, n
    <2>. QED
        BY <1>3, <2>1, IdleType DEF Busy
<1>6. CASE Raise(c)
    <2>1. UNCHANGED request
        BY <1>6 DEF Raise
    <2>. QED
        BY <1>1, <2>1 DEF JudgedInv
<1>. QED
    BY <1>4, <1>5, <1>6

LEMMA JudgedInvHandle ==
    ASSUME TypeInv, JudgedInv, NEW a \in Attempts,
           \/ Enforce(a) \/ EnforceFallback(a) \/ EnforceUnavailable(a)
           \/ Find(a) \/ Insert(a) \/ Begin(a) \/ Fails(a)
    PROVE  JudgedInv'
<1>0. /\ request \in [Attempts -> Request] /\ clock \in Nat /\ seen \subseteq Verdict
      /\ request[a].pc \in Busy /\ UNCHANGED <<key, clock>>
    BY TickType DEF TypeInv, TypeOK, Enforce, EnforceFallback, EnforceUnavailable, Find, Insert,
       Begin, Fails, Busy
<1>1. \/ \E pc \in Busy \ {"limit"}, r \in Rows \cup {NoRow} : Goto(a, pc, r)
      \/ \E r \in Rows \cup {NoRow} : \E status : Answer(a, status, r)
    <2>1. CASE Enforce(a) \/ EnforceFallback(a) \/ EnforceUnavailable(a)
        BY <2>1 DEF Enforce, EnforceFallback, EnforceUnavailable, Decide, Busy
    <2>2. CASE Find(a)
        BY <2>2 DEF Find, Existing, Busy
    <2>3. CASE Insert(a)
        BY <2>3, FreeRowChosen DEF Insert, Existing, Busy
    <2>4. CASE Begin(a) \/ Fails(a)
        BY <1>0, <2>4 DEF Begin, Fails, Request
    <2>. QED
        BY <2>1, <2>2, <2>3, <2>4
<1>2. /\ request'[a].pc \notin {"idle", "limit"}
      /\ request'[a].pc \in Busy => request'[a].now = request[a].now
      /\ \A b \in Attempts \ {a} : request'[b] = request[b]
    <2>1. CASE \E pc \in Busy \ {"limit"}, r \in Rows \cup {NoRow} : Goto(a, pc, r)
        BY <1>0, <2>1, GotoStep DEF Busy
    <2>2. CASE \E r \in Rows \cup {NoRow} : \E status : Answer(a, status, r)
        BY <1>0, <2>2, AnswerStep, IdleType DEF Busy
    <2>. QED
        BY <1>1, <2>1, <2>2
<1>. DEFINE Of(w) == w.attempt = a /\ w.key = KeyOf(a) /\ w.at = clock
<1>3. \E v, w : seen' \subseteq seen \cup {v, w} /\ Of(v) /\ Of(w)
    <2>1. \A s, reason : Of(Judged(s, a, reason))
        BY DEF Judged
    <2>. HIDE DEF Of
    <2>2. \A done : Unheard(a, done) \subseteq {Judged(Redis, a, "unknown")}
        BY DEF Unheard
    <2>3. CASE Enforce(a)
        <3>1. seen' \subseteq seen \cup {Judged(Redis, a, Reason(Redis, a)), Judged(Redis, a, Reason(Redis, a))}
            BY <2>3 DEF Enforce
        <3>. QED
            BY <2>1, <3>1
    <2>4. CASE EnforceFallback(a)
        <3>. DEFINE p == request[a].process
        <3>1. PICK done \in BOOLEAN :
                 seen' = seen \cup {Judged(p, a, Reason(p, a))} \cup Unheard(a, done)
            BY <2>4 DEF EnforceFallback
        <3>2. seen' \subseteq seen \cup {Judged(p, a, Reason(p, a)), Judged(Redis, a, "unknown")}
            BY <2>2, <3>1
        <3>. QED
            BY <2>1, <3>2
    <2>5. CASE ~Enforce(a) /\ ~EnforceFallback(a)
        <3>1. seen' \subseteq seen \cup {Judged(Redis, a, "unknown"), Judged(Redis, a, "unknown")}
            BY <2>2, <2>5 DEF EnforceUnavailable, Find, Insert, Begin, Fails
        <3>. QED
            BY <2>1, <3>1
    <2>. QED
        BY <2>3, <2>4, <2>5
<1>4. PICK v, w : seen' \subseteq seen \cup {v, w} /\ Of(v) /\ Of(w)
    BY <1>3
<1>5. IsFiniteSet(seen')
    <2>1. IsFiniteSet(seen \cup {v})
        BY FS_AddElement DEF JudgedInv
    <2>2. IsFiniteSet(seen \cup {v} \cup {w})
        BY <2>1, FS_AddElement
    <2>. QED
        BY <1>4, <2>2, FS_Subset
<1>6. \A x \in seen : x.attempt \in Attempts
    BY <1>0 DEF Verdict
<1>7. ASSUME NEW x \in seen'
      PROVE  request'[x.attempt].pc \notin {"idle", "limit"} /\ key[x.key].live /\ x.at <= clock
    <2>1. CASE x \in {v, w}
        BY <1>0, <1>2, <1>4, <2>1 DEF JudgedInv
    <2>2. CASE x \in seen
        BY <1>2, <1>6, <2>2 DEF JudgedInv
    <2>. QED
        BY <1>4, <1>7, <2>1, <2>2
<1>8. \A b \in Attempts : request'[b].pc \in Busy => key[KeyOf(b)].live /\ request'[b].now <= clock
    BY <1>0, <1>2 DEF JudgedInv
<1>. QED
    BY <1>0, <1>5, <1>7, <1>8 DEF JudgedInv

LEMMA JudgedInvOther ==
    ASSUME TypeInv, JudgedInv,
           \/ \E k \in Keys : DeactivateKey(k) \/ \E p \in Payloads : CreateKey(k, p)
           \/ \E t \in Ticks : TimePasses(t)
           \/ \E p \in Processes : Restart(p)
    PROVE  JudgedInv'
<1>1. /\ seen' \subseteq seen /\ seen \subseteq Verdict /\ key \in [Keys -> ApiKey]
      /\ \A w \in seen : w.attempt \in Attempts /\ w.key \in Keys
      /\ \A b \in Attempts : request'[b] = request[b] \/ request'[b] = Dead
    BY DEF DeactivateKey, CreateKey, TimePasses, Restart, TypeInv, TypeOK, Verdict
<1>2. \A k \in Keys : key[k].live => key'[k].live
    BY <1>1, KeyType DEF DeactivateKey, CreateKey, TimePasses, Restart, ApiKey
<1>3. \A t \in Nat : t <= clock => t <= clock'
    BY TickType DEF DeactivateKey, CreateKey, TimePasses, Restart, TypeInv, TypeOK
<1>4. /\ \A b \in Attempts : request[b].now \in Nat
      /\ \A w \in seen : w.at \in Nat
    BY <1>1, TickType DEF TypeInv, TypeOK, Request, Verdict
<1>5. IsFiniteSet(seen')
    BY <1>1, FS_Subset DEF JudgedInv
<1>6. \A w \in seen' : /\ request'[w.attempt].pc \notin {"idle", "limit"}
                       /\ key'[w.key].live /\ w.at <= clock'
    BY <1>1, <1>2, <1>3, <1>4, IdleType DEF JudgedInv
<1>7. \A b \in Attempts : request'[b].pc \in Busy => key'[KeyOf(b)].live /\ request'[b].now <= clock'
    BY <1>1, <1>2, <1>3, <1>4, IdleType, AttemptType DEF JudgedInv, Busy
<1>. QED
    BY <1>5, <1>6, <1>7 DEF JudgedInv

LEMMA JudgedInvAlways == Spec => []JudgedInv
<1>1. TypeInv /\ JudgedInv /\ [Next]_vars => JudgedInv'
    <2>. SUFFICES ASSUME TypeInv, JudgedInv, [Next]_vars PROVE JudgedInv'
        OBVIOUS
    <2>1. CASE Next
        BY <2>1, StepsOfNext, JudgedInvSdk, JudgedInvHandle, JudgedInvOther
    <2>2. CASE UNCHANGED vars
        BY <2>2 DEF vars, JudgedInv
    <2>. QED
        BY <2>1, <2>2
<1>. QED
    BY <1>1, TypeInvAlways, JudgedInvInit, PTL DEF Spec

-----------------------------------------------------------------------------
(* Counters and limits, of one store at a time.                            *)

Counted(s, k, m) == {w \in seen : w.store = s /\ w.key = k /\ Minute(w.now) = m}
InTheMonth(s, k, m) == {w \in seen : w.store = s /\ w.key = k /\ Month(w.now) = m}
Early(s, k, m) == {w \in InTheMonth(s, k, m) : Month(w.at) = m /\ ~LastSecond(w.at)}

\* Nothing of the month can have been dropped yet.
NotOver(m) == Month(clock) = m /\ ~LastSecond(clock)

\* The counter n of a minute with the requests S, and that of a month with the requests S,
\* of which E were made before the counter may have been dropped.
MinuteOK(S, n, limit) ==
    /\ n = Cardinality(S)
    /\ Cardinality(Admitted(S)) <= limit
    /\ \A v \in S : v.reason = "rate" => Cardinality(S) > limit

MonthOK(S, E, n, limit) ==
    /\ n <= Cardinality(S)
    /\ Cardinality(Admitted(E)) <= limit
    /\ \A v \in S : v.reason = "quota" => Cardinality(S) > limit

StoreOK(s) ==
    \A k \in Keys :
        /\ \A m \in Minutes : MinuteOK(Counted(s, k, m), rate[<<s, k, m>>], key[k].rate)
        /\ \A m \in Months :
              /\ MonthOK(InTheMonth(s, k, m), Early(s, k, m), quota[<<s, k, m>>], key[k].quota)
              /\ NotOver(m) => Cardinality(Early(s, k, m)) <= quota[<<s, k, m>>]

LimitInv == \A s \in Stores : StoreOK(s)

LEMMA EmptyOK ==
    ASSUME NEW limit \in Nat
    PROVE  MinuteOK({}, 0, limit) /\ MonthOK({}, {}, 0, limit)
<1>1. Admitted({}) = {} /\ Cardinality({}) = 0
    BY FS_EmptySet DEF Admitted
<1>. QED
    BY <1>1 DEF MinuteOK, MonthOK

\* One more request, in a set that is not larger than the limit if it is admitted.
LEMMA AdmittedStep ==
    ASSUME NEW S, IsFiniteSet(S), NEW v, v \notin S, NEW limit \in Nat,
           Cardinality(Admitted(S)) <= limit,
           v.reason = "admitted" => Cardinality(S) + 1 <= limit
    PROVE  /\ IsFiniteSet(S \cup {v}) /\ Cardinality(S) \in Nat
           /\ Cardinality(S \cup {v}) = Cardinality(S) + 1
           /\ Cardinality(Admitted(S \cup {v})) <= limit
<1>1. /\ IsFiniteSet(S \cup {v}) /\ Cardinality(S) \in Nat
      /\ Cardinality(S \cup {v}) = Cardinality(S) + 1
    BY FS_AddElement, FS_CardinalityType
<1>2. CASE v.reason = "admitted"
    <2>1. Admitted(S \cup {v}) \in SUBSET (S \cup {v})
        BY DEF Admitted
    <2>2. /\ Cardinality(Admitted(S \cup {v})) \in Nat
          /\ Cardinality(Admitted(S \cup {v})) <= Cardinality(S \cup {v})
        BY <1>1, <2>1, FS_Subset, FS_CardinalityType
    <2>. QED
        BY <1>1, <1>2, <2>2
<1>3. CASE v.reason # "admitted"
    <2>1. Admitted(S \cup {v}) = Admitted(S)
        BY <1>3 DEF Admitted
    <2>. QED
        BY <1>1, <2>1
<1>. QED
    BY <1>2, <1>3

LEMMA MinuteStep ==
    ASSUME NEW S, IsFiniteSet(S), NEW n, NEW limit \in Nat, MinuteOK(S, n, limit),
           NEW v, v \notin S,
           v.reason = "admitted" => n + 1 <= limit,
           v.reason = "rate" => n + 1 > limit
    PROVE  MinuteOK(S \cup {v}, n + 1, limit)
<1>1. /\ Cardinality(S) \in Nat
      /\ Cardinality(S \cup {v}) = Cardinality(S) + 1
      /\ Cardinality(Admitted(S \cup {v})) <= limit
    BY AdmittedStep DEF MinuteOK
<1>2. ASSUME NEW w \in S \cup {v}, w.reason = "rate"
      PROVE  Cardinality(S) + 1 > limit
    BY <1>1, <1>2 DEF MinuteOK
<1>. QED
    BY <1>1, <1>2 DEF MinuteOK

\* In a month that is over, or in its last second, the counter may start again.
LEMMA MonthStep ==
    ASSUME NEW S, IsFiniteSet(S), NEW E \in SUBSET S, NEW n \in Nat, NEW limit \in Nat,
           MonthOK(S, E, n, limit), NEW v, v \notin S,
           v.reason = "admitted" => n + 1 <= limit,
           v.reason = "quota" => n + 1 > limit
    PROVE  /\ MonthOK(S \cup {v}, E, n + 1, limit) /\ MonthOK(S \cup {v}, E, 0, limit)
           /\ Cardinality(E) <= n => /\ MonthOK(S \cup {v}, E \cup {v}, n + 1, limit)
                                     /\ Cardinality(E \cup {v}) <= n + 1
<1>1. /\ Cardinality(S) \in Nat
      /\ Cardinality(S \cup {v}) = Cardinality(S) + 1
    BY FS_AddElement, FS_CardinalityType
<1>2. IsFiniteSet(E) /\ Cardinality(E) \in Nat /\ v \notin E
    BY FS_Subset, FS_CardinalityType
<1>3. \A w \in S \cup {v} : w.reason = "quota" => Cardinality(S) + 1 > limit
    <2>. SUFFICES ASSUME NEW w \in S \cup {v}, w.reason = "quota"
                  PROVE  Cardinality(S) + 1 > limit
        OBVIOUS
    <2>. QED
        BY <1>1 DEF MonthOK
<1>4. MonthOK(S \cup {v}, E, n + 1, limit) /\ MonthOK(S \cup {v}, E, 0, limit)
    BY <1>1, <1>3 DEF MonthOK
<1>5. ASSUME Cardinality(E) <= n
      PROVE  /\ MonthOK(S \cup {v}, E \cup {v}, n + 1, limit)
             /\ Cardinality(E \cup {v}) <= n + 1
    <2>1. Cardinality(Admitted(E)) <= limit
        BY DEF MonthOK
    <2>2. v.reason = "admitted" => Cardinality(E) + 1 <= limit
        BY <1>2, <1>5
    <2>3. /\ Cardinality(Admitted(E \cup {v})) <= limit
          /\ Cardinality(E \cup {v}) = Cardinality(E) + 1
        BY <1>2, <2>1, <2>2, AdmittedStep
    <2>4. n + 1 <= Cardinality(S \cup {v})
        BY <1>1 DEF MonthOK
    <2>. QED
        BY <1>1, <1>2, <1>3, <1>5, <2>3, <2>4 DEF MonthOK
<1>. QED
    BY <1>4, <1>5

LEMMA CounterTypes ==
    ASSUME TypeInv, JudgedInv, NEW s \in Stores, NEW k \in Keys
    PROVE  /\ key[k].rate \in Nat /\ key[k].quota \in Nat
           /\ \A m \in Minutes : rate[<<s, k, m>>] \in Nat /\ IsFiniteSet(Counted(s, k, m))
           /\ \A m \in Months : /\ quota[<<s, k, m>>] \in Nat /\ IsFiniteSet(InTheMonth(s, k, m))
                                /\ Early(s, k, m) \in SUBSET InTheMonth(s, k, m)
<1>1. key[k].rate \in Nat /\ key[k].quota \in Nat
    BY DEF TypeInv, TypeOK, ApiKey
<1>2. /\ \A m \in Minutes : rate[<<s, k, m>>] \in Nat
      /\ \A m \in Months : quota[<<s, k, m>>] \in Nat
    BY DEF TypeInv, TypeOK
<1>3. \A m : IsFiniteSet(Counted(s, k, m)) /\ IsFiniteSet(InTheMonth(s, k, m))
    <2>. TAKE m
    <2>1. Counted(s, k, m) \in SUBSET seen /\ InTheMonth(s, k, m) \in SUBSET seen
        BY DEF Counted, InTheMonth
    <2>. QED
        BY <2>1, FS_Subset DEF JudgedInv
<1>4. \A m : Early(s, k, m) \in SUBSET InTheMonth(s, k, m)
    BY DEF Early
<1>. QED
    BY <1>1, <1>2, <1>3, <1>4

\* Store s counts the request of a, and v is the verdict on it ...
Counts(s, a, v) ==
    /\ \A w : w \in seen' /\ w.store = s <=> (w \in seen /\ w.store = s) \/ w = v
    /\ \A k \in Keys, m \in Minutes :
          rate'[<<s, k, m>>] = IF k = KeyOf(a) /\ m = Minute(request[a].now)
                               THEN rate[<<s, k, m>>] + 1 ELSE rate[<<s, k, m>>]
    /\ \A k \in Keys, m \in Months :
          \/ /\ ~(k = KeyOf(a) /\ m = Month(request[a].now))
             /\ quota'[<<s, k, m>>] = quota[<<s, k, m>>]
          \/ /\ k = KeyOf(a) /\ m = Month(request[a].now)
             /\ \/ quota'[<<s, k, m>>] = quota[<<s, k, m>>] + 1
                \/ quota'[<<s, k, m>>] = 0 /\ LastSecond(request[a].now)

\* ... or counts nothing.
Ignores(s) ==
    /\ \A w : w \in seen' /\ w.store = s <=> w \in seen /\ w.store = s
    /\ \A k \in Keys, m \in Minutes : rate'[<<s, k, m>>] = rate[<<s, k, m>>]
    /\ \A k \in Keys, m \in Months : quota'[<<s, k, m>>] = quota[<<s, k, m>>]

\* The verdict is the one of the counters, or is not known.
Just(s, a, reason) ==
    /\ reason = "admitted" => /\ RateCount(s, a) <= key[KeyOf(a)].rate
                              /\ QuotaCount(s, a) <= key[KeyOf(a)].quota
    /\ reason = "rate" => RateCount(s, a) > key[KeyOf(a)].rate
    /\ reason = "quota" => QuotaCount(s, a) > key[KeyOf(a)].quota

LEMMA ReasonIsJust ==
    ASSUME TypeInv, NEW a \in Attempts, NEW s \in Stores
    PROVE  Just(s, a, Reason(s, a)) /\ Just(s, a, "unknown")
<1>1. request[a].now \in Ticks /\ KeyOf(a) \in Keys
    BY AttemptType DEF TypeInv, TypeOK, Request
<1>2. /\ key[KeyOf(a)].rate \in Nat /\ key[KeyOf(a)].quota \in Nat
      /\ rate[InRate(s, a)] \in Nat /\ quota[InQuota(s, a)] \in Nat
    BY <1>1, TickType DEF TypeInv, TypeOK, ApiKey, InRate, InQuota
<1>. QED
    BY <1>2 DEF Just, Reason, RateCount, QuotaCount

LEMMA StoreCounts ==
    ASSUME TypeInv, JudgedInv, NEW s \in Stores, StoreOK(s), NEW a \in Attempts,
           request[a].pc = "limit", NEW reason, Just(s, a, reason),
           NEW v, v = Judged(s, a, reason), Counts(s, a, v), UNCHANGED <<key, clock>>
    PROVE  StoreOK(s)'
<1>. DEFINE t == request[a].now  h == KeyOf(a)
<1>0. /\ t \in Ticks /\ h \in Keys /\ clock \in Ticks /\ t <= clock
      /\ v.attempt = a /\ v.key = h /\ v.store = s /\ v.now = t /\ v.at = clock /\ v.reason = reason
    BY AttemptType DEF TypeInv, TypeOK, Request, Judged, JudgedInv, Busy
<1>1. v \notin seen
    BY <1>0 DEF JudgedInv
<1>2. \A w : w \in seen' /\ w.store = s <=> (w \in seen /\ w.store = s) \/ w = v
    BY DEF Counts
<1>3. ASSUME NEW k \in Keys, NEW m \in Minutes
      PROVE  MinuteOK(Counted(s, k, m), rate[<<s, k, m>>], key[k].rate)'
    <2>. DEFINE S == Counted(s, k, m)  n == rate[<<s, k, m>>]  limit == key[k].rate
    <2>1. MinuteOK(S, n, limit) /\ IsFiniteSet(S) /\ limit \in Nat
        BY CounterTypes DEF StoreOK
    <2>2. CASE k = h /\ m = Minute(t)
        <3>1. Counted(s, k, m)' = S \cup {v} /\ v \notin S
            BY <1>0, <1>1, <1>2, <2>2 DEF Counted
        <3>2. rate'[<<s, k, m>>] = n + 1
            BY <2>2 DEF Counts
        <3>3. (reason = "admitted" => n + 1 <= limit) /\ (reason = "rate" => n + 1 > limit)
            BY <2>2 DEF Just, RateCount, InRate
        <3>. HIDE DEF S, n, limit
        <3>4. MinuteOK(S \cup {v}, n + 1, limit)
            BY <1>0, <2>1, <3>1, <3>3, MinuteStep
        <3>. QED
            BY <3>1, <3>2, <3>4 DEF MinuteOK, Admitted, limit
    <2>3. CASE ~(k = h /\ m = Minute(t))
        <3>1. Counted(s, k, m)' = S
            BY <1>0, <1>2, <2>3 DEF Counted
        <3>2. rate'[<<s, k, m>>] = n
            BY <2>3 DEF Counts
        <3>. QED
            BY <2>1, <3>1, <3>2 DEF MinuteOK, Admitted
    <2>. QED
        BY <2>2, <2>3
<1>4. ASSUME NEW k \in Keys, NEW m \in Months
      PROVE  /\ MonthOK(InTheMonth(s, k, m), Early(s, k, m), quota[<<s, k, m>>], key[k].quota)'
             /\ NotOver(m)' => Cardinality(Early(s, k, m))' <= quota'[<<s, k, m>>]
    <2>. DEFINE S == InTheMonth(s, k, m)  E == Early(s, k, m)
                n == quota[<<s, k, m>>]  limit == key[k].quota
    <2>1. /\ MonthOK(S, E, n, limit) /\ IsFiniteSet(S) /\ E \in SUBSET S /\ limit \in Nat
          /\ n \in Nat /\ (NotOver(m) => Cardinality(E) <= n) /\ (NotOver(m)' <=> NotOver(m))
        BY CounterTypes DEF StoreOK, NotOver
    <2>2. CASE k = h /\ m = Month(t)
        <3>1. InTheMonth(s, k, m)' = S \cup {v} /\ v \notin S
            BY <1>0, <1>1, <1>2, <2>2 DEF InTheMonth
        <3>2. Early(s, k, m)' = IF NotOver(m) THEN E \cup {v} ELSE E
            BY <1>0, <3>1 DEF Early, NotOver
        <3>3. (reason = "admitted" => n + 1 <= limit) /\ (reason = "quota" => n + 1 > limit)
            BY <2>2 DEF Just, QuotaCount, InQuota
        <3>4. quota'[<<s, k, m>>] = n + 1 \/ (quota'[<<s, k, m>>] = 0 /\ ~NotOver(m))
            <4>1. quota'[<<s, k, m>>] = n + 1 \/ (quota'[<<s, k, m>>] = 0 /\ LastSecond(t))
                BY <2>2 DEF Counts
            <4>2. LastSecond(t) => ~NotOver(m)
                BY <1>0, <2>2, MonthOrder DEF NotOver
            <4>. QED
                BY <4>1, <4>2
        <3>. HIDE DEF S, E, n, limit
        <3>5. /\ MonthOK(S \cup {v}, E, n + 1, limit) /\ MonthOK(S \cup {v}, E, 0, limit)
              /\ NotOver(m) => /\ MonthOK(S \cup {v}, E \cup {v}, n + 1, limit)
                               /\ Cardinality(E \cup {v}) <= n + 1
            BY <1>0, <2>1, <3>1, <3>3, MonthStep
        <3>6. limit = key'[k].quota
            BY DEF limit
        <3>7. CASE NotOver(m)
            BY <2>1, <3>1, <3>2, <3>4, <3>5, <3>6, <3>7 DEF MonthOK, Admitted
        <3>8. CASE ~NotOver(m)
            BY <2>1, <3>1, <3>2, <3>4, <3>5, <3>6, <3>8 DEF MonthOK, Admitted
        <3>. QED
            BY <3>7, <3>8
    <2>3. CASE ~(k = h /\ m = Month(t))
        <3>1. InTheMonth(s, k, m)' = S
            BY <1>0, <1>2, <2>3 DEF InTheMonth
        <3>2. Early(s, k, m)' = E
            BY <3>1 DEF Early
        <3>3. quota'[<<s, k, m>>] = n
            BY <2>3 DEF Counts
        <3>. QED
            BY <2>1, <3>1, <3>2, <3>3 DEF MonthOK, Admitted
    <2>. QED
        BY <2>2, <2>3
<1>. QED
    BY <1>3, <1>4 DEF StoreOK

\* A store that counts nothing, and a key that keeps its limits or has no verdict yet.
LEMMA StoreKept ==
    ASSUME TypeInv, TypeInv', JudgedInv, NEW s \in Stores, StoreOK(s), Ignores(s),
           UNCHANGED clock,
           \A k \in Keys : key[k].live => /\ key'[k].rate = key[k].rate
                                          /\ key'[k].quota = key[k].quota
    PROVE  StoreOK(s)'
<1>. SUFFICES ASSUME NEW k \in Keys
              PROVE  /\ \A m \in Minutes : MinuteOK(Counted(s, k, m), rate[<<s, k, m>>], key[k].rate)'
                     /\ \A m \in Months :
                          /\ MonthOK(InTheMonth(s, k, m), Early(s, k, m), quota[<<s, k, m>>], key[k].quota)'
                          /\ NotOver(m)' => Cardinality(Early(s, k, m))' <= quota'[<<s, k, m>>]
    BY DEF StoreOK
<1>1. /\ \A m : Counted(s, k, m)' = Counted(s, k, m)
      /\ \A m : InTheMonth(s, k, m)' = InTheMonth(s, k, m)
    BY DEF Ignores, Counted, InTheMonth
<1>2. \A m : Early(s, k, m)' = Early(s, k, m)
    BY <1>1 DEF Early
<1>3. /\ \A m \in Minutes : rate'[<<s, k, m>>] = rate[<<s, k, m>>]
      /\ \A m \in Months : quota'[<<s, k, m>>] = quota[<<s, k, m>>]
    BY DEF Ignores
<1>4. \A m : NotOver(m)' <=> NotOver(m)
    BY DEF NotOver
<1>5. CASE key[k].live
    <2>1. key'[k].rate = key[k].rate /\ key'[k].quota = key[k].quota
        BY <1>5
    <2>2. \A m \in Minutes : MinuteOK(Counted(s, k, m), rate[<<s, k, m>>], key[k].rate)'
        BY <1>1, <1>3, <2>1 DEF StoreOK, MinuteOK, Admitted
    <2>3. \A m \in Months :
             MonthOK(InTheMonth(s, k, m), Early(s, k, m), quota[<<s, k, m>>], key[k].quota)'
        BY <1>1, <1>2, <1>3, <2>1 DEF StoreOK, MonthOK, Admitted
    <2>4. \A m \in Months : NotOver(m)' => Cardinality(Early(s, k, m))' <= quota'[<<s, k, m>>]
        BY <1>2, <1>3, <1>4 DEF StoreOK
    <2>. QED
        BY <2>2, <2>3, <2>4
<1>6. CASE ~key[k].live
    <2>1. /\ \A m : Counted(s, k, m) = {}
          /\ \A m : InTheMonth(s, k, m) = {}
        BY <1>6 DEF JudgedInv, Counted, InTheMonth
    <2>2. \A m : Early(s, k, m) = {}
        BY <2>1 DEF Early
    <2>3. key'[k].rate \in Nat /\ key'[k].quota \in Nat
        BY DEF TypeInv, TypeOK, ApiKey
    <2>4. \A m \in Minutes : rate[<<s, k, m>>] = 0
        BY <2>1, FS_EmptySet DEF StoreOK, MinuteOK
    <2>5. \A m \in Months : quota[<<s, k, m>>] = 0
        BY <2>1, FS_EmptySet, CounterTypes DEF StoreOK, MonthOK
    <2>6. \A m \in Minutes : MinuteOK(Counted(s, k, m), rate[<<s, k, m>>], key[k].rate)'
        BY <1>1, <1>3, <2>1, <2>3, <2>4, EmptyOK DEF MinuteOK, Admitted
    <2>7. \A m \in Months :
             MonthOK(InTheMonth(s, k, m), Early(s, k, m), quota[<<s, k, m>>], key[k].quota)'
        BY <1>1, <1>2, <1>3, <2>1, <2>2, <2>3, <2>5, EmptyOK DEF MonthOK, Admitted
    <2>8. \A m \in Months : NotOver(m)' => Cardinality(Early(s, k, m))' <= quota'[<<s, k, m>>]
        <3>1. /\ \A m \in Months : Early(s, k, m)' = {}
              /\ \A m \in Months : quota'[<<s, k, m>>] = 0
            BY <1>2, <1>3, <2>2, <2>5
        <3>2. Cardinality({}) <= 0
            BY FS_EmptySet
        <3>. QED
            BY <3>1, <3>2
    <2>. QED
        BY <2>6, <2>7, <2>8
<1>. QED
    BY <1>5, <1>6

LEMMA LimitInvInit == Init => LimitInv
<1>. SUFFICES ASSUME Init, NEW s \in Stores, NEW k \in Keys
              PROVE  /\ \A m \in Minutes : MinuteOK(Counted(s, k, m), rate[<<s, k, m>>], key[k].rate)
                     /\ \A m \in Months :
                          /\ MonthOK(InTheMonth(s, k, m), Early(s, k, m), quota[<<s, k, m>>], key[k].quota)
                          /\ NotOver(m) => Cardinality(Early(s, k, m)) <= quota[<<s, k, m>>]
    BY DEF LimitInv, StoreOK
<1>1. \A m : Counted(s, k, m) = {} /\ InTheMonth(s, k, m) = {} /\ Early(s, k, m) = {}
    BY DEF Init, Counted, InTheMonth, Early
<1>2. key[k].rate \in Nat /\ key[k].quota \in Nat
    BY TypeInvInit DEF TypeInv, TypeOK, ApiKey
<1>3. /\ \A m \in Minutes : rate[<<s, k, m>>] = 0
      /\ \A m \in Months : quota[<<s, k, m>>] = 0
    BY DEF Init
<1>4. Cardinality({}) <= 0
    BY FS_EmptySet
<1>. QED
    BY <1>1, <1>2, <1>3, <1>4, EmptyOK

\* Redis executes the transaction.
LEMMA RedisCounts ==
    ASSUME TypeInv, NEW a \in Attempts, Incremented(a), NEW v, v.store = Redis,
           seen' = seen \cup {v}
    PROVE  Counts(Redis, a, v) /\ \A s \in Processes : Ignores(s)
<1>1. /\ rate \in [Stores \X Keys \X Minutes -> Nat] /\ quota \in [Stores \X Keys \X Months -> Nat]
      /\ request[a].now \in Ticks /\ KeyOf(a) \in Keys /\ Redis \in Stores
      /\ \A s \in Processes : s \in Stores /\ s # Redis
    BY AttemptType, RedisIsNoProcess DEF TypeInv, TypeOK, Request, Stores
<1>2. /\ \A s \in Stores, k \in Keys, m \in Minutes :
            rate'[<<s, k, m>>] = IF s = Redis /\ k = KeyOf(a) /\ m = Minute(request[a].now)
                                 THEN rate[<<s, k, m>>] + 1 ELSE rate[<<s, k, m>>]
      /\ \A s \in Stores, k \in Keys, m \in Months :
            quota'[<<s, k, m>>] = IF s = Redis /\ k = KeyOf(a) /\ m = Month(request[a].now)
                                  THEN IF LastSecond(request[a].now) THEN 0 ELSE quota[<<s, k, m>>] + 1
                                  ELSE quota[<<s, k, m>>]
    BY <1>1, TickType DEF Incremented, InRate, InQuota
<1>3. Counts(Redis, a, v)
    BY <1>1, <1>2 DEF Counts
<1>4. \A s \in Processes : Ignores(s)
    BY <1>1, <1>2 DEF Ignores
<1>. QED
    BY <1>3, <1>4

LEMMA LimitInvEnforce ==
    ASSUME TypeInv, TypeInv', JudgedInv, LimitInv, NEW a \in Attempts,
           Enforce(a) \/ EnforceFallback(a) \/ EnforceUnavailable(a)
    PROVE  LimitInv'
<1>0. /\ request[a].pc = "limit" /\ UNCHANGED <<key, clock>> /\ RequestOK(request[a])
      /\ Redis \in Stores /\ \A s \in Stores : s = Redis \/ s \in Processes
    BY DEF Enforce, EnforceFallback, EnforceUnavailable, TypeInv, Stores
\* Each store either counts the attempt, with a verdict its counters justify, or does not.
<1>1. ASSUME NEW s \in Stores, Ignores(s)
      PROVE  StoreOK(s)'
    BY <1>0, <1>1, StoreKept DEF LimitInv
<1>2. ASSUME NEW s \in Stores, NEW reason, Just(s, a, reason), Counts(s, a, Judged(s, a, reason))
      PROVE  StoreOK(s)'
    <2>. DEFINE v == Judged(s, a, reason)
    <2>1. Counts(s, a, v) /\ v = Judged(s, a, reason)
        BY <1>2
    <2>. HIDE DEF v
    <2>. QED
        BY <1>0, <1>2, <2>1, StoreCounts DEF LimitInv
<1>3. ASSUME NEW reason, Just(Redis, a, reason), Incremented(a),
             seen' = seen \cup {Judged(Redis, a, reason)}
      PROVE  LimitInv'
    <2>1. Judged(Redis, a, reason).store = Redis
        BY DEF Judged
    <2>2. Counts(Redis, a, Judged(Redis, a, reason)) /\ \A s \in Processes : Ignores(s)
        BY <1>3, <2>1, RedisCounts
    <2>. QED
        BY <1>0, <1>1, <1>2, <1>3, <2>2 DEF LimitInv, Stores
<1>4. CASE Enforce(a)
    BY <1>0, <1>3, <1>4, ReasonIsJust DEF Enforce
<1>5. CASE EnforceFallback(a)
    <2>0. PICK p : p = request[a].process
        OBVIOUS
    <2>. DEFINE v == Judged(p, a, Reason(p, a))  u == Judged(Redis, a, "unknown")
    <2>1. PICK done \in BOOLEAN :
             /\ rate' = [i \in DOMAIN rate |->
                           IF i = InRate(p, a) \/ (done /\ i = InRate(Redis, a))
                           THEN rate[i] + 1 ELSE rate[i]]
             /\ quota' = [i \in DOMAIN quota |->
                            IF done /\ i = InQuota(Redis, a) /\ LastSecond(request[a].now) THEN 0
                            ELSE IF i = InQuota(p, a) \/ (done /\ i = InQuota(Redis, a))
                            THEN quota[i] + 1 ELSE quota[i]]
             /\ seen' = seen \cup {v} \cup Unheard(a, done)
        BY <1>5, <2>0 DEF EnforceFallback
    <2>2. /\ p \in Processes /\ p \in Stores /\ p # Redis /\ v.store = p /\ u.store = Redis
          /\ Unheard(a, done) = IF done THEN {u} ELSE {}
        BY <1>0, <2>0, RedisIsNoProcess DEF RequestOK, Busy, Stores, Judged, Unheard
    <2>3. /\ DOMAIN rate = Stores \X Keys \X Minutes /\ DOMAIN quota = Stores \X Keys \X Months
          /\ KeyOf(a) \in Keys
        BY AttemptType DEF TypeInv, TypeOK
    <2>4. \A s \in Stores, k \in Keys, m \in Minutes :
             rate'[<<s, k, m>>] =
                IF (s = p \/ (done /\ s = Redis)) /\ k = KeyOf(a) /\ m = Minute(request[a].now)
                THEN rate[<<s, k, m>>] + 1 ELSE rate[<<s, k, m>>]
        BY <2>1, <2>3 DEF InRate
    <2>5. \A s \in Stores, k \in Keys, m \in Months :
             quota'[<<s, k, m>>] =
                IF (s = p \/ (done /\ s = Redis)) /\ k = KeyOf(a) /\ m = Month(request[a].now)
                THEN IF s = Redis /\ LastSecond(request[a].now) THEN 0 ELSE quota[<<s, k, m>>] + 1
                ELSE quota[<<s, k, m>>]
        BY <2>1, <2>2, <2>3 DEF InQuota
    <2>. HIDE DEF v, u
    <2>6. Counts(p, a, v)
        BY <2>1, <2>2, <2>4, <2>5 DEF Counts
    <2>7. done => Counts(Redis, a, u)
        BY <1>0, <2>1, <2>2, <2>4, <2>5 DEF Counts
    <2>8. ~done => Ignores(Redis)
        BY <1>0, <2>1, <2>2, <2>4, <2>5 DEF Ignores
    <2>9. \A s \in Processes \ {p} : Ignores(s)
        BY <2>1, <2>2, <2>4, <2>5, RedisIsNoProcess DEF Ignores, Stores
    <2>10. StoreOK(p)'
        <3>1. Just(p, a, Reason(p, a))
            BY <2>2, ReasonIsJust
        <3>2. Counts(p, a, Judged(p, a, Reason(p, a)))
            BY <2>6 DEF v
        <3>. QED
            BY <1>2, <2>2, <3>1, <3>2
    <2>11. StoreOK(Redis)'
        BY <1>0, <1>1, <1>2, <2>7, <2>8, ReasonIsJust DEF u
    <2>12. \A s \in Processes \ {p} : StoreOK(s)'
        BY <1>1, <2>9 DEF Stores
    <2>13. \A s \in Stores : StoreOK(s)'
        BY <1>0, <2>10, <2>11, <2>12
    <2>. QED
        BY <2>13 DEF LimitInv, Stores
<1>6. CASE EnforceUnavailable(a)
    <2>1. CASE Incremented(a) /\ seen' = seen \cup Unheard(a, TRUE)
        BY <1>0, <1>3, <2>1, ReasonIsJust DEF Unheard
    <2>2. CASE UNCHANGED <<rate, quota, seen>>
        BY <1>1, <2>2 DEF Ignores, LimitInv, Stores
    <2>. QED
        BY <1>6, <2>1, <2>2 DEF EnforceUnavailable
<1>. QED
    BY <1>4, <1>5, <1>6

\* A month that begins has no requests before its last second yet, and one that goes on keeps
\* its counter.
LEMMA LimitInvTime ==
    ASSUME TypeInv, JudgedInv, LimitInv, NEW t \in Ticks, TimePasses(t)
    PROVE  LimitInv'
<1>. SUFFICES ASSUME NEW s \in Stores, NEW k \in Keys
              PROVE  /\ \A m \in Minutes : MinuteOK(Counted(s, k, m), rate[<<s, k, m>>], key[k].rate)'
                     /\ \A m \in Months :
                          /\ MonthOK(InTheMonth(s, k, m), Early(s, k, m), quota[<<s, k, m>>], key[k].quota)'
                          /\ NotOver(m)' => Cardinality(Early(s, k, m))' <= quota'[<<s, k, m>>]
    BY DEF LimitInv, StoreOK
<1>1. /\ UNCHANGED <<key, rate, seen>> /\ clock' = t /\ clock \in Ticks /\ clock <= t
    BY TickType DEF TimePasses, TypeInv, TypeOK
<1>2. PICK ks \in SUBSET Keys :
         quota' = [i \in DOMAIN quota |->
                      IF /\ i[1] = Redis
                         /\ i[3] < Month(t) \/ (i[3] = Month(t) /\ LastSecond(t) /\ i[2] \in ks)
                      THEN 0 ELSE quota[i]]
    BY DEF TimePasses
<1>3. \A m \in Months :
         quota'[<<s, k, m>>] = IF /\ s = Redis
                                  /\ m < Month(t) \/ (m = Month(t) /\ LastSecond(t) /\ k \in ks)
                               THEN 0 ELSE quota[<<s, k, m>>]
    BY <1>2 DEF TypeInv, TypeOK
<1>4. \A m : /\ Counted(s, k, m)' = Counted(s, k, m)
             /\ InTheMonth(s, k, m)' = InTheMonth(s, k, m)
             /\ Early(s, k, m)' = Early(s, k, m)
    BY <1>1 DEF Counted, InTheMonth, Early
<1>5. \A m \in Minutes : MinuteOK(Counted(s, k, m), rate[<<s, k, m>>], key[k].rate)'
    BY <1>1, <1>4 DEF LimitInv, StoreOK, MinuteOK, Admitted
<1>6. ASSUME NEW m \in Months
      PROVE  MonthOK(InTheMonth(s, k, m), Early(s, k, m), quota[<<s, k, m>>], key[k].quota)'
    <2>1. quota[<<s, k, m>>] \in Nat /\ quota'[<<s, k, m>>] \in {0, quota[<<s, k, m>>]}
        BY <1>3, CounterTypes
    <2>2. Cardinality(InTheMonth(s, k, m)) \in Nat
        BY CounterTypes, FS_CardinalityType
    <2>. QED
        BY <1>1, <1>4, <2>1, <2>2 DEF LimitInv, StoreOK, MonthOK, Admitted
<1>7. ASSUME NEW m \in Months, NotOver(m)'
      PROVE  Cardinality(Early(s, k, m))' <= quota'[<<s, k, m>>]
    <2>1. Month(t) = m /\ ~LastSecond(t)
        BY <1>1, <1>7 DEF NotOver
    <2>2. Month(t) \in Nat /\ quota'[<<s, k, m>>] = quota[<<s, k, m>>]
        BY <1>1, <1>3, <2>1, MonthOrder
    <2>3. CASE Month(clock) = m
        <3>1. NotOver(m)
            BY <1>1, <2>1, <2>3, MonthOrder DEF NotOver
        <3>. QED
            BY <1>4, <2>2, <3>1 DEF LimitInv, StoreOK
    <2>4. CASE Month(clock) # m
        <3>1. Month(clock) \in Nat /\ Month(clock) <= m /\ m \in Nat
            BY <1>1, <2>1, MonthOrder
        <3>2. \A w \in seen : w.at \in Ticks /\ w.at <= clock
            BY DEF TypeInv, TypeOK, Verdict, JudgedInv
        <3>3. \A w \in seen : Month(w.at) # m
            BY <1>1, <2>4, <3>1, <3>2, MonthOrder
        <3>4. Early(s, k, m) = {}
            BY <3>3 DEF Early, InTheMonth
        <3>5. quota[<<s, k, m>>] \in Nat /\ Cardinality({}) = 0
            BY CounterTypes, FS_EmptySet
        <3>. QED
            BY <1>4, <2>2, <3>4, <3>5
    <2>. QED
        BY <2>3, <2>4
<1>. QED
    BY <1>5, <1>6, <1>7

LEMMA LimitInvRestart ==
    ASSUME TypeInv, TypeInv', JudgedInv, LimitInv, NEW p \in Processes, Restart(p)
    PROVE  LimitInv'
<1>1. /\ UNCHANGED clock /\ p \in Stores
      /\ seen' = {w \in seen : w.store # p}
      /\ \A i \in Stores \X Keys \X Minutes : rate'[i] = IF i[1] = p THEN 0 ELSE rate[i]
      /\ \A i \in Stores \X Keys \X Months : quota'[i] = IF i[1] = p THEN 0 ELSE quota[i]
    BY DEF Restart, TypeInv, TypeOK, Stores
<1>2. ASSUME NEW s \in Stores, s # p
      PROVE  StoreOK(s)'
    <2>1. Ignores(s)
        BY <1>1, <1>2 DEF Ignores
    <2>2. \A k \in Keys : key[k].live => key'[k].rate = key[k].rate /\ key'[k].quota = key[k].quota
        BY DEF Restart, TypeInv, TypeOK, ApiKey
    <2>. QED
        BY <1>1, <2>1, <2>2, StoreKept DEF LimitInv
<1>3. StoreOK(p)'
    <2>1. \A k, m : Counted(p, k, m)' = {} /\ InTheMonth(p, k, m)' = {} /\ Early(p, k, m)' = {}
        BY <1>1 DEF Counted, InTheMonth, Early
    <2>2. \A k \in Keys : key'[k].rate \in Nat /\ key'[k].quota \in Nat
        BY DEF TypeInv, TypeOK, ApiKey
    <2>3. /\ \A k \in Keys, m \in Minutes : rate'[<<p, k, m>>] = 0
          /\ \A k \in Keys, m \in Months : quota'[<<p, k, m>>] = 0
        BY <1>1
    <2>4. Cardinality({}) <= 0
        BY FS_EmptySet
    <2>5. \A k \in Keys, m \in Minutes : MinuteOK(Counted(p, k, m), rate[<<p, k, m>>], key[k].rate)'
        BY <2>1, <2>2, <2>3, EmptyOK DEF MinuteOK, Admitted
    <2>6. \A k \in Keys, m \in Months :
             MonthOK(InTheMonth(p, k, m), Early(p, k, m), quota[<<p, k, m>>], key[k].quota)'
        BY <2>1, <2>2, <2>3, EmptyOK DEF MonthOK, Admitted
    <2>7. \A k \in Keys, m \in Months : NotOver(m)' => Cardinality(Early(p, k, m))' <= quota'[<<p, k, m>>]
        BY <2>1, <2>3, <2>4
    <2>. QED
        BY <2>5, <2>6, <2>7 DEF StoreOK
<1>. QED
    BY <1>2, <1>3 DEF LimitInv

LEMMA LimitInvAlways == Spec => []LimitInv
<1>1. TypeInv /\ TypeInv' /\ JudgedInv /\ LimitInv /\ [Next]_vars => LimitInv'
    <2>. SUFFICES ASSUME TypeInv, TypeInv', JudgedInv, LimitInv, [Next]_vars PROVE LimitInv'
        OBVIOUS
    \* Steps that touch neither the counters nor the verdicts, nor the limits of a key in use.
    <2>1. ASSUME UNCHANGED <<rate, quota, clock, seen>>,
                 \A k \in Keys : key[k].live => /\ key'[k].rate = key[k].rate
                                                /\ key'[k].quota = key[k].quota
          PROVE  LimitInv'
        <3>1. \A s \in Stores : Ignores(s)
            BY <2>1 DEF Ignores
        <3>. QED
            BY <2>1, <3>1, StoreKept DEF LimitInv
    <2>2. CASE \E c \in Calls : Send(c) \/ Unsent(c) \/ Raise(c)
        BY <2>1, <2>2 DEF Send, Unsent, Raise
    <2>3. CASE \E a \in Attempts : Enforce(a) \/ EnforceFallback(a) \/ EnforceUnavailable(a)
        BY <2>3, LimitInvEnforce
    <2>4. CASE \E a \in Attempts : Find(a) \/ Insert(a) \/ Begin(a) \/ Fails(a)
        BY <2>1, <2>4 DEF Find, Insert, Begin, Fails
    <2>5. CASE \E k \in Keys : DeactivateKey(k) \/ \E p \in Payloads : CreateKey(k, p)
        BY <2>1, <2>5 DEF DeactivateKey, CreateKey, TypeInv, TypeOK, ApiKey
    <2>6. CASE \E t \in Ticks : TimePasses(t)
        BY <2>6, LimitInvTime
    <2>7. CASE \E p \in Processes : Restart(p)
        BY <2>7, LimitInvRestart
    <2>8. CASE UNCHANGED vars
        BY <2>1, <2>8 DEF vars
    <2>. QED
        BY <2>2, <2>3, <2>4, <2>5, <2>6, <2>7, <2>8, StepsOfNext
<1>. QED
    BY <1>1, TypeInvAlways, JudgedInvAlways, LimitInvInit, PTL DEF Spec

\* However the requests of a key overlap in the processes of the API server, and whether or
\* not Redis answers them, enforce_limits admits no more of them than rate_limit_per_min
\* and, up to the last second of a month, monthly_quota, and refuses none before.
THEOREM LimitsAlwaysHold == Spec => []LimitsHold
<1>1. TypeInv /\ LimitInv => LimitsHold
    <2>. SUFFICES ASSUME TypeInv, LimitInv, NEW v \in seen
                  PROVE  /\ Cardinality(Admitted(OfMinute(v))) <= key[v.key].rate
                         /\ Cardinality(Admitted(BeforeTheEnd(v))) <= key[v.key].quota
                         /\ v.reason = "rate" => Cardinality(OfMinute(v)) > key[v.key].rate
                         /\ v.reason = "quota" => Cardinality(OfMonth(v)) > key[v.key].quota
        BY DEF LimitsHold
    <2>. DEFINE s == v.store  k == v.key  i == Minute(v.now)  m == Month(v.now)
    <2>1. s \in Stores /\ k \in Keys /\ i \in Minutes /\ m \in Months
        BY TickType DEF TypeInv, TypeOK, Verdict
    <2>2. OfMinute(v) = Counted(s, k, i) /\ v \in Counted(s, k, i)
        BY DEF OfMinute, Counted
    <2>3. OfMonth(v) = InTheMonth(s, k, m) /\ v \in InTheMonth(s, k, m)
        BY DEF OfMonth, InTheMonth
    <2>4. BeforeTheEnd(v) = Early(s, k, m)
        BY <2>3 DEF BeforeTheEnd, InMonth, Early
    <2>. HIDE DEF s, i, m
    <2>5. /\ MinuteOK(Counted(s, k, i), rate[<<s, k, i>>], key[k].rate)
          /\ MonthOK(InTheMonth(s, k, m), Early(s, k, m), quota[<<s, k, m>>], key[k].quota)
        BY <2>1 DEF LimitInv, StoreOK
    <2>. QED
        BY <2>2, <2>3, <2>4, <2>5 DEF MinuteOK, MonthOK
<1>. QED
    BY <1>1, TypeInvAlways, LimitInvAlways, PTL
=============================================================================
