---------------------------- MODULE PublicAccess ----------------------------
(***************************************************************************)
(* Submitting through the public API: the SDK that repeats a request, the  *)
(* API key it carries, the limits the key is held to, and the rows it      *)
(* makes.                                                                  *)
(*                                                                         *)
(* A call is one use of the SDK.  It makes one or more attempts, each an   *)
(* HTTP request that some process of the API server handles in steps.  The *)
(* client may stop waiting for an attempt (timeout, broken connection)     *)
(* and send the next while the first is still being handled.               *)
(*                                                                         *)
(* Time is a sequence of ticks.  A month has MinutesPerMonth minutes of    *)
(* one tick each, and its last minute a second tick for its last second,   *)
(* where int() makes the time left until the next month zero.              *)
(*                                                                         *)
(* What becomes of a row once it is made is in JobLifecycle and            *)
(* ProviderBatch.                                                          *)
(***************************************************************************)
EXTENDS Naturals, FiniteSets

CONSTANTS
    Keys, LocalKey, NoKey,  \* API keys; the one of local_bootstrap_api_key; none
    Endpoints, Ready,       \* endpoints of the tenant; those with an active version
    Rows, NoRow,            \* identifiers of jobs and batch runs, used once; none
    NoIdem,                 \* no Idempotency-Key header
    Calls, Crowds,          \* uses of the SDK; the sets of them a behaviour may make
    Processes, Redis,       \* processes of the API server; the shared counters
    Modes,                  \* values of fallback in this instance
    MaxRetries,             \* max_request_retries
    Payloads,               \* what the keys of this instance are created with
    MinutesPerMonth,        \* bound: minutes of a month
    MaxTick,                \* bound: ticks of a behaviour
    Faults, MaxEvents       \* faults of this instance; bound: faults, deactivations, delays

ASSUME PayloadsAssumption ==
    Payloads \subseteq [scopes: SUBSET Endpoints, rate: Nat, quota: Nat]
ASSUME LocalKeyIsAKey ==
    /\ LocalKey \in Keys \cup {NoKey} /\ NoKey \notin Keys
    /\ LocalKey \in Keys => \E p \in Payloads : p.scopes = Endpoints
ASSUME CallsAssumption ==
    /\ \A c \in Calls : c.key \in Keys /\ c.endpoint \in Endpoints
    /\ {} \notin {Calls, Keys, Endpoints} /\ NoRow \notin Rows
ASSUME RedisIsNoProcess == Redis \notin Processes
ASSUME TimeAssumption == MinutesPerMonth \in Nat \ {0} /\ MaxTick \in Nat
ASSUME BoundsAssumption == MaxRetries \in Nat /\ MaxEvents \in Nat

VARIABLES
    fallback, \* nonproduction, with rate_limit_allow_in_memory_fallback_nonprod: never changes
    key,      \* api_keys
    rate,     \* ratelimit:* counters of Redis and of each process
    quota,    \* quota:* counters of the same
    row,      \* jobs and provider_batch_runs
    request,  \* what the server is doing with each attempt
    client,   \* what the SDK is doing with each call
    clock,    \* the tick (bounded by MaxTick)
    seen,     \* history: attempts the limits were applied to, and the verdicts
    events    \* faults, deactivations, delays so far (bounded by MaxEvents)

vars == <<fallback, key, rate, quota, row, request, client, clock, seen, events>>

-----------------------------------------------------------------------------
(* Time.                                                                   *)

Ticks == 0 .. MaxTick
PerMonth == MinutesPerMonth + 1
Month(t) == t \div PerMonth
LastSecond(t) == t % PerMonth = MinutesPerMonth
Minute(t) == Month(t) * MinutesPerMonth + (t % PerMonth) - (IF LastSecond(t) THEN 1 ELSE 0)
Minutes == {Minute(t) : t \in Ticks}
Months == {Month(t) : t \in Ticks}

-----------------------------------------------------------------------------
(* Rows, attempts and calls.                                               *)

Stores == Processes \cup {Redis}
Attempts == Calls \X (1 .. 1 + MaxRetries)

ApiKey == [live: BOOLEAN, active: BOOLEAN, scopes: SUBSET Endpoints, rate: Nat, quota: Nat]
Row == [live: BOOLEAN, call: Calls, key: Keys, endpoint: Endpoints, started: BOOLEAN]
Request == [pc: {"idle", "limit", "find", "insert", "start", "dead"},
            process: Stores, now: Ticks, row: Rows \cup {NoRow}]
Client == [pc: {"send", "wait", "done", "failed"}, attempts: 0 .. 1 + MaxRetries,
           row: Rows \cup {NoRow}]
Verdict == [attempt: Attempts, key: Keys, store: Stores, now: Ticks, at: Ticks,
            reason: {"admitted", "rate", "quota", "unknown"}]

TypeOK ==
    /\ fallback \in Modes
    /\ key \in [Keys -> ApiKey]
    /\ rate \in [Stores \X Keys \X Minutes -> Nat]
    /\ quota \in [Stores \X Keys \X Months -> Nat]
    /\ row \in [Rows -> Row]
    /\ request \in [Attempts -> Request]
    /\ client \in [Calls -> Client]
    /\ clock \in Ticks
    /\ seen \subseteq Verdict
    /\ events \in 0 .. MaxEvents

FreeKey == [live |-> FALSE, active |-> FALSE, scopes |-> {}, rate |-> 0, quota |-> 0]
NewKey(p) == [live |-> TRUE, active |-> TRUE, scopes |-> p.scopes, rate |-> p.rate,
              quota |-> p.quota]
Idle == [pc |-> "idle", process |-> Redis, now |-> 0, row |-> NoRow]
Dead == [Idle EXCEPT !.pc = "dead"]
FreeRow == [live |-> FALSE, call |-> CHOOSE c \in Calls : TRUE,
            key |-> CHOOSE k \in Keys : TRUE, endpoint |-> CHOOSE e \in Endpoints : TRUE,
            started |-> FALSE]

\* The key of local_bootstrap_api_key reaches every endpoint.
Local == CHOOSE p \in Payloads : p.scopes = Endpoints

Init ==
    /\ fallback \in Modes
    /\ key = [k \in Keys |-> IF k = LocalKey THEN NewKey(Local) ELSE FreeKey]
    /\ rate = [i \in Stores \X Keys \X Minutes |-> 0]
    /\ quota = [i \in Stores \X Keys \X Months |-> 0]
    /\ row = [r \in Rows |-> FreeRow]
    /\ request = [a \in Attempts |-> Idle]
    /\ \E crowd \in Crowds :
          client = [c \in Calls |-> [pc |-> IF c \in crowd THEN "send" ELSE "failed",
                                     attempts |-> 0, row |-> NoRow]]
    /\ clock = 0
    /\ seen = {}
    /\ events = 0

Event == events < MaxEvents /\ events' = events + 1
Fault(f) == f \in Faults /\ Event

-----------------------------------------------------------------------------
(* The SDK.  submit_job and create_response may carry an idempotency key,  *)
(* submit_batch carries none.                                              *)

\* Mutant of CanRetry: every request is repeated.
CanRetryAlways(c) == TRUE

CanRetry(c) == c.idem # NoIdem

\* Mutant of Allowed: the first attempt is not counted among the retries.
AllowedOffByOne(c) == IF CanRetry(c) THEN 2 + MaxRetries ELSE 1

Allowed(c) == IF CanRetry(c) THEN 1 + MaxRetries ELSE 1
Retried == {408, 409, 429, 500, 502, 503, 504}

Last(c) == <<c, client[c].attempts>>

\* What the SDK does after an attempt that raised, or was answered.
After(c, n, status, r) ==
    [pc |-> IF status = 200 THEN "done"
            ELSE IF status \in Retried /\ n < Allowed(c) THEN "send" ELSE "failed",
     attempts |-> n, row |-> r]
Raised(c, n) == [pc |-> IF n < Allowed(c) THEN "send" ELSE "failed", attempts |-> n, row |-> NoRow]

\* resolve_api_key finds the active key by its prefix and hash (and may stamp it with
\* last_used_at, which nothing reads); key_allows_endpoint follows.
Resolved(c) == IF key[c.key].live /\ key[c.key].active
               THEN IF c.endpoint \in key[c.key].scopes THEN 200 ELSE 403
               ELSE 401

\* The request of the next attempt reaches a process, which resolves its key and reads the
\* clock for the limits.
Send(c) ==
    LET n == client[c].attempts + 1
    IN  /\ client[c].pc = "send"
        /\ IF Resolved(c) = 200
           THEN /\ client' = [client EXCEPT ![c].pc = "wait", ![c].attempts = n]
                /\ \E p \in Processes :
                     request' = [request EXCEPT ![<<c, n>>] =
                                   [Idle EXCEPT !.pc = "limit", !.process = p, !.now = clock]]
           ELSE /\ client' = [client EXCEPT ![c] = After(c, n, Resolved(c), NoRow)]
                /\ request' = [request EXCEPT ![<<c, n>>] = Dead]
        /\ UNCHANGED <<fallback, key, rate, quota, row, clock, seen, events>>

\* httpx raises: the connection failed before the request arrived, or broke, or the timeout
\* passed.
Unsent(c) ==
    LET n == client[c].attempts + 1
    IN  /\ client[c].pc = "send"
        /\ Fault("network")
        /\ client' = [client EXCEPT ![c] = Raised(c, n)]
        /\ request' = [request EXCEPT ![<<c, n>>] = Dead]
        /\ UNCHANGED <<fallback, key, rate, quota, row, clock, seen>>

Raise(c) ==
    /\ client[c].pc = "wait"
    /\ IF request[Last(c)].pc = "dead" THEN UNCHANGED events ELSE Fault("network")
    /\ client' = [client EXCEPT ![c] = Raised(c, client[c].attempts)]
    /\ UNCHANGED <<fallback, key, rate, quota, row, request, clock, seen>>

-----------------------------------------------------------------------------
(* Handling an attempt.  Nobody hears the answer of one that the client no *)
(* longer waits for.                                                       *)

KeyOf(a) == a[1].key
EndpointOf(a) == a[1].endpoint

Goto(a, pc, r) ==
    /\ request' = [request EXCEPT ![a].pc = pc, ![a].row = r]
    /\ UNCHANGED client

Answer(a, status, r) ==
    /\ request' = [request EXCEPT ![a] = Dead]
    /\ client' = IF client[a[1]].pc = "wait" /\ Last(a[1]) = a
                 THEN [client EXCEPT ![a[1]] = After(a[1], a[2], status, r)]
                 ELSE client

\* Both counters after one more request in store s, which saw the time now.
InRate(s, a) == <<s, KeyOf(a), Minute(request[a].now)>>
InQuota(s, a) == <<s, KeyOf(a), Month(request[a].now)>>
RateCount(s, a) == rate[InRate(s, a)] + 1
QuotaCount(s, a) == quota[InQuota(s, a)] + 1

\* Mutant of Reason: the counts from before the increment are compared.
ReasonBefore(s, a) == IF rate[InRate(s, a)] > key[KeyOf(a)].rate THEN "rate"
                      ELSE IF quota[InQuota(s, a)] > key[KeyOf(a)].quota THEN "quota"
                      ELSE "admitted"

Reason(s, a) == IF RateCount(s, a) > key[KeyOf(a)].rate THEN "rate"
                ELSE IF QuotaCount(s, a) > key[KeyOf(a)].quota THEN "quota"
                ELSE "admitted"

Judged(s, a, reason) == [attempt |-> a, key |-> KeyOf(a), store |-> s, now |-> request[a].now,
                         at |-> clock, reason |-> reason]

\* The transaction on Redis: INCR both, and EXPIRE the quota when the month ends, which in
\* its last second is now.
Incremented(a) ==
    /\ rate' = [rate EXCEPT ![InRate(Redis, a)] = @ + 1]
    /\ quota' = [quota EXCEPT ![InQuota(Redis, a)] =
                   IF LastSecond(request[a].now) THEN 0 ELSE @ + 1]

\* An admitted attempt goes on, another is refused.
Decide(a, reason) ==
    IF reason = "admitted" THEN Goto(a, "find", NoRow) ELSE Answer(a, 429, NoRow)

Enforce(a) ==
    /\ request[a].pc = "limit"
    /\ Incremented(a)
    /\ Decide(a, Reason(Redis, a))
    /\ seen' = seen \cup {Judged(Redis, a, Reason(Redis, a))}
    /\ UNCHANGED <<fallback, key, row, clock, events>>

\* What Redis did with a transaction whose reply never came.
Unheard(a, done) == IF done THEN {Judged(Redis, a, "unknown")} ELSE {}

\* Redis does not answer, before or after it executed: the process counts for itself, in
\* nonproduction, or the attempt is refused.
EnforceFallback(a) ==
    LET p == request[a].process
    IN  /\ Fault("redis")
        /\ fallback
        /\ request[a].pc = "limit"
        /\ \E done \in BOOLEAN :
             /\ rate' = [i \in DOMAIN rate |->
                           IF i = InRate(p, a) \/ (done /\ i = InRate(Redis, a))
                           THEN rate[i] + 1 ELSE rate[i]]
             /\ quota' = [i \in DOMAIN quota |->
                            IF done /\ i = InQuota(Redis, a) /\ LastSecond(request[a].now) THEN 0
                            ELSE IF i = InQuota(p, a) \/ (done /\ i = InQuota(Redis, a))
                            THEN quota[i] + 1 ELSE quota[i]]
             /\ seen' = seen \cup {Judged(p, a, Reason(p, a))} \cup Unheard(a, done)
        /\ Decide(a, Reason(p, a))
        /\ UNCHANGED <<fallback, key, row, clock>>

EnforceUnavailable(a) ==
    /\ Fault("redis")
    /\ ~fallback
    /\ request[a].pc = "limit"
    /\ Answer(a, 429, NoRow)
    /\ \/ Incremented(a) /\ seen' = seen \cup Unheard(a, TRUE)
       \/ UNCHANGED <<rate, quota, seen>>
    /\ UNCHANGED <<fallback, key, row, clock>>

\* Rows made under the same key, for the same endpoint, with the same Idempotency-Key.
Existing(a) ==
    {r \in Rows : /\ row[r].live /\ a[1].idem # NoIdem
                  /\ row[r].call.idem = a[1].idem
                  /\ row[r].key = KeyOf(a) /\ row[r].endpoint = EndpointOf(a)}

\* submit_job and submit_batch start a row by publishing it, submit_response by running it:
\* also one it finds queued.
Find(a) ==
    /\ request[a].pc = "find"
    /\ IF EndpointOf(a) \notin Ready
       THEN \E status \in {400, 404} : Answer(a, status, NoRow)
       ELSE IF Existing(a) = {} THEN Goto(a, "insert", NoRow)
       ELSE \E r \in Existing(a) :
              \/ Answer(a, 200, r)
              \/ a[1].op = "response" /\ ~row[r].started /\ Goto(a, "start", r)
    /\ UNCHANGED <<fallback, key, rate, quota, row, clock, seen, events>>

NewRow(a) == [live |-> TRUE, call |-> a[1], key |-> KeyOf(a), endpoint |-> EndpointOf(a),
              started |-> FALSE]

\* The unique index over key, endpoint and Idempotency-Key refuses a second row: the handler
\* then takes the one that is there, and submit_response runs it.  (Bound: identifiers left.)
Insert(a) ==
    /\ request[a].pc = "insert"
    /\ IF Existing(a) = {}
       THEN LET r == CHOOSE r \in Rows : ~row[r].live
            IN  /\ \E q \in Rows : ~row[q].live
                /\ row' = [row EXCEPT ![r] = NewRow(a)]
                /\ Goto(a, "start", r)
       ELSE /\ \E r \in Existing(a) :
                 IF a[1].op = "response"
                 THEN Goto(a, "start", r)
                 ELSE Answer(a, 200, r)
            /\ UNCHANGED row
    /\ UNCHANGED <<fallback, key, rate, quota, clock, seen, events>>

Begin(a) ==
    /\ request[a].pc = "start"
    /\ \/ row' = [row EXCEPT ![request[a].row].started = TRUE]
          /\ Answer(a, 200, request[a].row)
          /\ UNCHANGED events
       \/ /\ Fault(IF a[1].op = "response" THEN "database" ELSE "redis")
          /\ UNCHANGED row /\ Answer(a, 500, NoRow)
    /\ UNCHANGED <<fallback, key, rate, quota, clock, seen>>

\* A statement fails: get_db rolls back and the answer is a server error.
Fails(a) ==
    /\ Fault("database")
    /\ request[a].pc = "find"
    /\ Answer(a, 500, NoRow)
    /\ UNCHANGED <<fallback, key, rate, quota, row, clock, seen>>

-----------------------------------------------------------------------------
(* Keys.                                                                   *)

CreateKey(k, p) ==
    /\ ~key[k].live
    /\ k # LocalKey
    /\ key' = [key EXCEPT ![k] = NewKey(p)]
    /\ UNCHANGED <<fallback, rate, quota, row, request, client, clock, seen, events>>

DeactivateKey(k) ==
    /\ key[k].live /\ key[k].active
    /\ Event
    /\ key' = [key EXCEPT ![k].active = FALSE]
    /\ UNCHANGED <<fallback, rate, quota, row, request, client, clock, seen>>

\* The API asks for a role that the pages do not.
ApiCreateKey(k, p, role) == role \in {"owner", "admin", "dev"} /\ CreateKey(k, p)
WebCreateKey(k, p) == CreateKey(k, p)
ApiDeactivateKey(k, role) == role \in {"owner", "admin"} /\ DeactivateKey(k)
WebDeactivateKey(k) == DeactivateKey(k)

-----------------------------------------------------------------------------
(* Time and restarts.                                                      *)

\* Redis drops the quota counters of a month between the start of its last second and its
\* end: some are gone when the last second is reached, all when the month is over.  (It drops
\* a rate counter 120 seconds after its last use, which is left out: see README.)
TimePasses(t) ==
    /\ t > clock
    /\ Event
    /\ clock' = t
    /\ \E ks \in SUBSET Keys :
          quota' = [i \in DOMAIN quota |->
                      IF /\ i[1] = Redis
                         /\ i[3] < Month(t) \/ (i[3] = Month(t) /\ LastSecond(t) /\ i[2] \in ks)
                      THEN 0 ELSE quota[i]]
    /\ UNCHANGED <<fallback, key, rate, row, request, client, seen>>

\* A process dies with its requests and its counters, and starts again; start-up makes the
\* local key, or makes it active again.
Restart(p) ==
    /\ Fault("restart")
    /\ request' = [a \in Attempts |->
                     IF request[a].process = p /\ request[a].pc # "idle"
                     THEN Dead ELSE request[a]]
    /\ rate' = [i \in DOMAIN rate |-> IF i[1] = p THEN 0 ELSE rate[i]]
    /\ quota' = [i \in DOMAIN quota |-> IF i[1] = p THEN 0 ELSE quota[i]]
    /\ key' = [k \in Keys |->
                 IF k # LocalKey THEN key[k]
                 ELSE IF key[k].live THEN [key[k] EXCEPT !.active = TRUE]
                 ELSE NewKey(Local)]
    /\ seen' = {s \in seen : s.store # p}
    /\ UNCHANGED <<fallback, row, client, clock>>

-----------------------------------------------------------------------------

Roles == {"owner", "admin", "dev", "viewer"}

Sdk == \E c \in Calls : Send(c) \/ Unsent(c) \/ Raise(c)

Handle ==
    \E a \in Attempts :
        \/ Enforce(a) \/ EnforceFallback(a) \/ EnforceUnavailable(a)
        \/ Find(a) \/ Insert(a) \/ Begin(a) \/ Fails(a)

Administer ==
    \E k \in Keys :
        \/ \E p \in Payloads : WebCreateKey(k, p) \/ \E role \in Roles : ApiCreateKey(k, p, role)
        \/ WebDeactivateKey(k)
        \/ \E role \in Roles : ApiDeactivateKey(k, role)

Next == Sdk \/ Handle \/ Administer \/ (\E t \in Ticks : TimePasses(t)) \/ \E p \in Processes : Restart(p)

Spec == Init /\ [][Next]_vars

-----------------------------------------------------------------------------
(* Properties.                                                             *)

\* Requests that the same counter counted in the minute or the month of v.
OfMinute(v) == {w \in seen : w.store = v.store /\ w.key = v.key /\ Minute(w.now) = Minute(v.now)}
OfMonth(v) == {w \in seen : w.store = v.store /\ w.key = v.key /\ Month(w.now) = Month(v.now)}
Admitted(vs) == {w \in vs : w.reason = "admitted"}

\* In that month, and before the counter may have been dropped.
InMonth(v) == {w \in OfMonth(v) : Month(w.at) = Month(v.now)}
BeforeTheEnd(v) == {w \in InMonth(v) : ~LastSecond(w.at)}

\* Requests of a key that overlap in several processes are admitted at most rate times in a
\* minute and, up to its last second, quota times in a month, by Redis and by each process
\* that counts for itself; and what is refused for a limit was preceded by that many
\* requests in the minute or month, refused ones included.
LimitsHold ==
    \A v \in seen :
        /\ Cardinality(Admitted(OfMinute(v))) <= key[v.key].rate
        /\ Cardinality(Admitted(BeforeTheEnd(v))) <= key[v.key].quota
        /\ v.reason = "rate" => Cardinality(OfMinute(v)) > key[v.key].rate
        /\ v.reason = "quota" => Cardinality(OfMonth(v)) > key[v.key].quota

\* However often the SDK repeats a request, whatever attempts overlap and whichever answers
\* are lost: calls that share an API key, an endpoint and an Idempotency-Key make one row
\* between them, a call without one makes at most one, and an answer names the row that was
\* made for the call.
OneRowPerRequest ==
    /\ \A r, q \in Rows :
         row[r].live /\ row[q].live /\ r # q =>
            /\ row[r].call # row[q].call
            /\ row[r].call.idem = NoIdem \/ row[r].call.idem # row[q].call.idem
               \/ row[r].key # row[q].key \/ row[r].endpoint # row[q].endpoint
    /\ \A c \in Calls :
         client[c].pc = "done" =>
            LET r == row[client[c].row]
            IN  /\ r.live /\ r.key = c.key /\ r.endpoint = c.endpoint
                /\ r.call = c \/ (c.idem # NoIdem /\ r.call.idem = c.idem)

\* The pages show a key's limits as "N/min" and "N/month": no month admits more than N
\* requests of a key.
QuotaPerMonth ==
    \A v \in seen :
        v.store = Redis => Cardinality(Admitted(InMonth(v))) <= key[v.key].quota
=============================================================================
