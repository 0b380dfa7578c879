----------------------------- MODULE Connections -----------------------------
(***************************************************************************)
(* Provider connections (tenant_provider_configs), the secret files beside *)
(* them, the legacy per-tenant OpenAI key, and the resolution of the       *)
(* credentials of a call.                                                  *)
(*                                                                         *)
(* A save is several interactions: the handler's first read, the lookup or *)
(* the INSERT, the secret file, the commit of the changed columns, the     *)
(* refresh and the UPDATE that takes the default flag away from the other  *)
(* connections.  Files are not part of any transaction.  As in             *)
(* JobLifecycle, an object keeps the columns it was loaded with and a      *)
(* commit writes those that differ.  Names, descriptions, endpoints and    *)
(* extra_json are data no property reads; updated_at is abstracted to a    *)
(* free choice among the connections the ordering leaves equal.            *)
(***************************************************************************)
EXTENDS Naturals, FiniteSets

CONSTANTS
    Tenants,      \* tenants
    NoTenant,     \* no parent_tenant_id
    Parent,       \* Parent[t]: the parent of t, or NoTenant
    Inherits,     \* Inherits[t]: inherit_provider_configs
    MaxDepth,     \* tenant_hierarchy_max_depth
    Slugs,        \* provider slugs of the registry
    Legacy,       \* the slug with a per-tenant key of its own ("openai")
    NeedsKey,     \* NeedsKey[s]: requires_api_key, and the key field is required
    PlatformKey,  \* PlatformKey[s]: platform_key_for_provider(s) is not None
    Conns,        \* connection identifiers (fresh UUIDs, used once)
    NoConn,       \* no identifier given
    Home, SlugOf, \* tenant and slug a connection is created with
    KeyIds,       \* API keys a user may type
    Payloads,     \* payloads of the saves of this instance
    Threads,      \* threads of the API server
    Faults,       \* the faults that may happen in this instance
    Ops,          \* the operations used in this instance
    MaxRequests   \* bound: requests in a behaviour

ASSUME TreeAssumption ==
    /\ Parent \in [Tenants -> Tenants \cup {NoTenant}] /\ NoTenant \notin Tenants
    /\ Inherits \in [Tenants -> BOOLEAN] /\ MaxDepth \in Nat
ASSUME SlugsAssumption ==
    /\ NeedsKey \in [Slugs -> BOOLEAN] /\ PlatformKey \in [Slugs -> BOOLEAN]
    /\ Legacy \in Slugs
ASSUME ConnsAssumption ==
    /\ Home \in [Conns -> Tenants] /\ SlugOf \in [Conns -> Slugs]
    /\ NoConn \notin Conns /\ Conns \cap Tenants = {} /\ IsFiniteSet(Conns)
    /\ 0 \notin KeyIds /\ KeyIds \subseteq Nat /\ KeyIds # {}
ASSUME PayloadsAssumption ==
    Payloads \subseteq [default: {"keep", "yes", "no"}, active: {"keep", "yes", "no"},
                        auth: {"keep", "tenant", "platform", "none"},
                        clear: BOOLEAN, key: KeyIds \cup {0}]
ASSUME RunAssumption ==
    /\ Faults \subseteq {"secret", "crash"} /\ MaxRequests \in Nat
    /\ Ops \subseteq {"save", "patch", "form", "delete", "resolve", "settings"}

VARIABLES
    row,        \* tenant_provider_configs
    llm,        \* llm_auth_mode and openai_key_ref of each tenant
    file,       \* secret files, by the reference that names them
    thread,     \* what each request handler is doing
    disturbed,  \* history: connections an overlap or a fault touched
    mixed,      \* history: groups an abandoned or a racing default touched
    requests    \* requests made so far (bounded by MaxRequests)

vars == <<row, llm, file, thread, disturbed, mixed, requests>>

-----------------------------------------------------------------------------
(* Rows and files.                                                         *)

Modes == {"tenant", "platform", "none"}

Config == [live: {"free", "live", "gone"}, default: BOOLEAN, active: BOOLEAN,
           keyRef: BOOLEAN, auth: Modes]

Free == [live |-> "free", default |-> FALSE, active |-> TRUE, keyRef |-> FALSE,
         auth |-> "tenant"]

Live(c) == row[c].live = "live"
Group(c) == <<Home[c], SlugOf[c]>>
Peers(g) == {c \in Conns : Live(c) /\ Group(c) = g}

\* Mutant of SecretRef: the reference of the first schema, without the identifier.
SharedRef(c) == Home[c]

\* The name of a connection's secret file: tenant, slug and connection id.
SecretRef(c) == c

\* The name of the legacy file: tenant and slug only.
LegacyRef(t) == t

NoSecret == [owner |-> NoConn, key |-> 0]
Secrets == [owner: Conns \cup Tenants, key: KeyIds] \cup {NoSecret}

HasKey(c) == row[c].keyRef /\ file[SecretRef(c)] # NoSecret

\* is_default first, then is_active, then the more recent one.
Rank(c) == (IF row[c].default THEN 2 ELSE 0) + (IF row[c].active THEN 1 ELSE 0)
First(S) == {c \in S : \A d \in S : Rank(d) <= Rank(c)}

Column(new, old, stored) == IF new # old THEN new ELSE stored

\* Mutant of Flush: the UPDATE does not write auth_mode and is_active as booleans.
FlushMisnamed(new, old, stored) == [stored EXCEPT !.auth = "legacy"]

Flush(new, old, stored) ==
    [live |-> stored.live,
     default |-> Column(new.default, old.default, stored.default),
     active |-> Column(new.active, old.active, stored.active),
     keyRef |-> Column(new.keyRef, old.keyRef, stored.keyRef),
     auth |-> Column(new.auth, old.auth, stored.auth)]

-----------------------------------------------------------------------------
(* Resolution.                                                             *)

\* The tenants a lookup from t visits, nearest first; NoTenant once it has stopped.
Chain ==
    [t \in Tenants |->
        LET up[n \in 0..MaxDepth] ==
              IF n = 0 THEN t
              ELSE IF up[n - 1] = NoTenant THEN NoTenant
              ELSE IF Inherits[up[n - 1]] THEN Parent[up[n - 1]] ELSE NoTenant
        IN up]

Visited(t) == {u \in Tenants : \E n \in 0..MaxDepth - 1 : Chain[t][n] = u}

Steps(t, u) == CHOOSE n \in 0..MaxDepth - 1 : Chain[t][n] = u

\* list_effective_provider_configs: those of the nearest tenant that has any.
Effective(t, s) ==
    LET having == {u \in Visited(t) : Peers(<<u, s>>) # {}}
    IN UNION {Peers(<<u, s>>) : u \in {v \in having : \A w \in having : Steps(t, v) <= Steps(t, w)}}

\* Mutant of Reachable: the walk by identifier stops one tenant early.
ReachableShort(t, c) ==
    Live(c) /\ Home[c] \in {Chain[t][n] : n \in 0..MaxDepth - 2}

\* get_effective_provider_config_by_id.
Reachable(t, c) == Live(c) /\ Home[c] \in Visited(t)

\* provider_config_is_ready.
Ready(c) ==
    /\ Live(c) /\ row[c].active
    /\ CASE row[c].auth = "tenant"   -> HasKey(c)
         [] row[c].auth = "platform" -> PlatformKey[SlugOf[c]]
         [] row[c].auth = "none"     -> ~NeedsKey[SlugOf[c]]

\* list_ready_provider_connections_for_tenant.
ReadyConnections(t, s) == {c \in Effective(t, s) : Ready(c)}

\* resolve_provider_credentials, the tests on the row ...
Admits(config) == config.active /\ (config.auth = "tenant" => config.keyRef)

Platform(s) == IF PlatformKey[s] THEN [owner |-> NoConn, key |-> 1] ELSE NoSecret

\* ... the key its auth_mode names ...
KeyFor(c, config) ==
    CASE config.auth = "tenant"   -> file[SecretRef(c)]
      [] config.auth = "platform" -> Platform(SlugOf[c])
      [] config.auth = "none"     -> NoSecret

\* ... and the test on the key.
Enough(s, auth, key) == NeedsKey[s] /\ auth # "none" => key # NoSecret

Resolves(c) == Admits(row[c]) /\ Enough(SlugOf[c], row[c].auth, KeyFor(c, row[c]))

\* _resolve_legacy_openai_key: what one tenant contributes without a connection.
LegacyKey(t) ==
    IF llm[t].mode = "platform" THEN Platform(Legacy)
    ELSE IF llm[t].keyRef THEN file[LegacyRef(t)] ELSE NoSecret

\* The walk up the tree for the legacy slug stops at the first key.
LegacySource(t) ==
    LET giving == {u \in Visited(t) : LegacyKey(u) # NoSecret}
    IN {u \in giving : \A v \in giving : Steps(t, u) <= Steps(t, v)}

-----------------------------------------------------------------------------
(* Request handlers.                                                       *)

Saving == {"existing", "insert", "lookup", "clear", "put", "commit", "refresh", "others"}
Points == Saving \cup {"idle", "delFile", "delRow", "pick", "promote", "key", "got",
                       "llmClear", "llmPut", "llmSave"}

NoPayload == [default |-> "keep", active |-> "keep", auth |-> "keep", clear |-> FALSE, key |-> 0]

Handler == [at: Points, tenant: Tenants \cup {NoTenant}, slug: Slugs, conn: Conns \cup {NoConn},
            want: Payloads \cup {NoPayload}, found: BOOLEAN, old: Config, new: Config,
            next: Conns \cup {NoConn}, got: Secrets \cup {[owner |-> NoConn, key |-> 1]}]

Idle == [at |-> "idle", tenant |-> NoTenant, slug |-> Legacy, conn |-> NoConn,
         want |-> NoPayload, found |-> FALSE, old |-> Free, new |-> Free,
         next |-> NoConn, got |-> NoSecret]

TypeOK ==
    /\ row \in [Conns -> Config]
    /\ llm \in [Tenants -> [mode: {"tenant", "platform"}, keyRef: BOOLEAN]]
    /\ file \in [Conns \cup Tenants -> Secrets]
    /\ thread \in [Threads -> Handler]
    /\ disturbed \subseteq Conns
    /\ mixed \subseteq Tenants \X Slugs
    /\ requests \in 0..MaxRequests

\* Earlier saves left any set of connections with their keys, at most one
\* default in a group.
Init ==
    /\ \E S \in SUBSET Conns, D \in SUBSET Conns :
         /\ D \subseteq S
         /\ \A c, d \in D : Group(c) = Group(d) => c = d
         /\ row = [c \in Conns |-> IF c \in S
                     THEN [Free EXCEPT !.live = "live", !.default = c \in D, !.keyRef = TRUE]
                     ELSE Free]
         /\ file = [r \in Conns \cup Tenants |->
                      IF r \in S THEN [owner |-> r, key |-> CHOOSE k \in KeyIds : TRUE]
                      ELSE NoSecret]
    /\ llm = [t \in Tenants |-> [mode |-> "platform", keyRef |-> FALSE]]
    /\ thread = [p \in Threads |-> Idle]
    /\ disturbed = {} /\ mixed = {} /\ requests = 0

\* Whether another handler is in the middle of an operation on c.
Shared(p, c) == \E q \in Threads \ {p} : thread[q].conn = c /\ thread[q].at \notin {"key", "got"}

\* The identifiers a request of tenant t may carry: an identifier of another
\* tenant, or of nothing, is refused like that of a deleted connection.
Known(t) == {c \in Conns : Home[c] = t /\ row[c].live # "free"}

\* A fresh identifier is left for a connection of this tenant and provider.
Fresh(t, s) == {c \in Conns : Group(c) = <<t, s>> /\ row[c].live = "free"}

Begin(p, op, h) ==
    /\ op \in Ops
    /\ thread[p].at = "idle" /\ requests < MaxRequests
    /\ thread' = [thread EXCEPT ![p] = h]
    /\ requests' = requests + 1
    /\ disturbed' = disturbed \cup {c \in {h.conn} \ {NoConn} : Shared(p, c)}
    /\ UNCHANGED <<row, llm, file, mixed>>

Goto(p, h) == thread' = [thread EXCEPT ![p] = h] /\ UNCHANGED requests
Done(p) == Goto(p, Idle)
Move(p, at) == Goto(p, [thread[p] EXCEPT !.at = at])
Local == UNCHANGED <<row, llm, file, disturbed, mixed>>

\* The columns a payload assigns on the object.
Chosen(choice, value) == IF choice = "keep" THEN value ELSE choice = "yes"

Apply(config, w) ==
    [config EXCEPT !.default = Chosen(w.default, @), !.active = Chosen(w.active, @),
                   !.auth = IF w.auth = "keep" THEN @ ELSE w.auth]

At(t, s, c, w) ==
    [Idle EXCEPT !.at = IF c = NoConn THEN "existing" ELSE "lookup",
                 !.tenant = t, !.slug = s, !.conn = c, !.want = w]

\* POST /v1/providers: the key field is required whether or not a key is stored.
ApiSave(p) ==
    \E t \in Tenants, s \in Slugs, w \in {v \in Payloads : v.auth # "keep" /\ v.active # "keep"} :
      \E c \in Known(t) \cup {NoConn} :
        /\ NeedsKey[s] => w.key # 0
        /\ c = NoConn => Fresh(t, s) # {}
        /\ Begin(p, "save", At(t, s, c, w))

\* PATCH /v1/providers/{slug}: the row is loaded before the key is validated
\* at the provider; without an identifier it is the first of the ordering.
ApiPatch(p) ==
    \E t \in Tenants, s \in Slugs, w \in Payloads :
        \E c \in Peers(<<t, s>>) :
            /\ NeedsKey[s] => w.key # 0 \/ (HasKey(c) /\ ~w.clear)
            /\ Begin(p, "patch", [At(t, s, c, w) EXCEPT !.old = row[c]])

\* POST /providers: the form sends every flag; the object loaded for the
\* checks is the one the save will edit.
WebSave(p) ==
    \E t \in Tenants, s \in Slugs, w \in {v \in Payloads : "keep" \notin {v.auth, v.active, v.default}} :
      \E c \in Known(t) \cup {NoConn} :
        LET loaded == c # NoConn /\ Live(c)
            stored == loaded /\ HasKey(c)
        IN  /\ loaded => SlugOf[c] = s
            /\ c = NoConn => Fresh(t, s) # {}
            /\ NeedsKey[s] => w.key # 0 \/ (stored /\ ~w.clear)
            /\ Begin(p, "form", [At(t, s, c, w) EXCEPT !.old = IF loaded THEN row[c] ELSE Free])

\* upsert_tenant_provider_config with an identifier.
Lookup(p) ==
    LET h == thread[p] old == IF h.old.live = "live" THEN h.old ELSE row[h.conn]
    IN  /\ h.at = "lookup"
        /\ IF Live(h.conn) /\ Group(h.conn) = <<h.tenant, h.slug>>
           THEN Goto(p, [h EXCEPT !.at = "clear", !.old = old, !.new = Apply(old, h.want)])
           ELSE Done(p)
        /\ Local

\* Without one: is there a connection of this provider already ...
Existing(p) ==
    LET h == thread[p]
    IN  /\ h.at = "existing"
        /\ Goto(p, [h EXCEPT !.at = "insert", !.found = Peers(<<h.tenant, h.slug>>) # {}])
        /\ Local

\* ... and the INSERT, committed on its own.
Insert(p) ==
    LET h == thread[p]
        first == [Free EXCEPT !.live = "live", !.default = ~h.found]
    IN  /\ h.at = "insert"
        /\ \E c \in Fresh(h.tenant, h.slug) :
             /\ row' = [row EXCEPT ![c] = first]
             /\ Goto(p, [h EXCEPT !.at = "clear", !.conn = c, !.old = first,
                                  !.new = Apply(first, h.want)])
        /\ UNCHANGED <<llm, file, disturbed, mixed>>

\* The name is taken: the unique constraint refuses the row.
InsertConflict(p) ==
    /\ thread[p].at = "insert"
    /\ Peers(<<thread[p].tenant, thread[p].slug>>) # {}
    /\ Done(p) /\ Local

ClearKey(p) ==
    LET h == thread[p] clears == h.want.clear /\ h.new.keyRef
    IN  /\ h.at = "clear"
        /\ file' = IF clears THEN [file EXCEPT ![SecretRef(h.conn)] = NoSecret] ELSE file
        /\ Goto(p, [h EXCEPT !.at = "put", !.new.keyRef = @ /\ ~clears])
        /\ UNCHANGED <<row, llm, disturbed, mixed>>

PutKey(p) ==
    LET h == thread[p] typed == h.want.key # 0
    IN  /\ h.at = "put"
        /\ file' = IF typed
                   THEN [file EXCEPT ![SecretRef(h.conn)] = [owner |-> h.conn, key |-> h.want.key]]
                   ELSE file
        /\ Goto(p, [h EXCEPT !.at = "commit", !.new.keyRef = @ \/ typed])
        /\ UNCHANGED <<row, llm, disturbed, mixed>>

\* No keyring, or the file cannot be written: the request is refused, but the
\* INSERT and the removal of the old file have happened.
PutFails(p) ==
    LET h == thread[p]
    IN  /\ "secret" \in Faults
        /\ h.at = "put" /\ h.want.key # 0
        /\ disturbed' = disturbed \cup {h.conn} /\ mixed' = mixed \cup {Group(h.conn)}
        /\ Done(p)
        /\ UNCHANGED <<row, llm, file>>

\* The commit of the changed columns; it fails when the row has been deleted.
CommitRow(p) ==
    LET h == thread[p]
    IN  /\ h.at = "commit"
        /\ IF Live(h.conn)
           THEN /\ row' = [row EXCEPT ![h.conn] = Flush(h.new, h.old, @)]
                /\ Move(p, "refresh")
           ELSE Done(p) /\ UNCHANGED row
        /\ UNCHANGED <<llm, file, disturbed, mixed>>

\* Mutant of Refresh: only a payload that asks for the default clears the others.
RefreshAsked(p) ==
    LET h == thread[p]
    IN  /\ h.at = "refresh"
        /\ IF Live(h.conn) /\ h.want.default = "yes" THEN Move(p, "others") ELSE Done(p)
        /\ Local

Refresh(p) ==
    LET h == thread[p]
    IN  /\ h.at = "refresh"
        /\ IF Live(h.conn) /\ row[h.conn].default THEN Move(p, "others") ELSE Done(p)
        /\ Local

ClearOthers(p) ==
    LET h == thread[p] others == Peers(Group(h.conn)) \ {h.conn}
    IN  /\ h.at = "others"
        /\ row' = [c \in Conns |-> [row[c] EXCEPT !.default = @ /\ c \notin others]]
        /\ Done(p)
        /\ UNCHANGED <<llm, file, disturbed, mixed>>

-----------------------------------------------------------------------------
(* Deletion.                                                               *)

Deleting(t, s, c) ==
    [Idle EXCEPT !.at = "delFile", !.tenant = t, !.slug = s, !.conn = c, !.old = row[c]]

\* DELETE /v1/providers/{slug}: the given connection, or the first one.
ApiDelete(p) ==
    \E t \in Tenants, s \in Slugs, byId \in BOOLEAN :
        \E c \in IF byId THEN Peers(<<t, s>>) ELSE First(Peers(<<t, s>>)) :
            Begin(p, "delete", Deleting(t, s, c))

\* POST /providers/{slug}/{id}/delete.
WebDelete(p) ==
    \E t \in Tenants, s \in Slugs :
        \E c \in Peers(<<t, s>>) : Begin(p, "delete", Deleting(t, s, c))

\* Mutant of RemoveFile: the file of a deleted connection is kept.
RemoveNothing(p) == thread[p].at = "delFile" /\ Move(p, "delRow") /\ Local

RemoveFile(p) ==
    LET h == thread[p]
    IN  /\ h.at = "delFile"
        /\ file' = IF h.old.keyRef THEN [file EXCEPT ![SecretRef(h.conn)] = NoSecret] ELSE file
        /\ Move(p, "delRow")
        /\ UNCHANGED <<row, llm, disturbed, mixed>>

\* A second delete of the same row only warns.
DeleteRow(p) ==
    LET h == thread[p]
    IN  /\ h.at = "delRow"
        /\ row' = [row EXCEPT ![h.conn] = [Free EXCEPT !.live = "gone"]]
        /\ IF h.old.default THEN Move(p, "pick") ELSE Done(p)
        /\ UNCHANGED <<llm, file, disturbed, mixed>>

Pick(p) ==
    LET h == thread[p] rest == Peers(Group(h.conn))
    IN  /\ h.at = "pick"
        /\ \/ rest = {} /\ Done(p)
           \/ \E c \in First(rest) : Goto(p, [h EXCEPT !.at = "promote", !.next = c, !.old = row[c]])
        /\ Local

Promote(p) ==
    LET h == thread[p]
    IN  /\ h.at = "promote"
        /\ Done(p)
        /\ IF Live(h.next)
           THEN /\ row' = [row EXCEPT ![h.next].default = Column(TRUE, h.old.default, @)]
                /\ mixed' = IF \E d \in Peers(Group(h.next)) \ {h.next} : row[d].default
                            THEN mixed \cup {Group(h.next)} ELSE mixed
           ELSE UNCHANGED <<row, mixed>>
        /\ UNCHANGED <<llm, file, disturbed>>

-----------------------------------------------------------------------------
(* Credentials of a call.                                                  *)

Resolving(t, s, c) ==
    [Idle EXCEPT !.at = "key", !.tenant = t, !.slug = s, !.conn = c, !.old = row[c]]

\* With an identifier, as a target binds it.
ResolveById(p) ==
    \E t \in Tenants, s \in Slugs, c \in Conns :
        /\ Reachable(t, c) /\ SlugOf[c] = s /\ Admits(row[c])
        /\ Begin(p, "resolve", Resolving(t, s, c))

\* Without one: the first connection of the nearest tenant that has any.
ResolveBySlug(p) ==
    \E t \in Tenants, s \in Slugs :
        \E c \in First(Effective(t, s)) :
            Admits(row[c]) /\ Begin(p, "resolve", Resolving(t, s, c))

\* No connection at all: the legacy key, or the platform's.
ResolveLegacy(p) ==
    \E t \in Tenants, s \in Slugs :
        /\ Effective(t, s) = {}
        /\ \E key \in IF s # Legacy THEN {Platform(s)}
                      ELSE {LegacyKey(u) : u \in LegacySource(t)} :
             /\ Enough(s, "platform", key)
             /\ Begin(p, "resolve", [Idle EXCEPT !.at = "got", !.tenant = t, !.slug = s, !.got = key])

\* get_secret, after the row was read.
ReadKey(p) ==
    LET h == thread[p] key == KeyFor(h.conn, h.old)
    IN  /\ h.at = "key"
        /\ IF Enough(h.slug, h.old.auth, key)
           THEN Goto(p, [h EXCEPT !.at = "got", !.got = key])
           ELSE Done(p)
        /\ Local

Call(p) == thread[p].at = "got" /\ Done(p) /\ Local

-----------------------------------------------------------------------------
(* The legacy settings of a tenant.                                        *)

SettingsOf(t, w) ==
    LET tenant == [Free EXCEPT !.auth = llm[t].mode, !.keyRef = llm[t].keyRef]
    IN [Idle EXCEPT !.at = "llmClear", !.tenant = t, !.want = w, !.old = tenant,
                    !.new = [tenant EXCEPT !.auth = w.auth]]

\* The payloads that say nothing of a connection.
Settable == {w \in Payloads : w.default = "keep" /\ w.active = "keep"}

\* POST /v1/tenant/settings/llm.
ApiSettings(p) ==
    \E t \in Tenants, w \in {v \in Settable : v.auth \in {"tenant", "platform"}} :
        Begin(p, "settings", SettingsOf(t, w))

\* POST /settings/llm: any other mode counts as platform.
WebSettings(p) ==
    \E t \in Tenants, w \in Settable :
        Begin(p, "settings",
              [SettingsOf(t, w) EXCEPT !.new.auth = IF w.auth = "tenant" THEN "tenant" ELSE "platform"])

LlmClear(p) ==
    LET h == thread[p] clears == h.want.clear /\ h.new.keyRef
    IN  /\ h.at = "llmClear"
        /\ file' = IF clears THEN [file EXCEPT ![LegacyRef(h.tenant)] = NoSecret] ELSE file
        /\ Goto(p, [h EXCEPT !.at = "llmPut", !.new.keyRef = @ /\ ~clears])
        /\ UNCHANGED <<row, llm, disturbed, mixed>>

LlmPut(p) ==
    LET h == thread[p] typed == h.want.key # 0
    IN  /\ h.at = "llmPut"
        /\ file' = IF typed
                   THEN [file EXCEPT ![LegacyRef(h.tenant)] = [owner |-> h.tenant, key |-> h.want.key]]
                   ELSE file
        /\ Goto(p, [h EXCEPT !.at = "llmSave", !.new.keyRef = @ \/ typed])
        /\ UNCHANGED <<row, llm, disturbed, mixed>>

\* tenant_has_configured_key also accepts the file no column names.
Configured(h) == file[LegacyRef(h.tenant)] # NoSecret

\* The mode is tested after the file was changed; a refusal commits nothing.
LlmSave(p) ==
    LET h == thread[p]
        allowed == IF h.new.auth = "tenant" THEN Configured(h) ELSE PlatformKey[Legacy]
    IN  /\ h.at = "llmSave"
        /\ llm' = IF allowed
                  THEN [llm EXCEPT ![h.tenant] =
                          [mode |-> Column(h.new.auth, h.old.auth, @.mode),
                           keyRef |-> Column(h.new.keyRef, h.old.keyRef, @.keyRef)]]
                  ELSE llm
        /\ Done(p)
        /\ UNCHANGED <<row, file, disturbed, mixed>>

-----------------------------------------------------------------------------
\* The API process dies in the middle of a request.
Crash(p) ==
    LET h == thread[p]
    IN  /\ "crash" \in Faults /\ h.at # "idle"
        /\ disturbed' = disturbed \cup ({h.conn} \ {NoConn})
        /\ mixed' = IF h.at \in Saving /\ h.conn # NoConn THEN mixed \cup {Group(h.conn)} ELSE mixed
        /\ Done(p)
        /\ UNCHANGED <<row, llm, file>>

Save(p) ==
    \/ ApiSave(p) \/ ApiPatch(p) \/ WebSave(p) \/ Lookup(p) \/ Existing(p) \/ Insert(p)
    \/ InsertConflict(p) \/ ClearKey(p) \/ PutKey(p) \/ PutFails(p) \/ CommitRow(p)
    \/ Refresh(p) \/ ClearOthers(p)

Delete(p) ==
    ApiDelete(p) \/ WebDelete(p) \/ RemoveFile(p) \/ DeleteRow(p) \/ Pick(p) \/ Promote(p)

Resolve(p) == ResolveById(p) \/ ResolveBySlug(p) \/ ResolveLegacy(p) \/ ReadKey(p) \/ Call(p)

Settings(p) == ApiSettings(p) \/ WebSettings(p) \/ LlmClear(p) \/ LlmPut(p) \/ LlmSave(p)

Next == \E p \in Threads : Save(p) \/ Delete(p) \/ Resolve(p) \/ Settings(p) \/ Crash(p)

Spec == Init /\ [][Next]_vars

-----------------------------------------------------------------------------
(* Properties.                                                             *)

\* A call never carries a key that was typed for another connection or
\* another tenant, whatever was saved, cleared, deleted or inherited between
\* reading the row and reading the file.
KeysStayHome ==
    \A p \in Threads :
        LET h == thread[p]
        IN  h.at = "got" /\ h.got.key # 0 /\ h.got.owner # NoConn =>
              \/ h.got.owner = h.conn
              \/ h.conn = NoConn /\ h.got.owner \in Visited(h.tenant)

\* Saves of one provider in any interleaving leave at most one default: each
\* repairs what it, or a racing first save, has committed.  Excepted are the
\* groups where a save was abandoned half-way, or where a delete promoted a
\* connection while another one became the default (mixed).
DefaultsAreRepaired ==
    \A t \in Tenants, s \in Slugs :
        \/ <<t, s>> \in mixed
        \/ \E p \in Threads : /\ thread[p].at \in {"clear", "put", "commit", "refresh", "others"}
                              /\ Group(thread[p].conn) = <<t, s>>
        \/ Cardinality({c \in Peers(<<t, s>>) : row[c].default}) <= 1

\* The secret file of a connection exists exactly when its row names it, also
\* after refusals and deletions, unless two operations on the connection
\* overlapped or one was cut short (disturbed).
UndisturbedRowsMatchFiles ==
    \A c \in Conns \ disturbed :
        (\A p \in Threads : thread[p].conn = c => thread[p].at \in {"key", "got"})
            => (row[c].keyRef <=> file[SecretRef(c)] # NoSecret)

\* A connection the pages and the test lab offer as ready can be bound to a
\* target and called: the walk by identifier reaches it and
\* resolve_provider_credentials accepts it.
ReadyMeansResolvable ==
    \A t \in Tenants, s \in Slugs : \A c \in ReadyConnections(t, s) :
        Reachable(t, c) /\ Resolves(c)

\* "Tenant mode requires a tenant OpenAI API key" (routers/admin.py): outside
\* a settings request, a tenant in tenant mode has a key the resolution finds.
TenantModeHasKey ==
    \A t \in Tenants :
        llm[t].mode = "tenant" /\ (\A p \in Threads : thread[p].tenant # t)
            => LegacyKey(t) # NoSecret
=============================================================================
