------------------------------ MODULE Deployments ------------------------------
(***************************************************************************)
(* Deployments (the targets table), the versions of an endpoint, the       *)
(* personas and context blocks they use, and the route a run of a version  *)
(* takes.                                                                  *)
(*                                                                         *)
(* A handler reads, checks and commits in separate transactions, and keeps *)
(* the objects it read: the session's identity map gives the same object   *)
(* back, with the columns it was loaded with, until a refresh, and a       *)
(* commit writes the columns that differ from them.  The module has one    *)
(* endpoint, and connections of one provider; the checks that compare      *)
(* provider slugs, names or parameters only refuse requests and are not    *)
(* modelled.  Connections come from module Connections: here they are      *)
(* there and ready, or deleted.                                            *)
(***************************************************************************)
EXTENDS Naturals, FiniteSets

CONSTANTS
    Conns, NoConn,       \* provider connections of one provider; none (NULL)
    Models,              \* model identifiers
    Targets, NoTarget,   \* deployment identifiers, used once; none
    Versions, NoVersion, \* endpoint version identifiers, used once; none
    Personas, NoPersona, \* persona identifiers; none
    Blocks,              \* context block identifiers
    Threads,             \* threads of the API server
    Starts,              \* databases a behaviour may start from
    Asks,                \* what users of this instance ask of a new version
    Ops, Faults,         \* operations and faults of this instance
    MaxRequests          \* bound: requests in a behaviour

VARIABLES
    conn,       \* connections that exist and are ready
    target,     \* targets
    version,    \* endpoint_versions and endpoint_version_contexts
    endpoint,   \* the endpoint: does it exist, active_version_id
    persona,    \* personas
    block,      \* context_blocks
    thread,     \* what each request handler is doing
    probed,     \* history: what the last successful probe of a target called
    raced,      \* history: targets written over, or whose connection was deleted
    late,       \* history: targets and personas used while being deleted
    asked,      \* history: what the creator of a version asked for
    answered,   \* history: versions whose creation was answered
    requests    \* requests made so far (bounded by MaxRequests)

tables == <<conn, target, version, endpoint, persona, block>>
history == <<probed, raced, late, asked, answered>>
vars == <<tables, thread, history, requests>>

-----------------------------------------------------------------------------
(* Rows.                                                                   *)

Life == {"free", "live", "gone"}

Target == [live: Life, conn: Conns \cup {NoConn}, model: Models,
           active: BOOLEAN, verified: BOOLEAN]

Version == [live: Life, n: Nat, target: Targets \cup {NoTarget}, model: Models,
            pin: Conns \cup {NoConn}, persona: Personas \cup {NoPersona},
            blocks: SUBSET Blocks]

AnyModel == CHOOSE m \in Models : TRUE

FreeTarget == [live |-> "free", conn |-> NoConn, model |-> AnyModel,
               active |-> FALSE, verified |-> FALSE]
FreeVersion == [live |-> "free", n |-> 0, target |-> NoTarget, model |-> AnyModel,
                pin |-> NoConn, persona |-> NoPersona, blocks |-> {}]

Database == [target: [Targets -> Target], version: [Versions -> Version],
             active: Versions \cup {NoVersion},
            persona: [Personas -> {"free", "live"}], block: [Blocks -> {"free", "live"}]]

\* What the version form is filled with; the model is not read beside a target.
Forms == {f \in [target: Targets \cup {NoTarget}, model: Models, pin: Conns \cup {NoConn}] :
            f.target # NoTarget => f.model = AnyModel}

ASSUME DeploymentsAssumption ==
    /\ Models # {} /\ NoConn \notin Conns /\ NoTarget \notin Targets
    /\ NoVersion \notin Versions /\ NoPersona \notin Personas
    /\ Targets \cap Personas = {} /\ IsFiniteSet(Versions)
\* A start is a database that requests have left one after the other.
ASSUME StartsAssumption ==
    /\ Starts \subseteq Database
    /\ \A s \in Starts :
         LET live == {v \in Versions : s.version[v].live = "live"} IN
         /\ {s.version[v].n : v \in live} = 1..Cardinality(live)
         /\ s.active \in live \/ (s.active = NoVersion /\ live = {})
         /\ \A v \in live : \A b \in s.version[v].blocks : s.block[b] = "live"
    /\ \A k \in Asks : k.form \in Forms /\ k.persona \in Personas \cup {NoPersona}
                     /\ k.blocks \subseteq Blocks
    /\ Faults \subseteq {"crash"} /\ MaxRequests \in Nat
    /\ Ops \subseteq {"target", "update", "verify", "delete", "disconnect", "version",
                      "activate", "promote", "parts", "endpoint"}

LiveTargets == {t \in Targets : target[t].live = "live"}
LiveVersions == {v \in Versions : version[v].live = "live"}
LiveBlocks == {b \in Blocks : block[b] = "live"}
Exists(p) == p = NoPersona \/ persona[p] = "live"

Column(new, old, stored) == IF new # old THEN new ELSE stored

Flush(new, old, stored) ==
    [live |-> stored.live,
     conn |-> Column(new.conn, old.conn, stored.conn),
     model |-> Column(new.model, old.model, stored.model),
     active |-> Column(new.active, old.active, stored.active),
     verified |-> Column(new.verified, old.verified, stored.verified)]

-----------------------------------------------------------------------------
(* Routes: the connection and the model a call is made with.  NoConn is    *)
(* the default connection of the provider.                                 *)

\* The worker: the connection of the target while it still has the version's
\* model, else the one pinned in params_json.
Route(v) ==
    LET t == version[v].target
    IN <<IF t # NoTarget /\ target[t].model = version[v].model THEN target[t].conn
         ELSE version[v].pin, version[v].model>>

SomeReady == \E c \in Conns : conn[c]

\* The checks of the form, the same for a draft run and for a new version.
Admitted(f) ==
    /\ SomeReady
    /\ IF f.target # NoTarget
       THEN /\ target[f.target].live = "live" /\ target[f.target].active
            /\ target[f.target].conn # NoConn => conn[target[f.target].conn]
       ELSE f.pin # NoConn => conn[f.pin]

\* Mutant of DraftRoute: the draft run takes the connection of the form.
DraftRouteOfForm(f) ==
    <<f.pin, IF f.target # NoTarget THEN target[f.target].model ELSE f.model>>

\* The connection and the model of a draft run of the form.
DraftRoute(f) ==
    IF f.target # NoTarget THEN <<target[f.target].conn, target[f.target].model>>
    ELSE <<f.pin, f.model>>

\* The pin a new version keeps: the form drops it when a target is chosen.
PinOf(f) == IF f.target # NoTarget THEN NoConn ELSE f.pin

-----------------------------------------------------------------------------
Idle == [pc |-> "idle", op |-> "none", t |-> NoTarget, old |-> FreeTarget,
         new |-> FreeTarget, verify |-> FALSE, v |-> NoVersion, seen |-> NoVersion,
         auto |-> FALSE, n |-> 0, model |-> AnyModel, pin |-> NoConn,
         persona |-> NoPersona, blocks |-> {}]

Thread == [pc: {"idle", "addTarget", "saveTarget", "resolve", "verdict", "dropTarget",
                "dropPersona", "number", "insert", "blocks", "link", "auto", "activate"},
           op: {"none", "api", "form", "prompt", "promote"},
           t: Targets \cup {NoTarget}, old: Target, new: Target, verify: BOOLEAN,
           v: Versions \cup {NoVersion}, seen: Versions \cup {NoVersion}, auto: BOOLEAN,
           n: Nat, model: Models, pin: Conns \cup {NoConn},
           persona: Personas \cup {NoPersona}, blocks: SUBSET Blocks]

Init ==
    /\ conn = [c \in Conns |-> TRUE]
    /\ \E s \in Starts :
         /\ target = s.target /\ version = s.version
         /\ endpoint = [live |-> TRUE, active |-> s.active]
         /\ persona = s.persona /\ block = s.block
         /\ asked = s.version /\ answered = {v \in Versions : s.version[v].live = "live"}
         /\ probed = [t \in Targets |-> <<s.target[t].conn, s.target[t].model>>]
    /\ thread = [p \in Threads |-> Idle]
    /\ raced = {} /\ late = {} /\ requests = 0

To(p, r) == thread' = [thread EXCEPT ![p] = r]
End(p) == To(p, Idle)

\* A handler starts: it has read what r keeps.
Begin(p, op, r) ==
    /\ op \in Ops /\ thread[p].pc = "idle" /\ requests < MaxRequests
    /\ To(p, r) /\ requests' = requests + 1
    /\ UNCHANGED <<tables, history>>

\* A request that is one transaction.
Request(p, op) ==
    /\ op \in Ops /\ thread[p].pc = "idle" /\ requests < MaxRequests
    /\ requests' = requests + 1 /\ UNCHANGED thread

At(p, pc) == thread[p].pc = pc /\ UNCHANGED requests

-----------------------------------------------------------------------------
(* Deployments.                                                            *)

Row(c, m, a) == [live |-> "live", conn |-> c, model |-> m, active |-> a, verified |-> FALSE]

\* The connection exists (the form wants it ready too).
Creating(p, verify) ==
    \E t \in Targets, c \in Conns, m \in Models, a \in BOOLEAN :
        /\ target[t].live = "free" /\ conn[c] /\ (verify => a)
        /\ Begin(p, "target", [Idle EXCEPT !.pc = "addTarget", !.t = t, !.verify = verify,
                                           !.new = Row(c, m, a)])

ApiCreateTarget(p) == Creating(p, FALSE)
WebCreateTarget(p) == \E verify \in BOOLEAN : Creating(p, verify)

\* verify_target is called, and refuses a disabled target.
AfterSave(p, row) ==
    IF thread[p].verify /\ row.active
    THEN To(p, [thread[p] EXCEPT !.pc = "resolve", !.old = row, !.new = row])
    ELSE End(p)

\* create_target_record: the INSERT fails when the connection is gone by now,
\* or the identifier (the name, in the table) has been taken.
InsertTarget(p) ==
    LET q == thread[p] IN
    /\ At(p, "addTarget")
    /\ IF conn[q.new.conn] /\ target[q.t].live = "free"
       THEN /\ target' = [target EXCEPT ![q.t] = q.new]
            /\ AfterSave(p, q.new)
       ELSE End(p) /\ UNCHANGED target
    /\ UNCHANGED <<conn, version, endpoint, persona, block, history>>

Updating(p, t, row, verify) ==
    Begin(p, "update", [Idle EXCEPT !.pc = "saveTarget", !.t = t, !.verify = verify,
                                    !.old = target[t], !.new = row])

\* A PATCH names the connection or the model to change, or neither.
ApiUpdateTarget(p) ==
    \E t \in LiveTargets, a \in BOOLEAN :
        \/ \E c \in Conns : conn[c] /\ Updating(p, t, Row(c, target[t].model, a), FALSE)
        \/ \E m \in Models : Updating(p, t, Row(target[t].conn, m, a), FALSE)

\* The form sends everything, and may verify at once.
WebUpdateTarget(p) ==
    \E t \in LiveTargets, c \in Conns, m \in Models, a, verify \in BOOLEAN :
        conn[c] /\ (verify => a) /\ Updating(p, t, Row(c, m, a), verify)

\* Mutant of Saved: the update leaves the verification alone.
SavedVerified(new, old) == [new EXCEPT !.verified = old.verified]

\* Mutant of Saved: the flag is set to NULL.
SavedNull(new, old) == [new EXCEPT !.verified = NoTarget]

\* update_target_record: any change takes the verification away.
Saved(new, old) == [new EXCEPT !.verified = FALSE]

SaveTarget(p) ==
    LET q == thread[p]
        new == Flush(Saved(q.new, q.old), q.old, target[q.t])
    IN
    /\ At(p, "saveTarget")
    /\ IF q.t \in LiveTargets /\ (q.new.conn # q.old.conn => conn[q.new.conn])
       THEN /\ target' = [target EXCEPT ![q.t] = new]
            /\ raced' = IF target[q.t] # q.old THEN raced \cup {q.t} ELSE raced
            /\ AfterSave(p, new)
       ELSE End(p) /\ UNCHANGED <<target, raced>>
    /\ UNCHANGED <<conn, version, endpoint, persona, block, probed, late, asked, answered>>

\* verify_target from the API or the page; a disabled target is refused.
ApiVerify(p) ==
    \E t \in LiveTargets :
        /\ target[t].active
        /\ Begin(p, "verify", [Idle EXCEPT !.pc = "resolve", !.t = t, !.old = target[t],
                                           !.new = target[t]])

WebVerify(p) == ApiVerify(p)

\* The credentials are resolved, then the provider is called.
ResolveTarget(p) ==
    LET q == thread[p]
        found == IF q.old.conn # NoConn THEN conn[q.old.conn] ELSE SomeReady
    IN
    /\ At(p, "resolve")
    /\ \E ok \in {found, FALSE} :
         To(p, [q EXCEPT !.pc = "verdict", !.new.verified = ok])
    /\ UNCHANGED <<tables, history>>

\* The outcome is written to the row, if it is still there.
Verdict(p) ==
    LET q == thread[p] IN
    /\ At(p, "verdict")
    /\ IF q.t \in LiveTargets
       THEN /\ target' = [target EXCEPT ![q.t] = Flush(q.new, q.old, target[q.t])]
            /\ raced' = IF target[q.t] # q.old THEN raced \cup {q.t} ELSE raced
            /\ probed' = IF q.new.verified
                         THEN [probed EXCEPT ![q.t] = <<q.old.conn, q.old.model>>]
                         ELSE probed
            /\ IF q.op = "promote"
               THEN To(p, [q EXCEPT !.pc = "number", !.old = target'[q.t]])
               ELSE End(p)
       ELSE End(p) /\ UNCHANGED <<target, raced, probed>>
    /\ UNCHANGED <<conn, version, endpoint, persona, block, late, asked, answered>>

\* Mutant of InUse: only the active version is counted.
InUseActive(t) == endpoint.active # NoVersion /\ version[endpoint.active].target = t

InUse(t) == \E v \in LiveVersions : version[v].target = t

\* Deletion is refused while a version names the target.
ApiDeleteTarget(p) ==
    \E t \in LiveTargets :
        /\ ~InUse(t)
        /\ Begin(p, "delete", [Idle EXCEPT !.pc = "dropTarget", !.t = t])

WebDeleteTarget(p) == ApiDeleteTarget(p)

\* The row is deleted; versions that name it are set to NULL.
DropTarget(p) ==
    LET t == thread[p].t IN
    /\ At(p, "dropTarget") /\ End(p)
    /\ target' = [target EXCEPT ![t] = [FreeTarget EXCEPT !.live = "gone"]]
    /\ version' = [v \in Versions |-> IF version[v].target = t
                                      THEN [version[v] EXCEPT !.target = NoTarget]
                                      ELSE version[v]]
    /\ UNCHANGED <<conn, endpoint, persona, block, history>>

\* A connection is deleted (Connections!DeleteRow): targets lose it.
Disconnect(p) ==
    \E c \in Conns :
        /\ Request(p, "disconnect") /\ conn[c]
        /\ conn' = [conn EXCEPT ![c] = FALSE]
        /\ target' = [t \in Targets |-> IF target[t].conn = c
                                        THEN [target[t] EXCEPT !.conn = NoConn]
                                        ELSE target[t]]
        /\ raced' = raced \cup {t \in Targets : target[t].conn = c}
        /\ UNCHANGED <<version, endpoint, persona, block, probed, late, asked, answered>>

-----------------------------------------------------------------------------
(* Versions.                                                               *)

\* The endpoint has been read.
Asking(k, op) ==
    [Idle EXCEPT !.pc = "number", !.op = op, !.t = k.form.target, !.seen = endpoint.active,
                 !.model = k.form.model, !.pin = k.form.pin, !.persona = k.persona,
                 !.blocks = k.blocks]

ApiCreateVersion(p) ==
    \E k \in Asks : endpoint.live /\ Begin(p, "version", Asking(k, "api"))

\* update_prompt_by_endpoint creates a version and activates it.
ApiPrompt(p) ==
    \E k \in Asks : endpoint.live /\ Begin(p, "version", Asking(k, "prompt"))

\* The form has read the target and checked that it can be called.
WebCreateVersion(p) ==
    \E k \in Asks, auto \in BOOLEAN :
        /\ endpoint.live /\ Admitted(k.form)
        /\ Begin(p, "version",
                 [Asking(k, "form") EXCEPT
                    !.auto = auto, !.pin = PinOf(k.form),
                    !.old = IF k.form.target # NoTarget THEN target[k.form.target] ELSE FreeTarget])

\* Mutant of Candidates: any target with the model will do.
CandidatesAnyConnection(c, m) == {t \in LiveTargets : target[t].model = m}

\* The targets a promotion may use, a verified one first.
Candidates(c, m) ==
    LET found == {t \in LiveTargets : target[t].model = m /\ target[t].conn = c}
    IN {t \in found : target[t].verified \/ \A u \in found : ~target[u].verified}

\* test_lab_promote reads the live version and finds or creates a target.  Without
\* a connection and without a target the payload is invalid and the request fails.
Promote(p) ==
    \E c \in Conns \cup {NoConn}, m \in Models :
        LET from == version[endpoint.active]
            r == [Idle EXCEPT !.op = "promote", !.seen = endpoint.active, !.pin = from.pin,
                              !.persona = from.persona, !.new = Row(c, m, TRUE)]
        IN
        /\ endpoint.live /\ endpoint.active # NoVersion
        /\ c # NoConn => conn[c]
        /\ \/ \E t \in Candidates(c, m) :
                Begin(p, "promote", [r EXCEPT !.pc = "number", !.t = t, !.old = target[t]])
           \/ /\ Candidates(c, m) = {} /\ c # NoConn
              /\ \E t \in Targets :
                   /\ target[t].live = "free"
                   /\ Begin(p, "promote",
                            [r EXCEPT !.pc = "addTarget", !.t = t, !.verify = TRUE])

\* max(version) over the endpoint's versions, 0 when it has none.
Latest ==
    LET numbers == {0} \cup {version[v].n : v \in LiveVersions}
    IN CHOOSE n \in numbers : \A k \in numbers : k <= n

\* create_endpoint_version_record: the next number, the target, the persona.
Number(p) ==
    LET q == thread[p]
        row == IF q.op \in {"api", "prompt"} /\ q.t # NoTarget THEN target[q.t] ELSE q.old
    IN
    /\ At(p, "number")
    /\ IF q.t # NoTarget /\ ~(q.t \in LiveTargets /\ row.active)
       THEN End(p)
       ELSE To(p, [q EXCEPT !.pc = "insert", !.n = Latest + 1,
                            !.old = IF q.op = "promote" THEN row ELSE FreeTarget,
                            !.model = IF q.t # NoTarget THEN row.model ELSE q.model,
                            !.persona = IF Exists(q.persona) THEN q.persona ELSE NoPersona,
                            !.blocks = IF q.op = "promote" /\ q.seen \in LiveVersions
                                       THEN version[q.seen].blocks ELSE q.blocks])
    /\ UNCHANGED <<tables, history>>

\* Mutant of Accepted: the table has no unique constraint on the number.
AcceptedTwice(q) ==
    endpoint.live /\ (q.t # NoTarget => q.t \in LiveTargets) /\ Exists(q.persona)

\* The INSERT meets the foreign keys and uq_endpoint_version.
Accepted(q) ==
    /\ endpoint.live /\ (q.t # NoTarget => q.t \in LiveTargets) /\ Exists(q.persona)
    /\ \A v \in LiveVersions : version[v].n # q.n

InsertVersion(p) ==
    LET q == thread[p]
        dropping == {thread[o].t : o \in {o \in Threads : thread[o].pc = "dropTarget"}}
                    \cup {thread[o].persona : o \in {o \in Threads : thread[o].pc = "dropPersona"}}
        v == CHOOSE v \in Versions : version[v].live = "free"  \* a new identifier
    IN
    /\ At(p, "insert")
    /\ IF Accepted(q)
       THEN LET row == [live |-> "live", n |-> q.n, target |-> q.t, model |-> q.model,
                          pin |-> q.pin, persona |-> q.persona, blocks |-> {}]
              IN
              /\ \E u \in Versions : version[u].live = "free"
              /\ version' = [version EXCEPT ![v] = row]
              /\ asked' = [asked EXCEPT ![v] = [row EXCEPT !.blocks = q.blocks]]
              /\ late' = late \cup ({q.t, q.persona} \cap dropping)
              /\ To(p, [q EXCEPT !.pc = IF q.blocks # {} THEN "blocks" ELSE "auto", !.v = v,
                                 !.n = 0, !.persona = NoPersona])
       ELSE End(p) /\ UNCHANGED <<version, asked, late>>
    /\ UNCHANGED <<conn, target, endpoint, persona, block, probed, raced, answered>>

\* Mutant of Linkable: the test that skips unknown blocks is inverted.
LinkableInverted(B) == B \ LiveBlocks

\* The blocks asked for that exist.
Linkable(B) == B \cap LiveBlocks

ReadBlocks(p) ==
    /\ At(p, "blocks")
    /\ To(p, [thread[p] EXCEPT !.pc = "link", !.blocks = Linkable(thread[p].blocks)])
    /\ asked' = [asked EXCEPT ![thread[p].v].blocks = @ \cap LiveBlocks]
    /\ UNCHANGED <<tables, probed, raced, late, answered>>

\* The links are committed together; a block deleted meanwhile fails them all,
\* and the version stays.
LinkBlocks(p) ==
    LET q == thread[p] IN
    /\ At(p, "link")
    /\ IF q.v \in LiveVersions /\ q.blocks \subseteq LiveBlocks
       THEN /\ version' = [version EXCEPT ![q.v].blocks = q.blocks]
            /\ To(p, [q EXCEPT !.pc = "auto", !.blocks = {}])
       ELSE End(p) /\ UNCHANGED version
    /\ UNCHANGED <<conn, target, endpoint, persona, block, history>>

\* Mutant of Activates: a first version waits for an explicit activation.
ActivatesAsked(q) == q.auto \/ q.op = "promote"

\* The handler saw an endpoint without a version, or was asked to activate.
Activates(q) == q.seen = NoVersion \/ q.auto \/ q.op = "promote"

AutoActivate(p) ==
    LET q == thread[p]
        next == IF q.op = "prompt"
                THEN [q EXCEPT !.pc = "activate", !.seen = IF Activates(q) THEN q.v ELSE q.seen]
                ELSE Idle
    IN
    /\ At(p, "auto")
    /\ IF Activates(q) /\ ~endpoint.live
       THEN End(p) /\ UNCHANGED <<endpoint, answered>>
       ELSE /\ endpoint' = IF Activates(q)
                           THEN [endpoint EXCEPT !.active = Column(q.v, q.seen, @)]
                           ELSE endpoint
            /\ answered' = IF q.op = "prompt" THEN answered ELSE answered \cup {q.v}
            /\ To(p, next)
    /\ UNCHANGED <<conn, target, version, persona, block, probed, raced, late, asked>>

\* An explicit activation has read the endpoint and the version.
ApiActivate(p) ==
    \E v \in LiveVersions :
        /\ endpoint.live
        /\ Begin(p, "activate", [Idle EXCEPT !.pc = "activate", !.v = v,
                                             !.seen = endpoint.active])

WebActivate(p) == ApiActivate(p)

Activate(p) ==
    LET q == thread[p] IN
    /\ At(p, "activate") /\ End(p)
    /\ IF endpoint.live
       THEN /\ endpoint' = [endpoint EXCEPT !.active = Column(q.v, q.seen, @)]
            /\ answered' = IF q.op = "prompt" THEN answered \cup {q.v} ELSE answered
       ELSE UNCHANGED <<endpoint, answered>>
    /\ UNCHANGED <<conn, target, version, persona, block, probed, raced, late, asked>>

\* The endpoint and all its versions are deleted together.
DeleteEndpoint(p) ==
    /\ Request(p, "endpoint") /\ endpoint.live
    /\ endpoint' = [live |-> FALSE, active |-> NoVersion]
    /\ version' = [v \in Versions |-> IF version[v].live = "live"
                                      THEN [FreeVersion EXCEPT !.live = "gone"]
                                      ELSE version[v]]
    /\ UNCHANGED <<conn, target, persona, block, history>>

-----------------------------------------------------------------------------
(* Personas and context blocks.                                            *)

PersonaInUse(a) == \E v \in LiveVersions : version[v].persona = a

\* A persona and a block are created in one transaction.
ApiCreatePersona(p) ==
    \E a \in Personas :
        /\ Request(p, "parts") /\ persona[a] = "free"
        /\ persona' = [persona EXCEPT ![a] = "live"]
        /\ UNCHANGED <<conn, target, version, endpoint, block, history>>

WebCreatePersona(p) == ApiCreatePersona(p)

ApiCreateBlock(p) ==
    \E b \in Blocks :
        /\ Request(p, "parts") /\ block[b] = "free"
        /\ block' = [block EXCEPT ![b] = "live"]
        /\ UNCHANGED <<conn, target, version, endpoint, persona, history>>

WebCreateBlock(p) == ApiCreateBlock(p)

ApiDeletePersona(p) ==
    \E a \in Personas :
        /\ persona[a] = "live" /\ ~PersonaInUse(a)
        /\ Begin(p, "parts", [Idle EXCEPT !.pc = "dropPersona", !.persona = a])

WebDeletePersona(p) == ApiDeletePersona(p)

DropPersona(p) ==
    LET a == thread[p].persona IN
    /\ At(p, "dropPersona") /\ End(p)
    /\ persona' = [persona EXCEPT ![a] = "gone"]
    /\ version' = [v \in Versions |-> IF version[v].persona = a
                                      THEN [version[v] EXCEPT !.persona = NoPersona]
                                      ELSE version[v]]
    /\ UNCHANGED <<conn, target, endpoint, block, history>>

\* A block goes with its links, whatever versions use it.
ApiDeleteBlock(p) ==
    \E b \in LiveBlocks :
        /\ Request(p, "parts")
        /\ block' = [block EXCEPT ![b] = "gone"]
        /\ version' = [v \in Versions |-> [version[v] EXCEPT !.blocks = @ \ {b}]]
        /\ UNCHANGED <<conn, target, endpoint, persona, history>>

WebDeleteBlock(p) == ApiDeleteBlock(p)

\* The process dies: the open transaction is lost, what was committed stays.
Crash(p) ==
    /\ "crash" \in Faults /\ thread[p].pc # "idle" /\ UNCHANGED requests
    /\ End(p) /\ UNCHANGED <<tables, history>>

Next ==
    \E p \in Threads :
        \/ ApiCreateTarget(p) \/ WebCreateTarget(p) \/ InsertTarget(p)
        \/ ApiUpdateTarget(p) \/ WebUpdateTarget(p) \/ SaveTarget(p)
        \/ ApiVerify(p) \/ WebVerify(p) \/ ResolveTarget(p) \/ Verdict(p)
        \/ ApiDeleteTarget(p) \/ WebDeleteTarget(p) \/ DropTarget(p) \/ Disconnect(p)
        \/ ApiCreateVersion(p) \/ ApiPrompt(p) \/ WebCreateVersion(p) \/ Promote(p)
        \/ Number(p) \/ InsertVersion(p) \/ ReadBlocks(p) \/ LinkBlocks(p) \/ AutoActivate(p)
        \/ ApiActivate(p) \/ WebActivate(p) \/ Activate(p) \/ DeleteEndpoint(p)
        \/ ApiCreatePersona(p) \/ WebCreatePersona(p) \/ ApiDeletePersona(p)
        \/ WebDeletePersona(p) \/ DropPersona(p)
        \/ ApiCreateBlock(p) \/ WebCreateBlock(p) \/ ApiDeleteBlock(p) \/ WebDeleteBlock(p)
        \/ Crash(p)

Spec == Init /\ [][Next]_vars

-----------------------------------------------------------------------------
(* Properties.                                                             *)

\* The types of the variables.
TypeOK ==
    /\ conn \in [Conns -> BOOLEAN] /\ target \in [Targets -> Target]
    /\ version \in [Versions -> Version]
    /\ endpoint \in [live: BOOLEAN, active: Versions \cup {NoVersion}]
    /\ persona \in [Personas -> Life] /\ block \in [Blocks -> Life]
    /\ thread \in [Threads -> Thread]
    /\ raced \subseteq Targets /\ late \subseteq Targets \cup Personas
    /\ probed \in [Targets -> (Conns \cup {NoConn}) \X Models]
    /\ asked \in [Versions -> Version] /\ answered \subseteq Versions
    /\ requests \in 0..MaxRequests

\* The versions of an endpoint are numbered 1, 2, 3..., however many are created at
\* once; a created version has the blocks its creator asked for that still exist; and
\* an endpoint with a created version has one that is live.
NumbersAreDense ==
    {version[v].n : v \in LiveVersions} = 1..Cardinality(LiveVersions)
BlocksAreKept ==
    \A v \in answered \cap LiveVersions : version[v].blocks = asked[v].blocks \cap LiveBlocks
EndpointServes ==
    endpoint.active = NoVersion => answered \cap LiveVersions = {}
VersionsAreWhole == NumbersAreDense /\ BlocksAreKept /\ EndpointServes

\* A verified target answered with the connection and the model it has now, unless
\* two handlers wrote it over one another or its connection was deleted.
VerifiedMeansProbed ==
    \A t \in LiveTargets \ raced :
        target[t].verified => probed[t] = <<target[t].conn, target[t].model>>

\* A version loses the target or the persona it was created with only when it was
\* committed between the count and the commit of their deletion.
UnboundOnlyByRace ==
    \A v \in LiveVersions :
        /\ version[v].target # asked[v].target => asked[v].target \in late
        /\ version[v].persona # asked[v].persona => asked[v].persona \in late

\* A version promoted from a comparison is run with the connection and the model
\* that were compared, unless its target is changed before it goes live.
PromotedRunsWhatWasCompared ==
    [][\A p \in Threads :
         LET q == thread[p] IN
         /\ q.pc = "auto" /\ q.op = "promote" /\ endpoint'.active = q.v
         /\ q.t \in LiveTargets \ raced
         /\ target[q.t].conn = q.old.conn /\ target[q.t].model = q.old.model
         => Route(q.v) = <<q.new.conn, q.new.model>>]_vars

\* A draft run of the version form calls the connection and the model that a run of
\* the version created from the same form would call.
DraftRunsLikeTheVersion ==
    \A f \in Forms : Admitted(f) =>
        LET m == IF f.target # NoTarget THEN target[f.target].model ELSE f.model
        IN \A v \in LiveVersions :
             /\ version[v].target = f.target /\ version[v].model = m /\ asked[v].pin = PinOf(f)
             => DraftRoute(f) = Route(v)

\* Any configuration change invalidates the verification of a target.
VerifiedAsConfigured ==
    \A t \in LiveTargets : target[t].verified => probed[t] = <<target[t].conn, target[t].model>>
=============================================================================
