---------------------------- MODULE ProviderCall ----------------------------
(***************************************************************************)
(* How a job gets its answer: the routes of its version are tried in       *)
(* order, each with the credentials of its connection, and on each route   *)
(* the request is repeated without a parameter that the provider says it   *)
(* does not support.                                                       *)
(*                                                                         *)
(* JobLifecycle has the same loops without their data, and below them the  *)
(* client's repetitions of one request, which are one request here.  The   *)
(* provider is external: it answers, refuses a parameter by some name, or  *)
(* fails, and an answer may contain a blocked phrase.                      *)
(***************************************************************************)
EXTENDS Naturals, Sequences, FiniteSets, SequencesExt

CONSTANTS
    Supported, OpenAI,      \* provider slugs of the catalog; "openai"
    Unsupported,            \* any other slug
    NoProvider,             \* a fallback target without a provider
    Models, Blank,          \* model names; the empty one
    Gpt5, Gpt51,            \* models named gpt-5*, of which gpt-5.1*
    Connections, NoConnection, \* provider_config_id; none
    ProviderOf,             \* the provider of each connection
    Versions,               \* endpoint versions of this instance
    Subparameter            \* a name "reasoning.*"

ASSUME ProvidersAssumption ==
    OpenAI \in Supported /\ Unsupported \notin Supported /\ NoProvider \notin Supported
ASSUME ModelsAssumption == Gpt51 \subseteq Gpt5 /\ Gpt5 \subseteq Models /\ Blank \notin Models
ASSUME ConnectionsAssumption ==
    NoConnection \notin Connections /\ ProviderOf \in [Connections -> Supported]

VARIABLES
    version,    \* the endpoint version: never changes
    responses,  \* whether the SDK has the Responses API: never changes
    routes,     \* candidate_routes
    attempted,  \* attempted_routes
    errors,     \* how many entries route_errors has
    pc,         \* where the job is
    connection, \* the connection the client was built from
    params,     \* request_params
    tries,      \* iterations of the request loop that are left
    removed,    \* removed
    refused,    \* history: what the provider refused on this route
    text,       \* the route the text, id and usage in hand came from
    blocked,    \* history: whether that text contains a blocked phrase
    odd         \* history: whether the requests on this route are odd in number; with it,
                \* the same request again is a step and not a stutter

callVars == <<connection, params, tries, removed, refused, odd>>
vars == <<version, responses, routes, attempted, errors, pc, callVars, text, blocked>>

-----------------------------------------------------------------------------
(* Versions and their routes.                                              *)

Parameters == {"temperature", "top_p", "frequency_penalty", "presence_penalty", "seed",
               "max_tokens", "max_output_tokens", "reasoning", "metadata"}
Names == Parameters \cup {Subparameter}

\* A request has no parameter by the name of a part of one.
ASSUME SubparameterAssumption == Subparameter \notin Parameters

Route == [provider: Supported, model: Models \cup {Blank}]
NoRoute == [provider |-> NoProvider, model |-> Blank]
R(p, m) == [provider |-> p, model |-> m]

\* A fallback target is a dictionary, or a text "provider/model" or "model".  A dictionary
\* without a model is skipped, and so is a provider out of the catalog.
FallbackTarget == [form: {"dict", "text"}, provider: Supported \cup {Unsupported, NoProvider},
                   model: Models \cup {Blank}]

\* What the rows of an endpoint version hold that the routes go by.
ASSUME VersionsAssumption ==
    Versions \subseteq
        [provider: Supported \cup {Unsupported}, model: Models, params: SUBSET Parameters,
         effortNone: BOOLEAN, enabled: BOOLEAN, targets: Seq(FallbackTarget),
         legacy: Seq(Models), random: BOOLEAN, limit: Nat, target: Route \cup {NoRoute},
         targetConnection: Connections \cup {NoConnection},
         connection: Connections \cup {NoConnection}]

Usable(t) == /\ t.provider # Unsupported
             /\ t.model # Blank \/ (t.form = "text" /\ t.provider # NoProvider)

\* Mutant of Primary: the provider is taken as it is.
PrimaryUnchecked(v) == v.provider

\* The version's provider, or OpenAI if it is out of the catalog.
Primary(v) == IF v.provider \in Supported THEN v.provider ELSE OpenAI

Resolved(v, t) == R(IF t.provider = NoProvider THEN Primary(v) ELSE t.provider, t.model)

\* Both lists, the legacy one last.
Listed(v) ==
    [i \in 1..(Len(v.targets) + Len(v.legacy)) |->
        IF i <= Len(v.targets) THEN Resolved(v, v.targets[i])
        ELSE R(Primary(v), v.legacy[i - Len(v.targets)])]

\* Where a fallback is taken from: the first place of the lists that has it.
Taken(v) ==
    LET kept == {i \in DOMAIN Listed(v) : i <= Len(v.targets) => Usable(v.targets[i])}
    IN IF v.enabled THEN {i \in kept : \A j \in kept : j < i => Listed(v)[j] # Listed(v)[i]}
       ELSE {}

\* The fallbacks, in the order of the lists; routing_strategy "random" shuffles them.
Orders(v) ==
    {[k \in DOMAIN g |-> Listed(v)[g[k]]] :
        g \in {g \in SetToSeqs(Taken(v)) :
                 v.random \/ \A j, k \in DOMAIN g : j < k => g[j] < g[k]}}

Clamp(n, low, high) == IF n < low THEN low ELSE IF n > high THEN high ELSE n

\* Mutant of Candidates: the limit is applied to the fallbacks alone.
CandidatesOffByOne(v, fallbacks) ==
    LET all == <<R(Primary(v), v.model)>> \o fallbacks
        n == Clamp(IF v.limit = 0 THEN Len(all) ELSE v.limit, 1, 25)
    IN  SubSeq(all, 1, IF n + 1 < Len(all) THEN n + 1 ELSE Len(all))

\* Without max_route_attempts, 0 here, as many as there are; never more than 25.
Candidates(v, fallbacks) ==
    LET all == <<R(Primary(v), v.model)>> \o fallbacks
        n == Clamp(IF v.limit = 0 THEN Len(all) ELSE v.limit, 1, 25)
    IN  SubSeq(all, 1, IF n < Len(all) THEN n ELSE Len(all))

\* The connection of the version's target if the route is the target's, the connection of
\* its parameters if the route has the version's provider, else the tenant's default.
ConnectionFor(v, r) ==
    IF v.target = r THEN v.targetConnection
    ELSE IF v.connection # NoConnection /\ r.provider = v.provider THEN v.connection
    ELSE NoConnection

-----------------------------------------------------------------------------
(* Parameters.                                                             *)

ResponsesParams(ps) == ps \cap {"temperature", "max_output_tokens", "top_p", "frequency_penalty",
                                "presence_penalty", "reasoning", "metadata"}

ChatParams(ps) ==
    (ps \cap {"temperature", "top_p", "frequency_penalty", "presence_penalty", "seed", "metadata"})
        \cup (IF ps \cap {"max_tokens", "max_output_tokens"} # {} THEN {"max_tokens"} ELSE {})

\* The gpt-5 family refuses sampling parameters, but for gpt-5.1 without reasoning.
Incompatible(v, m, ps) ==
    IF m \in Gpt5 /\ ~(m \in Gpt51 /\ v.effortNone /\ "reasoning" \in ps)
    THEN ps \cap {"temperature", "top_p"} ELSE {}

\* The parameter of the request that a name the provider gives stands for.
Normalized(name, ps) ==
    IF name \in ps THEN {name}
    ELSE CASE name = "max_tokens" -> ps \cap {"max_output_tokens"}
           [] name = "max_output_tokens" -> ps \cap {"max_tokens"}
           [] name = Subparameter -> ps \cap {"reasoning"}
           [] OTHER -> {}

-----------------------------------------------------------------------------

Init ==
    /\ version \in Versions
    /\ responses \in BOOLEAN
    /\ routes = <<>> /\ attempted = <<>> /\ errors = 0
    /\ pc = "start" /\ connection = NoConnection
    /\ params = {} /\ tries = 0 /\ removed = <<>> /\ refused = {} /\ odd = FALSE
    /\ text = NoRoute /\ blocked = FALSE

Current == attempted[Len(attempted)]

\* The parameters a request on route r starts from, and those left out beforehand.
Sent == IF responses THEN ResponsesParams(version.params) ELSE ChatParams(version.params)
LeftOut(r) == IF responses THEN Incompatible(version, r.model, Sent) ELSE {}

\* Mutant of Reported: what is left out beforehand is not reported.
ReportedNothing(r) == {<<>>}

\* What removed may start from.
Reported(r) == SetToSeqs(LeftOut(r))

Start ==
    /\ pc = "start"
    /\ \E fallbacks \in Orders(version) : routes' = Candidates(version, fallbacks)
    /\ pc' = "route"
    /\ UNCHANGED <<version, responses, attempted, errors, callVars, text, blocked>>

\* The next route: its credentials are resolved, the advisor is consulted and the client is
\* built.  Each may fail, and a connection of another provider always does.
TryRoute ==
    /\ pc = "route"
    /\ Len(attempted) < Len(routes)
    /\ LET r == routes[Len(attempted) + 1]
           c == ConnectionFor(version, r)
       IN  /\ attempted' = Append(attempted, r)
           /\ \/ /\ c # NoConnection => ProviderOf[c] = r.provider
                 /\ pc' = "request"
                 /\ connection' = c
                 /\ params' = Sent \ LeftOut(r)
                 /\ removed' \in Reported(r)
                 /\ tries' = Cardinality(Sent \ LeftOut(r)) + 1
                 /\ refused' = {}
                 /\ odd' = TRUE
                 /\ UNCHANGED errors
              \/ /\ errors' = errors + 1
                 /\ UNCHANGED <<pc, callVars>>
    /\ UNCHANGED <<version, responses, routes, text, blocked>>

Exhausted ==
    /\ pc = "route"
    /\ Len(attempted) = Len(routes)
    /\ pc' = "failed"
    /\ UNCHANGED <<version, responses, routes, attempted, errors, callVars, text, blocked>>

\* The request is over: its variables are not read again.
NextRoute ==
    /\ pc' = "route"
    /\ errors' = errors + 1
    /\ connection' = NoConnection
    /\ params' = {} /\ tries' = 0 /\ removed' = <<>> /\ refused' = {}
    /\ odd' = FALSE

\* Mutant of Answer: the route is kept although its text is blocked.
AnswerUnchecked ==
    /\ pc = "request"
    /\ text' = Current
    /\ blocked' \in BOOLEAN
    /\ pc' = "done"
    /\ UNCHANGED <<version, responses, routes, attempted, errors, callVars>>

Answer ==
    /\ pc = "request"
    /\ text' = Current
    /\ \/ blocked' = FALSE /\ pc' = "done" /\ UNCHANGED <<errors, callVars>>
       \/ blocked' = TRUE /\ NextRoute
    /\ UNCHANGED <<version, responses, routes, attempted>>

Raise ==
    /\ pc = "request"
    /\ NextRoute
    /\ UNCHANGED <<version, responses, routes, attempted, text, blocked>>

\* Mutant of Refuse: the name the provider gives is dropped from the request, in a loop
\* without a bound.
RefuseByName(name) ==
    /\ pc = "request"
    /\ IF Normalized(name, params) = {} THEN NextRoute
       ELSE /\ params' = params \ {name}
            /\ removed' = IF name \in params THEN Append(removed, name) ELSE removed
            /\ refused' = refused \cup {name}
            /\ odd' = ~odd
            /\ UNCHANGED <<pc, errors, connection, tries>>
    /\ UNCHANGED <<version, responses, routes, attempted, text, blocked>>

\* "Unsupported parameter: 'name'".  The request is repeated without it, unless the name
\* stands for no parameter of the request, or the loop is over.
Refuse(name) ==
    /\ pc = "request"
    /\ IF Normalized(name, params) = {} \/ tries = 1 THEN NextRoute
       ELSE /\ \E p \in Normalized(name, params) :
                  /\ params' = params \ {p}
                  /\ removed' = Append(removed, p)
            /\ refused' = refused \cup {name}
            /\ odd' = ~odd
            /\ tries' = tries - 1
            /\ UNCHANGED <<pc, errors, connection>>
    /\ UNCHANGED <<version, responses, routes, attempted, text, blocked>>

Ended == pc \in {"done", "failed"}

Next ==
    \/ Start \/ TryRoute \/ Exhausted \/ Answer \/ Raise
    \/ \E name \in Names : Refuse(name)

\* The worker runs until the job ends; the provider answers, or the client times out.
Fairness == WF_vars(Next)

Spec == Init /\ [][Next]_vars /\ Fairness

-----------------------------------------------------------------------------
(* Properties.                                                             *)

TypeOK ==
    /\ version \in Versions /\ responses \in BOOLEAN
    /\ routes \in Seq(Route) /\ attempted \in Seq(Route) /\ errors \in Nat
    /\ pc \in {"start", "route", "request", "done", "failed"}
    /\ connection \in Connections \cup {NoConnection}
    /\ params \subseteq Parameters /\ tries \in Nat
    /\ removed \in Seq(Parameters) /\ refused \subseteq Names
    /\ text \in Route \cup {NoRoute} /\ blocked \in BOOLEAN /\ odd \in BOOLEAN

\* The routes a version may reach: its own, and with enable_fallbacks those it lists.
Allowed(v) ==
    {R(Primary(v), v.model)} \cup
    IF ~v.enabled THEN {}
    ELSE {Resolved(v, v.targets[i]) : i \in {j \in DOMAIN v.targets : Usable(v.targets[j])}}
         \cup {R(Primary(v), v.legacy[i]) : i \in DOMAIN v.legacy}

\* The primary route comes first, a fallback is tried once, and only if every route before
\* it failed or gave a blocked text; no more routes are tried than max_route_attempts says
\* (docs/provider-catalog.md, _candidate_routes and the route loop of process_job).
FallbacksComeLast ==
    /\ ToSet(routes) \subseteq Allowed(version)
    /\ IsPrefix(attempted, routes)
    /\ routes # <<>> => /\ Head(routes) = R(Primary(version), version.model)
                        /\ IsInjective(Tail(routes))
    /\ version.limit # 0 => Len(attempted) <= version.limit
    /\ errors = Len(attempted) - (IF pc \in {"request", "done"} THEN 1 ELSE 0)

\* What a job keeps is the text of the route it reports, the last one tried, and is not
\* blocked; a job fails only when no route is left, whatever blocked text is in hand.
ResultIsTheLastRoutes ==
    /\ pc = "done" => text = Current /\ ~blocked
    /\ pc = "failed" => errors = Len(routes) /\ (text # NoRoute => blocked)

\* The request is what the version asks for but for the parameters that are reported as
\* dropped, each once, and each because the model's family or the provider, on this route,
\* refuses it: under that name, its alias, or a part of it.  A request that could still
\* drop a parameter is always repeated.
DroppedWereRefused ==
    pc = "request" =>
        /\ ToSet(removed) = Sent \ params /\ IsInjective(removed)
        /\ \A p \in ToSet(removed) :
              \/ p \in LeftOut(Current)
              \/ \E name \in refused : p \in Normalized(name, params \cup {p})
        /\ tries = Cardinality(params) + 1

\* Every job ends, however the provider refuses its parameters.
JobEnds == <>Ended
=============================================================================
