------------------------- MODULE ProviderCallProofs -------------------------
(***************************************************************************)
(* Theorems about ProviderCall for every catalog, every set of models,     *)
(* connections and versions.                                               *)
(*                                                                         *)
(* That the answer of a job is that of its last route follows from what    *)
(* the route loop keeps between two routes (LoopInv).  That a request      *)
(* drops what was refused, and no more, follows from RequestInv: the       *)
(* parameters still sent and those reported as dropped are together those  *)
(* the version asks for, and the loop has one round left for each          *)
(* parameter still sent and one to give up.  Which routes are tried is     *)
(* RouteInv: what was tried is the beginning of the candidates.            *)
(***************************************************************************)
EXTENDS ProviderCall, FiniteSetTheorems, SequenceTheorems, TLAPS

-----------------------------------------------------------------------------
(* The route loop.                                                         *)

LoopInv ==
    /\ \E T : attempted \in Seq(T)
    /\ errors = Len(attempted) - (IF pc \in {"request", "done"} THEN 1 ELSE 0)
    /\ pc \in {"start", "route", "request", "done", "failed"}
    /\ pc \in {"request", "done"} => attempted # <<>>
    /\ pc = "done" => text = Current /\ ~blocked
    /\ pc # "done" => (text # NoRoute => blocked)
    /\ pc = "failed" => Len(attempted) = Len(routes)

\* A route more leaves a sequence, one longer.
LEMMA AppendIsASequence ==
    ASSUME NEW s, \E T : s \in Seq(T), NEW r
    PROVE  /\ \E T : Append(s, r) \in Seq(T)
           /\ Len(s) \in Nat
           /\ Len(Append(s, r)) = Len(s) + 1
           /\ Append(s, r) # <<>>
           /\ Append(s, r)[Len(Append(s, r))] = r
<1>1. PICK T : s \in Seq(T)
    OBVIOUS
<1>2. s \in Seq(T \cup {r})
    BY <1>1, SeqMonotonic
<1>3. /\ Append(s, r) \in Seq(T \cup {r})
      /\ Len(s) \in Nat
      /\ Len(Append(s, r)) = Len(s) + 1
      /\ Append(s, r)[Len(s) + 1] = r
    BY <1>2
<1>4. Append(s, r) # <<>>
    BY <1>3
<1>5. \E U : Append(s, r) \in Seq(U)
    BY <1>3
<1>. QED
    BY <1>3, <1>4, <1>5

LEMMA LoopInvInit == Init => LoopInv
<1>. SUFFICES ASSUME Init PROVE LoopInv
    OBVIOUS
<1>1. <<>> \in Seq({})
    OBVIOUS
<1>. QED
    BY <1>1 DEF Init, LoopInv

LEMMA LoopInvStep == LoopInv /\ [Next]_vars => LoopInv'
<1>. SUFFICES ASSUME LoopInv, [Next]_vars PROVE LoopInv'
    OBVIOUS
<1>0. Len(attempted) \in Nat
    BY AppendIsASequence DEF LoopInv
<1>1. CASE Start
    BY <1>0, <1>1 DEF LoopInv, Start, Current
<1>2. CASE TryRoute
    <2>. DEFINE r == routes[Len(attempted) + 1]
    <2>1. attempted' = Append(attempted, r)
        BY <1>2 DEF TryRoute
    <2>2. /\ \E T : attempted' \in Seq(T)
          /\ Len(attempted') = Len(attempted) + 1
          /\ attempted' # <<>>
        BY <2>1, AppendIsASequence DEF LoopInv
    <2>. QED
        BY <1>0, <1>2, <2>2 DEF LoopInv, TryRoute
<1>3. CASE Exhausted
    BY <1>0, <1>3 DEF LoopInv, Exhausted
<1>4. CASE Answer
    BY <1>0, <1>4 DEF LoopInv, Answer, NextRoute, Current
<1>5. CASE Raise
    BY <1>0, <1>5 DEF LoopInv, Raise, NextRoute
<1>6. ASSUME NEW name \in Names, Refuse(name) PROVE LoopInv'
    BY <1>0, <1>6 DEF LoopInv, Refuse, NextRoute
<1>7. CASE UNCHANGED vars
    BY <1>7 DEF LoopInv, vars, Current
<1>. QED
    BY <1>1, <1>2, <1>3, <1>4, <1>5, <1>6, <1>7 DEF Next

LEMMA LoopInvAlways == Spec => []LoopInv
    BY LoopInvInit, LoopInvStep, PTL DEF Spec

\* What a job keeps is the text of the last route it tried, and is not blocked; it fails
\* only when every route failed (the route loop of process_job).
THEOREM TheAnswerIsTheLastRoutes == Spec => []ResultIsTheLastRoutes
<1>1. LoopInv => ResultIsTheLastRoutes
    BY AppendIsASequence DEF LoopInv, ResultIsTheLastRoutes
<1>. QED
    BY <1>1, LoopInvAlways, PTL

-----------------------------------------------------------------------------
(* The request loop.                                                       *)

RequestInv ==
    pc = "request" =>
        /\ params \subseteq Sent
        /\ removed \in Seq(Parameters)
        /\ ToSet(removed) = Sent \ params
        /\ IsInjective(removed)
        /\ \A p \in ToSet(removed) :
              \/ p \in LeftOut(Current)
              \/ \E name \in refused : p \in Normalized(name, params \cup {p})
        /\ tries = Cardinality(params) + 1

LEMMA ParametersAreFinite == IsFiniteSet(Parameters)
<1>. DEFINE A == {"temperature", "top_p", "frequency_penalty"}
            B == {"presence_penalty", "seed", "max_tokens"}
            C == {"max_output_tokens", "reasoning", "metadata"}
<1>1. \A x, y, z : IsFiniteSet({x, y, z})
    <2>. TAKE x, y, z
    <2>1. IsFiniteSet({x}) BY FS_Singleton
    <2>2. IsFiniteSet({x} \cup {y}) BY <2>1, FS_AddElement
    <2>3. IsFiniteSet({x} \cup {y} \cup {z}) BY <2>2, FS_AddElement
    <2>4. {x} \cup {y} \cup {z} = {x, y, z} OBVIOUS
    <2>. QED BY <2>3, <2>4
<1>2. IsFiniteSet(A) /\ IsFiniteSet(B) /\ IsFiniteSet(C)
    BY <1>1
<1>3. IsFiniteSet((A \cup B) \cup C)
    BY <1>2, FS_Union
<1>4. Parameters = (A \cup B) \cup C
    BY DEF Parameters
<1>. QED
    BY <1>3, <1>4

\* A request sends parameters of the catalog, and what the model's family refuses is
\* among them.
LEMMA SentIsFinite ==
    /\ Sent \subseteq Parameters
    /\ \A r : LeftOut(r) \subseteq Sent
    /\ \A ps : ps \subseteq Sent => IsFiniteSet(ps) /\ Cardinality(ps) \in Nat
<1>1. Sent \subseteq Parameters
    BY DEF Sent, ResponsesParams, ChatParams, Parameters
<1>2. \A r : LeftOut(r) \subseteq Sent
    BY DEF LeftOut, Incompatible
<1>3. ASSUME NEW ps, ps \subseteq Sent PROVE IsFiniteSet(ps) /\ Cardinality(ps) \in Nat
    <2>1. ps \in SUBSET Parameters
        BY <1>1, <1>3
    <2>. QED
        BY <2>1, ParametersAreFinite, FS_Subset, FS_CardinalityType
<1>. QED
    BY <1>1, <1>2, <1>3

\* A list of the distinct members of a finite set names each of them.
LEMMA ListOfASet ==
    ASSUME NEW S, IsFiniteSet(S), NEW f \in SetToSeqs(S)
    PROVE  f \in Seq(S) /\ ToSet(f) = S /\ IsInjective(f)
<1>. DEFINE n == Cardinality(S)
<1>1. n \in Nat
    BY FS_CardinalityType
<1>2. f \in [1..n -> S] /\ \A i, j \in 1..n : i # j => f[i] # f[j]
    BY DEF SetToSeqs
<1>3. f \in Seq(S)
    BY <1>1, <1>2
<1>4. IsInjective(f)
    BY <1>2 DEF IsInjective
<1>5. f \in Injection(1..n, S)
    BY <1>2, <1>4 DEF Injection
<1>6. Cardinality(1..n) = n
    BY <1>1, FS_Interval
<1>7. f \in Surjection(1..n, S)
    BY <1>5, <1>6, FS_Injection
<1>8. ToSet(f) = S
    BY <1>2, <1>7 DEF Surjection, ToSet
<1>. QED
    BY <1>3, <1>4, <1>8

\* A parameter that was not dropped before extends the list of those that were.
LEMMA AppendNew ==
    ASSUME NEW S, NEW s \in Seq(S), NEW p \in S, p \notin ToSet(s), IsInjective(s)
    PROVE  /\ Append(s, p) \in Seq(S)
           /\ ToSet(Append(s, p)) = ToSet(s) \cup {p}
           /\ IsInjective(Append(s, p))
<1>. DEFINE t == Append(s, p)
<1>1. /\ t \in Seq(S) /\ Len(s) \in Nat
      /\ DOMAIN s = 1..Len(s) /\ DOMAIN t = 1..(Len(s) + 1)
      /\ \A i \in 1..Len(s) : t[i] = s[i]
      /\ t[Len(s) + 1] = p
    OBVIOUS
<1>2. ToSet(t) = ToSet(s) \cup {p}
    <2>1. ToSet(t) \subseteq ToSet(s) \cup {p}
        BY <1>1 DEF ToSet
    <2>2. ToSet(s) \subseteq ToSet(t)
        BY <1>1 DEF ToSet
    <2>3. p \in ToSet(t)
        BY <1>1 DEF ToSet
    <2>. QED
        BY <2>1, <2>2, <2>3
<1>3. IsInjective(t)
    <2>. SUFFICES ASSUME NEW a \in DOMAIN t, NEW b \in DOMAIN t, t[a] = t[b] PROVE a = b
        BY DEF IsInjective
    <2>1. \A i \in 1..Len(s) : s[i] # p
        BY <1>1 DEF ToSet
    <2>. QED
        BY <1>1, <2>1 DEF IsInjective
<1>. QED
    BY <1>1, <1>2, <1>3

\* A name stands for parameters of the request, and for the same ones in a request that
\* still has them and fewer others.
LEMMA NormalizedIsSent ==
    ASSUME NEW name, NEW ps, NEW qs, qs \subseteq ps
    PROVE  /\ Normalized(name, ps) \subseteq ps
           /\ \A p \in Normalized(name, ps) : p \in Normalized(name, qs \cup {p})
<1>1. CASE name \in ps
    BY <1>1 DEF Normalized
<1>2. CASE name \notin ps
    <2>. SUFFICES ASSUME NEW p \in Normalized(name, ps)
                  PROVE  p \in ps /\ p \in Normalized(name, qs \cup {p})
        OBVIOUS
    <2>1. CASE name = "max_tokens"
        BY <1>2, <2>1, SubparameterAssumption DEF Normalized, Parameters
    <2>2. CASE name = "max_output_tokens"
        BY <1>2, <2>2, SubparameterAssumption DEF Normalized, Parameters
    <2>3. CASE name = Subparameter
        BY <1>2, <2>3, SubparameterAssumption DEF Normalized, Parameters
    <2>4. CASE name \notin {"max_tokens", "max_output_tokens", Subparameter}
        BY <1>2, <2>4 DEF Normalized
    <2>. QED
        BY <2>1, <2>2, <2>3, <2>4
<1>. QED
    BY <1>1, <1>2

\* A request of the next route starts with every parameter, or with a list of those that
\* the model refuses.
LEMMA TryRouteKeepsRequestInv ==
    ASSUME LoopInv, TryRoute
    PROVE  RequestInv'
<1>. SUFFICES ASSUME pc' = "request" PROVE RequestInv'
    BY DEF RequestInv
<1>. DEFINE r == routes[Len(attempted) + 1]
<1>1. /\ params' = Sent \ LeftOut(r)
      /\ removed' \in SetToSeqs(LeftOut(r))
      /\ tries' = Cardinality(Sent \ LeftOut(r)) + 1
      /\ Sent' = Sent
    BY DEF TryRoute, Reported, Sent
<1>2. LeftOut(Current)' = LeftOut(r)
    <2>1. attempted' = Append(attempted, r)
        BY DEF TryRoute
    <2>2. Append(attempted, r)[Len(Append(attempted, r))] = r
        BY AppendIsASequence DEF LoopInv
    <2>3. Current' = r
        BY <2>1, <2>2 DEF Current
    <2>. QED
        BY <1>1, <2>3 DEF LeftOut, TryRoute
<1>3. /\ IsFiniteSet(LeftOut(r)) /\ LeftOut(r) \subseteq Sent /\ Sent \subseteq Parameters
    BY SentIsFinite
<1>4. removed' \in Seq(LeftOut(r)) /\ ToSet(removed') = LeftOut(r) /\ IsInjective(removed')
    BY <1>1, <1>3, ListOfASet
<1>5. removed' \in Seq(Parameters)
    <2>1. LeftOut(r) \subseteq Parameters
        BY <1>3
    <2>. QED
        BY <1>4, <2>1, SeqMonotonic
<1>6. ToSet(removed') = Sent \ params'
    BY <1>1, <1>3, <1>4
<1>. QED
    BY <1>1, <1>2, <1>4, <1>5, <1>6 DEF RequestInv

LEMMA RefuseKeepsRequestInv ==
    ASSUME RequestInv, NEW name \in Names, Refuse(name)
    PROVE  RequestInv'
<1>. SUFFICES ASSUME pc' = "request" PROVE RequestInv'
    BY DEF RequestInv
<1>1. PICK p \in Normalized(name, params) :
          params' = params \ {p} /\ removed' = Append(removed, p)
    BY DEF Refuse, NextRoute
<1>2. /\ pc = "request" /\ refused' = refused \cup {name} /\ tries' = tries - 1
      /\ UNCHANGED <<version, responses, attempted>>
    BY DEF Refuse, NextRoute
<1>3. Sent' = Sent /\ \A q : (q \in LeftOut(Current))' <=> q \in LeftOut(Current)
    BY <1>2 DEF Sent, LeftOut, Current
<1>4. p \in params
    BY NormalizedIsSent
<1>5. p \in Parameters /\ p \notin ToSet(removed)
    BY <1>2, <1>4, SentIsFinite DEF RequestInv
<1>6. /\ removed' \in Seq(Parameters) /\ IsInjective(removed')
      /\ ToSet(removed') = ToSet(removed) \cup {p}
    BY <1>1, <1>2, <1>5, AppendNew DEF RequestInv
<1>7. params' \subseteq Sent /\ ToSet(removed') = Sent \ params'
    BY <1>1, <1>2, <1>4, <1>6 DEF RequestInv
<1>8. tries' = Cardinality(params') + 1
    <2>1. IsFiniteSet(params) /\ Cardinality(params) \in Nat
        BY <1>2, SentIsFinite DEF RequestInv
    <2>2. Cardinality(params \ {p}) = Cardinality(params) - 1
        BY <1>4, <2>1, FS_RemoveElement
    <2>. QED
        BY <1>1, <1>2, <2>1, <2>2 DEF RequestInv
<1>9. ASSUME NEW q \in ToSet(removed'), q \notin LeftOut(Current)
      PROVE  \E n \in refused' : q \in Normalized(n, params' \cup {q})
    <2>1. CASE q = p
        <3>1. params' \cup {q} = params
            BY <1>1, <1>4, <2>1
        <3>. QED
            BY <1>1, <1>2, <2>1, <3>1
    <2>2. CASE q # p
        <3>1. PICK n \in refused : q \in Normalized(n, params \cup {q})
            BY <1>2, <1>6, <1>9, <2>2 DEF RequestInv
        <3>2. params' \subseteq params \cup {q}
            BY <1>1
        <3>3. q \in Normalized(n, params' \cup {q})
            BY <3>1, <3>2, NormalizedIsSent
        <3>. QED
            BY <1>2, <3>3
    <2>. QED
        BY <2>1, <2>2
<1>. QED
    BY <1>2, <1>3, <1>6, <1>7, <1>8, <1>9 DEF RequestInv

LEMMA RequestInvInit == Init => RequestInv
    BY DEF Init, RequestInv

LEMMA RequestInvStep == LoopInv /\ RequestInv /\ [Next]_vars => RequestInv'
<1>. SUFFICES ASSUME LoopInv, RequestInv, [Next]_vars PROVE RequestInv'
    OBVIOUS
<1>1. CASE Start
    BY <1>1 DEF RequestInv, Start
<1>2. CASE TryRoute
    BY <1>2, TryRouteKeepsRequestInv
<1>3. CASE Exhausted
    BY <1>3 DEF RequestInv, Exhausted
<1>4. CASE Answer
    BY <1>4 DEF RequestInv, Answer, NextRoute
<1>5. CASE Raise
    BY <1>5 DEF RequestInv, Raise, NextRoute
<1>6. ASSUME NEW name \in Names, Refuse(name) PROVE RequestInv'
    BY <1>6, RefuseKeepsRequestInv
<1>7. CASE UNCHANGED vars
    <2>1. Sent' = Sent /\ LeftOut(Current)' = LeftOut(Current)
        BY <1>7 DEF vars, Sent, LeftOut, Current
    <2>. QED
        BY <1>7, <2>1 DEF RequestInv, vars, callVars
<1>. QED
    BY <1>1, <1>2, <1>3, <1>4, <1>5, <1>6, <1>7 DEF Next

\* Whatever names the provider gives: a request lacks the parameters reported as dropped
\* and no others, each is reported once and was refused, and a request that could still
\* drop one is always repeated (_run_responses_create and _run_chat_completions_create).
THEOREM WhatIsDroppedWasRefused == Spec => []DroppedWereRefused
<1>1. RequestInv => DroppedWereRefused
    BY DEF RequestInv, DroppedWereRefused
<1>. QED
    BY <1>1, LoopInvInit, LoopInvStep, RequestInvInit, RequestInvStep, PTL DEF Spec

-----------------------------------------------------------------------------
(* The routes.                                                             *)

LEMMA VersionTypes ==
    ASSUME NEW v \in Versions
    PROVE  /\ v.provider \in Supported \cup {Unsupported} /\ v.model \in Models
           /\ v.params \in SUBSET Parameters
           /\ v.targets \in Seq(FallbackTarget) /\ v.legacy \in Seq(Models)
           /\ v.limit \in Nat /\ v.target \in Route \cup {NoRoute}
           /\ v.targetConnection \in Connections \cup {NoConnection}
           /\ v.connection \in Connections \cup {NoConnection}
BY VersionsAssumption

LEMMA PrimaryIsARoute ==
    ASSUME NEW v \in Versions, NEW m \in Models \cup {Blank}
    PROVE  Primary(v) \in Supported /\ R(Primary(v), m) \in Route
BY ProvidersAssumption DEF Primary, R, Route

\* A place the fallbacks are taken from holds a route that the version lists, and two such
\* places hold different routes.
LEMMA TakenPlaces ==
    ASSUME NEW v \in Versions
    PROVE  /\ IsFiniteSet(Taken(v))
           /\ Taken(v) \subseteq DOMAIN Listed(v)
           /\ \A i \in Taken(v) : Listed(v)[i] \in Route \cap Allowed(v)
           /\ \A i, j \in Taken(v) : Listed(v)[i] = Listed(v)[j] => i = j
<1>. DEFINE n == Len(v.targets)
            m == Len(v.legacy)
            D == 1..(n + m)
            kept == {i \in DOMAIN Listed(v) : i <= n => Usable(v.targets[i])}
<1>1. n \in Nat /\ m \in Nat /\ DOMAIN v.targets = 1..n /\ DOMAIN v.legacy = 1..m
    BY VersionTypes
<1>2. DOMAIN Listed(v) = D
    BY DEF Listed
<1>3. Taken(v) \subseteq D
    BY <1>2 DEF Taken
<1>4. IsFiniteSet(Taken(v))
    <2>. HIDE DEF n, m
    <2>1. IsFiniteSet(D)
        <3>1. n + m \in Int
            BY <1>1
        <3>. QED
            BY <3>1, FS_Interval
    <2>. QED
        BY <1>3, <2>1, FS_Subset
<1>5. ASSUME NEW i \in Taken(v) PROVE Listed(v)[i] \in Route \cap Allowed(v)
    <2>1. v.enabled /\ i \in kept
        BY <1>5 DEF Taken
    <2>2. i \in D /\ (i <= n => Usable(v.targets[i]))
        BY <1>2, <2>1
    <2>3. CASE i <= n
        <3>1. i \in 1..n /\ v.targets[i] \in FallbackTarget /\ Usable(v.targets[i])
            BY <1>1, <2>2, <2>3, VersionTypes
        <3>2. Listed(v)[i] = Resolved(v, v.targets[i])
            BY <2>2, <2>3 DEF Listed
        <3>3. Resolved(v, v.targets[i]) \in Route
            BY <3>1, PrimaryIsARoute DEF Resolved, R, Route, FallbackTarget, Usable
        <3>4. Resolved(v, v.targets[i]) \in Allowed(v)
            BY <1>1, <2>1, <3>1 DEF Allowed
        <3>. QED
            BY <3>2, <3>3, <3>4
    <2>4. CASE ~(i <= n)
        <3>1. i - n \in 1..m
            <4>. HIDE DEF n, m
            <4>. QED
                BY <1>1, <2>2, <2>4
        <3>2. Listed(v)[i] = R(Primary(v), v.legacy[i - n])
            BY <2>2, <2>4 DEF Listed
        <3>3. v.legacy[i - n] \in Models
            BY <1>1, <3>1, VersionTypes
        <3>4. R(Primary(v), v.legacy[i - n]) \in Allowed(v)
            BY <1>1, <2>1, <3>1 DEF Allowed
        <3>. QED
            BY <3>2, <3>3, <3>4, PrimaryIsARoute
    <2>. QED
        BY <2>3, <2>4
<1>6. ASSUME NEW i \in Taken(v), NEW j \in Taken(v), Listed(v)[i] = Listed(v)[j]
      PROVE  i = j
    <2>1. /\ i \in kept /\ j \in kept
          /\ \A k \in kept : k < i => Listed(v)[k] # Listed(v)[i]
          /\ \A k \in kept : k < j => Listed(v)[k] # Listed(v)[j]
        BY DEF Taken
    <2>2. i \in Int /\ j \in Int
        <3>. HIDE DEF n, m
        <3>. QED
            BY <1>1, <1>3
    <2>3. ~(i < j) /\ ~(j < i)
        BY <1>6, <2>1
    <2>. QED
        BY <2>2, <2>3
<1>. QED
    BY <1>2, <1>3, <1>4, <1>5, <1>6

LEMMA OrdersAreAllowed ==
    ASSUME NEW v \in Versions, NEW f \in Orders(v)
    PROVE  f \in Seq(Route \cap Allowed(v)) /\ IsInjective(f)
<1>1. PICK g \in SetToSeqs(Taken(v)) : f = [k \in DOMAIN g |-> Listed(v)[g[k]]]
    BY DEF Orders
<1>2. g \in Seq(Taken(v)) /\ IsInjective(g)
    BY TakenPlaces, ListOfASet
<1>3. Len(g) \in Nat /\ DOMAIN g = 1..Len(g) /\ \A k \in 1..Len(g) : g[k] \in Taken(v)
    BY <1>2
<1>4. f \in [1..Len(g) -> Route \cap Allowed(v)]
    BY <1>1, <1>3, TakenPlaces
<1>5. f \in Seq(Route \cap Allowed(v))
    BY <1>3, <1>4
<1>6. IsInjective(f)
    <2>. SUFFICES ASSUME NEW a \in DOMAIN f, NEW b \in DOMAIN f, f[a] = f[b] PROVE a = b
        BY DEF IsInjective
    <2>1. a \in 1..Len(g) /\ b \in 1..Len(g)
        BY <1>4
    <2>2. f[a] = Listed(v)[g[a]] /\ f[b] = Listed(v)[g[b]]
        BY <1>1, <1>3, <2>1
    <2>3. g[a] = g[b]
        BY <1>3, <2>1, <2>2, TakenPlaces
    <2>. QED
        BY <1>2, <1>3, <2>1, <2>3 DEF IsInjective
<1>. QED
    BY <1>5, <1>6

\* The candidates of a version: its own route, then distinct routes it lists, no more than
\* its limit.
LEMMA CandidatesAreAllowed ==
    ASSUME NEW v \in Versions, NEW f \in Orders(v), NEW c, c = Candidates(v, f)
    PROVE  /\ c \in Seq(Route) /\ ToSet(c) \subseteq Allowed(v)
           /\ c # <<>> /\ Head(c) = R(Primary(v), v.model) /\ IsInjective(Tail(c))
           /\ v.limit # 0 => Len(c) <= v.limit
<1>. DEFINE first == R(Primary(v), v.model)
            all == <<first>> \o f
            n == Clamp(IF v.limit = 0 THEN Len(all) ELSE v.limit, 1, 25)
            len == IF n < Len(all) THEN n ELSE Len(all)
            A == Route \cap Allowed(v)
<1>1. f \in Seq(A) /\ IsInjective(f)
    BY OrdersAreAllowed
<1>2. first \in A
    BY VersionTypes, PrimaryIsARoute DEF Allowed
<1>3. /\ all \in Seq(A) /\ Len(f) \in Nat /\ Len(all) = 1 + Len(f)
      /\ all[1] = first /\ \A k \in 1..Len(f) : all[k + 1] = f[k]
    <2>. HIDE DEF first, A
    <2>1. <<first>> \in Seq(A) /\ Len(<<first>>) = 1 /\ <<first>>[1] = first
        BY <1>2
    <2>. QED
        BY <1>1, <2>1
<1>4. v.limit \in Nat
    BY VersionTypes
<1>5. /\ n \in Nat /\ n >= 1
      /\ v.limit # 0 => n <= v.limit
    <2>. HIDE DEF all
    <2>. QED
        BY <1>3, <1>4 DEF Clamp
<1>. HIDE DEF all, n, first, A
<1>6. len \in 1..Len(all) /\ len <= n
    BY <1>3, <1>5
<1>7. c = SubSeq(all, 1, len)
    BY DEF Candidates, all, n, first
<1>. HIDE DEF len
<1>8. /\ c \in Seq(A) /\ Len(c) = len /\ DOMAIN c = 1..len
      /\ \A i \in 1..len : c[i] = all[i]
    BY <1>3, <1>6, <1>7
<1>9. c # <<>> /\ Head(c) = first
    BY <1>3, <1>6, <1>8
<1>10. /\ Tail(c) \in Seq(A) /\ Len(Tail(c)) = len - 1
       /\ \A i \in 1..(len - 1) : Tail(c)[i] = c[i + 1]
    BY <1>6, <1>8, <1>9
<1>11. IsInjective(Tail(c))
    <2>. SUFFICES ASSUME NEW a \in DOMAIN Tail(c), NEW b \in DOMAIN Tail(c),
                         Tail(c)[a] = Tail(c)[b]
                  PROVE  a = b
        BY DEF IsInjective
    <2>1. a \in 1..(len - 1) /\ b \in 1..(len - 1)
        BY <1>6, <1>10
    <2>2. a + 1 \in 1..len /\ b + 1 \in 1..len /\ a \in 1..Len(f) /\ b \in 1..Len(f)
        BY <1>3, <1>6, <2>1
    <2>3. Tail(c)[a] = f[a] /\ Tail(c)[b] = f[b]
        BY <1>3, <1>8, <1>10, <2>1, <2>2
    <2>4. DOMAIN f = 1..Len(f)
        BY <1>1
    <2>. QED
        BY <1>1, <2>2, <2>3, <2>4 DEF IsInjective
<1>12. ToSet(c) \subseteq Allowed(v) /\ c \in Seq(Route)
    <2>1. ToSet(c) \subseteq A
        BY <1>8 DEF ToSet
    <2>2. c \in Seq(Route)
        <3>1. A \subseteq Route
            BY DEF A
        <3>. QED
            BY <1>8, <3>1, SeqMonotonic
    <2>. QED
        BY <2>1, <2>2 DEF A
<1>13. v.limit # 0 => Len(c) <= v.limit
    BY <1>4, <1>5, <1>6, <1>8
<1>. QED
    BY <1>9, <1>11, <1>12, <1>13 DEF first

\* What the route loop has tried is the beginning of the candidates of the version.
RouteInv ==
    /\ version \in Versions /\ responses \in BOOLEAN
    /\ pc = "start" => routes = <<>>
    /\ routes \in Seq(Route) /\ ToSet(routes) \subseteq Allowed(version)
    /\ routes # <<>> => /\ Head(routes) = R(Primary(version), version.model)
                        /\ IsInjective(Tail(routes))
    /\ version.limit # 0 => Len(routes) <= version.limit
    /\ attempted \in Seq(Route) /\ Len(attempted) <= Len(routes)
    /\ \A i \in 1..Len(attempted) : attempted[i] = routes[i]

LEMMA RouteInvInit == Init => RouteInv
<1>. SUFFICES ASSUME Init PROVE RouteInv
    OBVIOUS
<1>1. ToSet(<<>>) = {} /\ <<>> \in Seq(Route) /\ Len(<<>>) = 0
    BY DEF ToSet
<1>2. version.limit \in Nat
    BY VersionTypes DEF Init
<1>. QED
    BY <1>1, <1>2 DEF Init, RouteInv

LEMMA StartKeepsRouteInv ==
    ASSUME RouteInv, LoopInv, Start
    PROVE  RouteInv'
<1>1. PICK f \in Orders(version) : routes' = Candidates(version, f)
    BY DEF Start
<1>2. UNCHANGED <<version, responses, attempted>> /\ pc' = "route"
    BY DEF Start
<1>3. /\ routes' \in Seq(Route) /\ ToSet(routes') \subseteq Allowed(version)
      /\ Head(routes') = R(Primary(version), version.model) /\ IsInjective(Tail(routes'))
      /\ version.limit # 0 => Len(routes') <= version.limit
    BY <1>1, CandidatesAreAllowed DEF RouteInv
<1>4. Len(attempted) = 0
    BY DEF Start, RouteInv
<1>. QED
    BY <1>2, <1>3, <1>4 DEF RouteInv

LEMMA TryRouteKeepsRouteInv ==
    ASSUME RouteInv, TryRoute
    PROVE  RouteInv'
<1>. DEFINE n == Len(attempted)
            r == routes[n + 1]
<1>1. /\ n < Len(routes) /\ attempted' = Append(attempted, r)
      /\ UNCHANGED <<version, responses, routes>> /\ pc' # "start"
    BY DEF TryRoute
<1>2. n \in Nat /\ n + 1 \in 1..Len(routes)
    BY <1>1 DEF RouteInv
<1>3. r \in Route
    BY <1>2 DEF RouteInv
<1>4. /\ attempted' \in Seq(Route) /\ Len(attempted') = n + 1
      /\ \A i \in 1..n : attempted'[i] = attempted[i]
      /\ attempted'[n + 1] = r
    <2>. HIDE DEF r
    <2>. QED
        BY <1>1, <1>3 DEF RouteInv
<1>5. \A i \in 1..Len(attempted') : attempted'[i] = routes[i]
    BY <1>2, <1>4 DEF RouteInv
<1>. QED
    BY <1>1, <1>2, <1>4, <1>5 DEF RouteInv

LEMMA RouteInvStep == RouteInv /\ LoopInv /\ [Next]_vars => RouteInv'
<1>. SUFFICES ASSUME RouteInv, LoopInv, [Next]_vars PROVE RouteInv'
    OBVIOUS
<1>1. ASSUME UNCHANGED <<version, responses, routes, attempted>>, pc' = "start" => pc = "start"
      PROVE  RouteInv'
    BY <1>1 DEF RouteInv
<1>2. CASE Exhausted \/ Answer \/ Raise \/ \E name \in Names : Refuse(name)
    BY <1>1, <1>2 DEF Exhausted, Answer, Raise, Refuse, NextRoute
<1>3. CASE UNCHANGED vars
    BY <1>1, <1>3 DEF vars
<1>. QED
    BY <1>2, <1>3, StartKeepsRouteInv, TryRouteKeepsRouteInv DEF Next

LEMMA RouteInvAlways == Spec => [](RouteInv /\ LoopInv)
    BY LoopInvInit, LoopInvStep, RouteInvInit, RouteInvStep, PTL DEF Spec

\* The primary route is tried first, a fallback once and after every route before it
\* failed, none that the version does not list, and no more than its limit
\* (_candidate_routes, _parse_fallback_targets, the route loop of process_job).
THEOREM FallbacksAreInOrder == Spec => []FallbacksComeLast
<1>1. RouteInv /\ LoopInv => FallbacksComeLast
    <2>. SUFFICES ASSUME RouteInv, LoopInv PROVE FallbacksComeLast
        OBVIOUS
    <2>. DEFINE n == Len(attempted)
    <2>1. n \in Nat /\ Len(routes) \in Nat /\ n <= Len(routes)
        BY DEF RouteInv
    <2>2. IsPrefix(attempted, routes)
        <3>1. SubSeq(attempted, 1, n) = SubSeq(routes, 1, n)
            <4>1. /\ SubSeq(attempted, 1, n) = [i \in 1..n |-> attempted[i]]
                  /\ SubSeq(routes, 1, n) = [i \in 1..n |-> routes[i]]
                BY <2>1 DEF RouteInv
            <4>. QED
                BY <4>1 DEF RouteInv
        <3>. QED
            BY <2>1, <3>1 DEF IsPrefix
    <2>3. version.limit # 0 => n <= version.limit
        <3>1. version.limit \in Nat
            BY VersionTypes DEF RouteInv
        <3>. QED
            BY <2>1, <3>1 DEF RouteInv
    <2>. QED
        BY <2>2, <2>3 DEF FallbacksComeLast, RouteInv, LoopInv
<1>. QED
    BY <1>1, RouteInvAlways, PTL

-----------------------------------------------------------------------------
(* Types.                                                                  *)

CallTypes ==
    /\ connection \in Connections \cup {NoConnection}
    /\ params \subseteq Parameters /\ tries \in Nat /\ removed \in Seq(Parameters)
    /\ refused \subseteq Names /\ odd \in BOOLEAN
    /\ text \in Route \cup {NoRoute} /\ blocked \in BOOLEAN

LEMMA ConnectionTypes ==
    ASSUME NEW v \in Versions, NEW r
    PROVE  ConnectionFor(v, r) \in Connections \cup {NoConnection}
BY VersionTypes DEF ConnectionFor

LEMMA CallTypesStep ==
    CallTypes /\ RouteInv /\ LoopInv /\ RequestInv /\ [Next]_vars => CallTypes'
<1>. SUFFICES ASSUME CallTypes, RouteInv, LoopInv, RequestInv, [Next]_vars PROVE CallTypes'
    OBVIOUS
<1>1. <<>> \in Seq(Parameters)
    OBVIOUS
<1>2. ASSUME NextRoute, UNCHANGED <<text, blocked>> PROVE CallTypes'
    BY <1>1, <1>2 DEF CallTypes, NextRoute
<1>3. CASE Start \/ Exhausted
    BY <1>3 DEF CallTypes, Start, Exhausted, callVars
<1>4. CASE TryRoute
    <2>1. CASE UNCHANGED callVars
        BY <1>4, <2>1 DEF CallTypes, TryRoute, callVars
    <2>2. CASE pc' = "request"
        <3>1. RequestInv' /\ Sent' \subseteq Parameters
            <4>1. Sent' = Sent
                BY <1>4 DEF TryRoute, Sent
            <4>. QED
                BY <1>4, <4>1, TryRouteKeepsRequestInv, SentIsFinite
        <3>2. params' \subseteq Parameters /\ removed' \in Seq(Parameters)
            BY <2>2, <3>1 DEF RequestInv
        <3>3. PICK r : /\ params' = Sent \ LeftOut(r)
                       /\ tries' = Cardinality(Sent \ LeftOut(r)) + 1
                       /\ connection' = ConnectionFor(version, r)
                       /\ refused' = {} /\ odd' = TRUE /\ UNCHANGED <<text, blocked>>
            BY <1>4, <2>2 DEF TryRoute
        <3>4. tries' \in Nat
            BY <3>3, SentIsFinite
        <3>5. connection' \in Connections \cup {NoConnection}
            BY <3>3, ConnectionTypes DEF RouteInv
        <3>. QED
            BY <3>2, <3>3, <3>4, <3>5 DEF CallTypes
    <2>. QED
        BY <1>4, <2>1, <2>2 DEF TryRoute
<1>5. CASE Answer
    <2>1. Current \in Route
        <3>1. attempted # <<>> /\ attempted \in Seq(Route)
            BY <1>5 DEF Answer, LoopInv, RouteInv
        <3>2. Len(attempted) \in 1..Len(attempted)
            BY <3>1
        <3>. QED
            BY <3>1, <3>2 DEF Current
    <2>2. text' \in Route \cup {NoRoute} /\ blocked' \in BOOLEAN
        BY <1>5, <2>1 DEF Answer
    <2>3. CASE UNCHANGED callVars
        BY <2>2, <2>3 DEF CallTypes, callVars
    <2>4. CASE NextRoute
        BY <1>1, <2>2, <2>4 DEF CallTypes, NextRoute
    <2>. QED
        BY <1>5, <2>3, <2>4 DEF Answer
<1>6. CASE Raise
    BY <1>2, <1>6 DEF Raise
<1>7. ASSUME NEW name \in Names, Refuse(name) PROVE CallTypes'
    <2>1. CASE NextRoute
        BY <1>2, <1>7, <2>1 DEF Refuse
    <2>2. CASE ~NextRoute
        <3>1. PICK p \in Normalized(name, params) :
                  params' = params \ {p} /\ removed' = Append(removed, p)
            BY <1>7, <2>2 DEF Refuse
        <3>2. /\ refused' = refused \cup {name} /\ odd' = ~odd /\ tries' = tries - 1
              /\ tries # 1 /\ UNCHANGED <<connection, text, blocked>> /\ pc = "request"
            BY <1>7, <2>2 DEF Refuse
        <3>3. p \in Parameters
            BY <3>1, NormalizedIsSent DEF CallTypes
        <3>4. tries' \in Nat
            <4>1. Cardinality(params) \in Nat /\ tries = Cardinality(params) + 1
                BY <3>2, SentIsFinite DEF RequestInv
            <4>. QED
                BY <3>2, <4>1
        <3>. QED
            BY <1>7, <3>1, <3>2, <3>3, <3>4 DEF CallTypes
    <2>. QED
        BY <2>1, <2>2
<1>8. CASE UNCHANGED vars
    BY <1>8 DEF CallTypes, vars, callVars
<1>. QED
    BY <1>3, <1>4, <1>5, <1>6, <1>7, <1>8 DEF Next

\* Types: whatever the lists of a version hold, every route tried is of a provider of the
\* catalog, and every connection used is one of the tenant's, or none.
THEOREM TypeCorrect == Spec => []TypeOK
<1>1. Init => CallTypes
    <2>1. <<>> \in Seq(Parameters) /\ 0 \in Nat
        OBVIOUS
    <2>. QED
        BY <2>1 DEF Init, CallTypes
<1>2. CallTypes /\ RouteInv /\ LoopInv => TypeOK
    <2>. SUFFICES ASSUME CallTypes, RouteInv, LoopInv PROVE TypeOK
        OBVIOUS
    <2>1. errors \in Nat
        <3>1. Len(attempted) \in Nat /\ (attempted # <<>> => Len(attempted) > 0)
            BY DEF RouteInv
        <3>2. pc \in {"request", "done"} => attempted # <<>>
            BY DEF LoopInv
        <3>. QED
            BY <3>1, <3>2 DEF LoopInv
    <2>. QED
        BY <2>1 DEF CallTypes, RouteInv, LoopInv, TypeOK
<1>. QED
    BY <1>1, <1>2, CallTypesStep, LoopInvInit, LoopInvStep, RequestInvInit, RequestInvStep,
       RouteInvInit, RouteInvStep, PTL DEF Spec
=============================================================================
