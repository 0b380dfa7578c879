--------------------------- MODULE DeploymentsProofs ---------------------------
(***************************************************************************)
(* Theorems about Deployments for every set of connections, models,        *)
(* deployments, versions, personas, context blocks and handlers, every     *)
(* database that meets StartsAssumption, every subset of the operations    *)
(* and faults and every bound.                                             *)
(*                                                                         *)
(* Sixteen requests start a handler: Started says what they leave in it.   *)
(* TypeInv holds the types, what a point of a handler says of its fields,  *)
(* and the numbers of the versions.  VersionSteps sorts the steps by what  *)
(* they do to versions, and the other invariants follow what is created to *)
(* its end: what the endpoint serves (ServeInv), the blocks of a version   *)
(* (BlockInv), its target, persona and pin (RaceInv), and the deployment a *)
(* promotion has picked (PromoteInv).                                      *)
(***************************************************************************)
EXTENDS Deployments, FiniteSetTheorems, TLAPS

-----------------------------------------------------------------------------
(* Types.                                                                  *)

\* The points at which a handler has committed a version and not yet activated it.
Made == {"blocks", "link", "auto"}

HandlerOK(h) ==
    /\ h \in Thread
    /\ h.pc = "addTarget" =>
          h.t \in Targets /\ h.new.conn \in Conns /\ h.new.live = "live" /\ ~h.new.verified
    /\ h.pc = "saveTarget" => h.t \in Targets /\ (h.new.conn # h.old.conn => h.new.conn \in Conns)
    /\ h.pc = "resolve" => h.t \in Targets /\ h.new = h.old
    /\ h.pc = "verdict" => h.t \in Targets /\ h.new.conn = h.old.conn /\ h.new.model = h.old.model
    /\ h.pc = "dropTarget" => h.t \in Targets
    /\ h.pc = "dropPersona" => h.persona \in Personas
    /\ h.pc \in Made \cup {"activate"} => h.v \in Versions
    /\ h.op = "promote" => /\ h.pc \in Made \cup {"addTarget", "resolve", "verdict", "number", "insert"}
                           /\ h.t \in Targets

\* The number of a version that is about to be created is taken or the next.
NumberOK(h) == h.pc = "insert" /\ endpoint.live => h.n \in 1 .. 1 + Cardinality(LiveVersions)

TypeInv ==
    /\ TypeOK /\ NumbersAreDense
    /\ \A p \in Threads : HandlerOK(thread[p]) /\ NumberOK(thread[p])

\* What a request leaves in the handler h.
Started(h) ==
    /\ HandlerOK(h)
    /\ h.pc \in {"addTarget", "saveTarget", "resolve", "dropTarget", "number", "activate", "dropPersona"}
    /\ h.seen \in {NoVersion, endpoint.active}
    /\ h.pc = "dropTarget" => ~InUse(h.t)
    /\ h.pc = "dropPersona" => ~PersonaInUse(h.persona)
    /\ h.pc = "activate" => h.op # "prompt"
    /\ h.op = "promote" /\ h.pc = "number" => h.old.conn = h.new.conn /\ h.old.model = h.new.model

Asked(p) == \E op \in Ops : \E h : Started(h) /\ Begin(p, op, h)

LEMMA RowTypes ==
    /\ FreeTarget \in Target /\ FreeVersion \in Version
    /\ \A c \in Conns \cup {NoConn}, m \in Models, a \in BOOLEAN :
          Row(c, m, a) \in Target /\ Row(c, m, a).conn = c /\ Row(c, m, a).model = m
          /\ Row(c, m, a).live = "live" /\ Row(c, m, a).verified = FALSE
<1>1. AnyModel \in Models
    BY DeploymentsAssumption DEF AnyModel
<1>. QED
    BY <1>1 DEF FreeTarget, FreeVersion, Row, Target, Version, Life

LEMMA IdleOK == HandlerOK(Idle) /\ Idle.pc = "idle" /\ Idle.op = "none" /\ Idle.seen = NoVersion
<1>1. AnyModel \in Models
    BY DeploymentsAssumption DEF AnyModel
<1>2. Idle \in Thread
    BY <1>1, RowTypes DEF Idle, Thread
<1>. QED
    BY <1>2 DEF HandlerOK, Made, Idle

LEMMA FlushType ==
    ASSUME NEW new \in Target, NEW old \in Target, NEW stored \in Target
    PROVE  /\ Flush(new, old, stored) \in Target /\ Flush(new, old, stored).live = stored.live
           /\ Saved(new, old) \in Target /\ Saved(new, old).conn = new.conn
           /\ ~Saved(new, old).verified
           /\ stored = old => /\ Flush(new, old, stored).conn = new.conn
                              /\ Flush(new, old, stored).model = new.model
                              /\ Flush(new, old, stored).active = new.active
                              /\ Flush(new, old, stored).verified = new.verified
    BY DEF Flush, Saved, Column, Target

LEMMA FormType ==
    ASSUME NEW k \in Asks
    PROVE  /\ k.form.target \in Targets \cup {NoTarget} /\ k.form.model \in Models
           /\ k.form.pin \in Conns \cup {NoConn} /\ PinOf(k.form) \in Conns \cup {NoConn}
           /\ k.persona \in Personas \cup {NoPersona} /\ k.blocks \in SUBSET Blocks
    BY StartsAssumption DEF Forms, PinOf

LEMMA NewRequest ==
    ASSUME TypeInv, NEW p \in Threads,
           \/ ApiCreateTarget(p) \/ WebCreateTarget(p) \/ ApiUpdateTarget(p) \/ WebUpdateTarget(p)
           \/ ApiVerify(p) \/ WebVerify(p) \/ ApiDeleteTarget(p) \/ WebDeleteTarget(p)
           \/ ApiCreateVersion(p) \/ ApiPrompt(p) \/ WebCreateVersion(p) \/ Promote(p)
           \/ ApiActivate(p) \/ WebActivate(p) \/ ApiDeletePersona(p) \/ WebDeletePersona(p)
    PROVE  Asked(p)
<1>0. /\ \A t \in Targets : target[t] \in Target
      /\ endpoint.active \in Versions \cup {NoVersion}
      /\ \A v \in Versions : version[v] \in Version
      /\ Idle \in Thread /\ FreeTarget \in Target
    BY IdleOK, RowTypes DEF TypeInv, TypeOK, HandlerOK
<1>1. ASSUME NEW verify \in BOOLEAN, Creating(p, verify)
      PROVE  Asked(p)
    <2>1. PICK t \in Targets, c \in Conns, m \in Models, a \in BOOLEAN :
              Begin(p, "target", [Idle EXCEPT !.pc = "addTarget", !.t = t, !.verify = verify,
                                              !.new = Row(c, m, a)])
        BY <1>1, Zenon DEF Creating
    <2>. DEFINE h == [Idle EXCEPT !.pc = "addTarget", !.t = t, !.verify = verify, !.new = Row(c, m, a)]
    <2>2. h \in Thread
        BY <1>0, RowTypes DEF Thread
    <2>3. /\ h.pc = "addTarget" /\ h.t = t /\ h.new = Row(c, m, a) /\ h.op = "none"
          /\ h.seen = NoVersion
        BY DEF Idle
    <2>. HIDE DEF h
    <2>4. Started(h)
        BY <2>2, <2>3, RowTypes DEF Started, HandlerOK, Made
    <2>. QED
        BY <2>1, <2>4 DEF Asked, Begin, h
<1>2. CASE ApiCreateTarget(p) \/ WebCreateTarget(p)
    BY <1>1, <1>2 DEF ApiCreateTarget, WebCreateTarget
<1>3. ASSUME NEW t \in LiveTargets, NEW row \in Target, NEW verify \in BOOLEAN,
             row.conn # target[t].conn => row.conn \in Conns,
             Updating(p, t, row, verify)
      PROVE  Asked(p)
    <2>. DEFINE h == [Idle EXCEPT !.pc = "saveTarget", !.t = t, !.verify = verify,
                                  !.old = target[t], !.new = row]
    <2>1. h \in Thread
        BY <1>0 DEF Thread, LiveTargets
    <2>2. /\ h.pc = "saveTarget" /\ h.t = t /\ h.new = row /\ h.old = target[t] /\ h.op = "none"
          /\ h.seen = NoVersion
        BY DEF Idle
    <2>3. Begin(p, "update", h) /\ "update" \in Ops
        BY <1>3 DEF Updating, Begin
    <2>. HIDE DEF h
    <2>4. Started(h)
        BY <1>3, <2>1, <2>2 DEF Started, HandlerOK, Made, LiveTargets
    <2>. QED
        BY <2>3, <2>4 DEF Asked
<1>4. CASE ApiUpdateTarget(p) \/ WebUpdateTarget(p)
    <2>1. \A t \in LiveTargets : t \in Targets /\ target[t].conn \in Conns \cup {NoConn}
                                 /\ target[t].model \in Models
        BY <1>0 DEF LiveTargets, Target
    <2>2. CASE ApiUpdateTarget(p)
        <3>1. PICK t \in LiveTargets, a \in BOOLEAN :
                 \/ \E c \in Conns : conn[c] /\ Updating(p, t, Row(c, target[t].model, a), FALSE)
                 \/ \E m \in Models : Updating(p, t, Row(target[t].conn, m, a), FALSE)
            BY <2>2 DEF ApiUpdateTarget
        <3>2. /\ \A c \in Conns : /\ Row(c, target[t].model, a) \in Target
                                  /\ Row(c, target[t].model, a).conn = c
              /\ \A m \in Models : /\ Row(target[t].conn, m, a) \in Target
                                   /\ Row(target[t].conn, m, a).conn = target[t].conn
            BY <2>1, RowTypes
        <3>. QED
            BY <1>3, <3>1, <3>2
    <2>3. CASE WebUpdateTarget(p)
        <3>1. PICK t \in LiveTargets, c \in Conns, m \in Models, a \in BOOLEAN, verify \in BOOLEAN :
                 Updating(p, t, Row(c, m, a), verify)
            BY <2>3 DEF WebUpdateTarget
        <3>. QED
            BY <1>3, <3>1, RowTypes
    <2>. QED
        BY <1>4, <2>2, <2>3
<1>5. CASE ApiVerify(p) \/ WebVerify(p)
    <2>1. PICK t \in LiveTargets :
              Begin(p, "verify", [Idle EXCEPT !.pc = "resolve", !.t = t, !.old = target[t],
                                              !.new = target[t]])
        BY <1>5, Zenon DEF ApiVerify, WebVerify
    <2>. DEFINE h == [Idle EXCEPT !.pc = "resolve", !.t = t, !.old = target[t], !.new = target[t]]
    <2>2. h \in Thread /\ t \in Targets
        BY <1>0 DEF Thread, LiveTargets
    <2>3. h.pc = "resolve" /\ h.t = t /\ h.new = h.old /\ h.op = "none" /\ h.seen = NoVersion
        BY DEF Idle
    <2>. HIDE DEF h
    <2>4. Started(h)
        BY <2>2, <2>3 DEF Started, HandlerOK, Made
    <2>. QED
        BY <2>1, <2>4 DEF Asked, Begin, h
<1>6. CASE ApiDeleteTarget(p) \/ WebDeleteTarget(p)
    <2>1. PICK t \in LiveTargets :
              ~InUse(t) /\ Begin(p, "delete", [Idle EXCEPT !.pc = "dropTarget", !.t = t])
        BY <1>6, Zenon DEF ApiDeleteTarget, WebDeleteTarget
    <2>. DEFINE h == [Idle EXCEPT !.pc = "dropTarget", !.t = t]
    <2>2. h \in Thread /\ t \in Targets
        BY <1>0 DEF Thread, LiveTargets
    <2>3. h.pc = "dropTarget" /\ h.t = t /\ h.op = "none" /\ h.seen = NoVersion
        BY DEF Idle
    <2>. HIDE DEF h
    <2>4. Started(h)
        BY <2>1, <2>2, <2>3 DEF Started, HandlerOK, Made
    <2>. QED
        BY <2>1, <2>4 DEF Asked, Begin, h
<1>7. ASSUME NEW h, h \in Thread, h.pc = "number", h.op \in {"api", "form", "prompt"},
             h.seen = endpoint.active, Begin(p, "version", h)
      PROVE  Asked(p)
    <2>1. Started(h)
        BY <1>7 DEF Started, HandlerOK, Made
    <2>. QED
        BY <1>7, <2>1 DEF Asked, Begin
<1>8. ASSUME NEW k \in Asks, NEW op \in {"api", "form", "prompt"}
      PROVE  /\ Asking(k, op) \in Thread /\ Asking(k, op).pc = "number" /\ Asking(k, op).op = op
             /\ Asking(k, op).seen = endpoint.active
    <2>1. Asking(k, op).pc = "number" /\ Asking(k, op).op = op /\ Asking(k, op).seen = endpoint.active
        BY DEF Asking, Idle
    <2>. DEFINE a == k.form.target  m == k.form.model  c == k.form.pin  q == k.persona  B == k.blocks
    <2>2. /\ a \in Targets \cup {NoTarget} /\ m \in Models /\ c \in Conns \cup {NoConn}
          /\ q \in Personas \cup {NoPersona} /\ B \in SUBSET Blocks
        BY FormType
    <2>3. Asking(k, op) = [Idle EXCEPT !.pc = "number", !.op = op, !.t = a, !.seen = endpoint.active,
                                       !.model = m, !.pin = c, !.persona = q, !.blocks = B]
        BY DEF Asking
    <2>. HIDE DEF a, m, c, q, B
    <2>4. Asking(k, op) \in Thread
        BY <1>0, <2>2, <2>3, ZenonT(40) DEF Thread
    <2>. QED
        BY <2>1, <2>4
<1>9. CASE ApiCreateVersion(p) \/ ApiPrompt(p) \/ WebCreateVersion(p)
    <2>1. CASE ApiCreateVersion(p) \/ ApiPrompt(p)
        BY <1>7, <1>8, <2>1 DEF ApiCreateVersion, ApiPrompt
    <2>2. CASE WebCreateVersion(p)
        <3>1. PICK k \in Asks, auto \in BOOLEAN :
                 Begin(p, "version",
                    [Asking(k, "form") EXCEPT
                       !.auto = auto, !.pin = PinOf(k.form),
                       !.old = IF k.form.target # NoTarget THEN target[k.form.target] ELSE FreeTarget])
            BY <2>2, Zenon DEF WebCreateVersion
        <3>0. PICK g : g = Asking(k, "form")
            OBVIOUS
        <3>. DEFINE c == PinOf(k.form)
                    o == IF k.form.target # NoTarget THEN target[k.form.target] ELSE FreeTarget
                    h == [g EXCEPT !.auto = auto, !.pin = c, !.old = o]
        <3>2. o \in Target /\ c \in Conns \cup {NoConn}
            BY <1>0, FormType
        <3>3. Begin(p, "version", h)
            BY <3>0, <3>1
        <3>. HIDE DEF o, c
        <3>4. h \in Thread /\ h.pc = "number" /\ h.op = "form" /\ h.seen = endpoint.active
            <4>1. g \in Thread /\ g.pc = "number" /\ g.op = "form" /\ g.seen = endpoint.active
                BY <1>8, <3>0
            <4>. QED
                BY <3>2, <4>1, ZenonT(40) DEF Thread
        <3>. HIDE DEF h
        <3>. QED
            BY <1>7, <3>3, <3>4
    <2>. QED
        BY <1>9, <2>1, <2>2
<1>10. CASE Promote(p)
    <2>. DEFINE from == version[endpoint.active]
    <2>1. PICK c \in Conns \cup {NoConn}, m \in Models :
            LET r == [Idle EXCEPT !.op = "promote", !.seen = endpoint.active, !.pin = from.pin,
                              !.persona = from.persona, !.new = Row(c, m, TRUE)]
            IN
            /\ endpoint.active # NoVersion
            /\ \/ \E t \in Candidates(c, m) :
                    Begin(p, "promote", [r EXCEPT !.pc = "number", !.t = t, !.old = target[t]])
               \/ /\ c # NoConn
                  /\ \E t \in Targets :
                       Begin(p, "promote",
                            [r EXCEPT !.pc = "addTarget", !.t = t, !.verify = TRUE])
        BY <1>10, Zenon DEF Promote
    <2>. DEFINE r == [Idle EXCEPT !.op = "promote", !.seen = endpoint.active, !.pin = from.pin,
                                  !.persona = from.persona, !.new = Row(c, m, TRUE)]
    <2>2. r \in Thread
        BY <1>0, <2>1, RowTypes, Zenon DEF Thread, Version
    <2>3. r.op = "promote" /\ r.seen = endpoint.active /\ r.new = Row(c, m, TRUE)
        BY DEF Idle
    <2>. HIDE DEF r
    <2>0. /\ Row(c, m, TRUE).conn = c /\ Row(c, m, TRUE).model = m
          /\ Row(c, m, TRUE).live = "live" /\ Row(c, m, TRUE).verified = FALSE
        BY RowTypes
    <2>4. CASE \E t \in Candidates(c, m) :
                    Begin(p, "promote", [r EXCEPT !.pc = "number", !.t = t, !.old = target[t]])
        <3>1. PICK t \in Candidates(c, m) :
                    Begin(p, "promote", [r EXCEPT !.pc = "number", !.t = t, !.old = target[t]])
            BY <2>4, Zenon
        <3>. DEFINE h == [r EXCEPT !.pc = "number", !.t = t, !.old = target[t]]
        <3>2. t \in Targets /\ target[t].conn = c /\ target[t].model = m
            BY DEF Candidates, LiveTargets
        <3>3. h \in Thread
            BY <1>0, <2>2, <3>2 DEF Thread
        <3>4. /\ h.pc = "number" /\ h.op = "promote" /\ h.t = t /\ h.old = target[t]
              /\ h.new = Row(c, m, TRUE) /\ h.seen = endpoint.active
            BY <2>2, <2>3 DEF Thread
        <3>. HIDE DEF h
        <3>5. Started(h)
            BY <2>0, <3>2, <3>3, <3>4 DEF Started, HandlerOK, Made
        <3>. QED
            BY <3>1, <3>5 DEF Asked, Begin, h
    <2>5. CASE /\ c # NoConn
               /\ \E t \in Targets :
                    Begin(p, "promote", [r EXCEPT !.pc = "addTarget", !.t = t, !.verify = TRUE])
        <3>1. PICK t \in Targets :
                    Begin(p, "promote", [r EXCEPT !.pc = "addTarget", !.t = t, !.verify = TRUE])
            BY <2>5, Zenon
        <3>. DEFINE h == [r EXCEPT !.pc = "addTarget", !.t = t, !.verify = TRUE]
        <3>2. h \in Thread
            BY <1>0, <2>2 DEF Thread
        <3>3. /\ h.pc = "addTarget" /\ h.op = "promote" /\ h.t = t
              /\ h.new = Row(c, m, TRUE) /\ h.seen = endpoint.active
            BY <2>2, <2>3 DEF Thread
        <3>. HIDE DEF h
        <3>4. Started(h)
            BY <2>0, <2>5, <3>2, <3>3 DEF Started, HandlerOK, Made
        <3>. QED
            BY <3>1, <3>4 DEF Asked, Begin, h
    <2>. QED
        BY <2>1, <2>4, <2>5, Zenon DEF r
<1>11. CASE ApiActivate(p) \/ WebActivate(p)
    <2>1. PICK v \in LiveVersions :
              Begin(p, "activate", [Idle EXCEPT !.pc = "activate", !.v = v, !.seen = endpoint.active])
        BY <1>11, Zenon DEF ApiActivate, WebActivate
    <2>. DEFINE h == [Idle EXCEPT !.pc = "activate", !.v = v, !.seen = endpoint.active]
    <2>2. h \in Thread /\ v \in Versions
        BY <1>0 DEF Thread, LiveVersions
    <2>3. h.pc = "activate" /\ h.v = v /\ h.op = "none" /\ h.seen = endpoint.active
        BY DEF Idle
    <2>. HIDE DEF h
    <2>4. Started(h)
        BY <2>2, <2>3 DEF Started, HandlerOK, Made
    <2>. QED
        BY <2>1, <2>4 DEF Asked, Begin, h
<1>12. CASE ApiDeletePersona(p) \/ WebDeletePersona(p)
    <2>1. PICK a \in Personas :
              ~PersonaInUse(a) /\ Begin(p, "parts", [Idle EXCEPT !.pc = "dropPersona", !.persona = a])
        BY <1>12, Zenon DEF ApiDeletePersona, WebDeletePersona
    <2>. DEFINE h == [Idle EXCEPT !.pc = "dropPersona", !.persona = a]
    <2>2. h \in Thread
        BY <1>0 DEF Thread
    <2>3. h.pc = "dropPersona" /\ h.persona = a /\ h.op = "none" /\ h.seen = NoVersion
        BY DEF Idle
    <2>. HIDE DEF h
    <2>4. Started(h)
        BY <2>1, <2>2, <2>3 DEF Started, HandlerOK, Made
    <2>. QED
        BY <2>1, <2>4 DEF Asked, Begin, h
<1>. QED
    BY <1>2, <1>4, <1>5, <1>6, <1>9, <1>10, <1>11, <1>12

-----------------------------------------------------------------------------
(* The types are kept.                                                     *)

\* TypeOK without the handlers.
RestOK ==
    /\ conn \in [Conns -> BOOLEAN] /\ target \in [Targets -> Target]
    /\ version \in [Versions -> Version]
    /\ endpoint \in [live: BOOLEAN, active: Versions \cup {NoVersion}]
    /\ persona \in [Personas -> Life] /\ block \in [Blocks -> Life]
    /\ raced \subseteq Targets /\ late \subseteq Targets \cup Personas
    /\ probed \in [Targets -> (Conns \cup {NoConn}) \X Models]
    /\ asked \in [Versions -> Version] /\ answered \subseteq Versions
    /\ requests \in 0..MaxRequests

\* The next number, where the numbers taken are 1, 2, 3...
LEMMA LatestIsTheNumber ==
    ASSUME TypeInv
    PROVE  /\ IsFiniteSet(LiveVersions) /\ Cardinality(LiveVersions) \in Nat
           /\ Latest = Cardinality(LiveVersions)
<1>. DEFINE K == Cardinality(LiveVersions)  numbers == {0} \cup {version[v].n : v \in LiveVersions}
<1>1. IsFiniteSet(LiveVersions) /\ K \in Nat
    <2>1. LiveVersions \in SUBSET Versions
        BY DEF LiveVersions
    <2>. QED
        BY <2>1, DeploymentsAssumption, FS_Subset, FS_CardinalityType
<1>2. numbers = {0} \cup (1 .. K)
    BY DEF TypeInv, NumbersAreDense
<1>. HIDE DEF K
<1>3. numbers = 0 .. K
    BY <1>1, <1>2
<1>4. K \in numbers /\ \A k \in numbers : k <= K
    BY <1>1, <1>3
<1>5. \A n \in numbers : (\A k \in numbers : k <= n) => n = K
    BY <1>1, <1>3
<1>6. Latest = CHOOSE n \in numbers : \A k \in numbers : k <= n
    BY DEF Latest
<1>. HIDE DEF numbers
<1>7. Latest = K
    BY <1>4, <1>5, <1>6
<1>. QED
    BY <1>1, <1>7 DEF K

\* A step of one handler that creates no version and ends none.
LEMMA TypesKept ==
    ASSUME TypeInv, NEW p \in Threads, NEW r, HandlerOK(r), To(p, r), RestOK',
           r.pc = "insert" /\ endpoint'.live => r.n \in 1 .. 1 + Cardinality(LiveVersions),
           \A v \in Versions : version'[v].live = version[v].live /\ version'[v].n = version[v].n,
           endpoint'.live => endpoint.live
    PROVE  TypeInv'
<1>1. thread \in [Threads -> Thread] /\ r \in Thread
    BY DEF TypeInv, TypeOK, HandlerOK
<1>2. thread' = [thread EXCEPT ![p] = r] /\ thread' \in [Threads -> Thread]
    BY <1>1 DEF To
<1>3. thread'[p] = r /\ \A o \in Threads \ {p} : thread'[o] = thread[o]
    BY <1>1, <1>2
<1>4. TypeOK'
    BY <1>2 DEF TypeOK, RestOK
<1>5. LiveVersions' = LiveVersions
    BY DEF LiveVersions
<1>6. {version'[v].n : v \in LiveVersions'} = {version[v].n : v \in LiveVersions}
    BY <1>5 DEF LiveVersions
<1>7. NumbersAreDense'
    BY <1>5, <1>6 DEF TypeInv, NumbersAreDense
<1>8. \A o \in Threads : HandlerOK(thread'[o])
    BY <1>3 DEF TypeInv
<1>9. \A o \in Threads : NumberOK(thread[o])'
    BY <1>3, <1>5 DEF TypeInv, NumberOK
<1>. QED
    BY <1>4, <1>7, <1>8, <1>9 DEF TypeInv

\* One that leaves the tables alone.
LEMMA TypesMoved ==
    ASSUME TypeInv, NEW p \in Threads, NEW r, HandlerOK(r), To(p, r),
           r.pc = "insert" => r.n \in 1 .. 1 + Cardinality(LiveVersions),
           UNCHANGED <<tables, history, requests>>
    PROVE  TypeInv'
<1>1. RestOK'
    BY DEF RestOK, TypeInv, TypeOK, tables, history
<1>2. UNCHANGED <<version, endpoint>>
    BY DEF tables
<1>. QED
    BY <1>1, <1>2, TypesKept

\* A transaction of its own.
LEMMA TypesRequested ==
    ASSUME TypeInv, RestOK', UNCHANGED thread,
           \A v \in Versions : version'[v].live = version[v].live /\ version'[v].n = version[v].n,
           endpoint'.live => endpoint.live
    PROVE  TypeInv'
<1>1. TypeOK'
    BY DEF TypeInv, TypeOK, RestOK
<1>2. LiveVersions' = LiveVersions
    BY DEF LiveVersions
<1>3. {version'[v].n : v \in LiveVersions'} = {version[v].n : v \in LiveVersions}
    BY <1>2 DEF LiveVersions
<1>4. NumbersAreDense'
    BY <1>2, <1>3 DEF TypeInv, NumbersAreDense
<1>5. \A o \in Threads : HandlerOK(thread'[o]) /\ NumberOK(thread[o])'
    BY <1>2 DEF TypeInv, NumberOK
<1>. QED
    BY <1>1, <1>4, <1>5 DEF TypeInv

LEMMA TypeInvInit == Init => TypeInv
<1>. SUFFICES ASSUME Init PROVE TypeInv
    OBVIOUS
<1>1. PICK s \in Starts :
         /\ target = s.target /\ version = s.version
         /\ endpoint = [live |-> TRUE, active |-> s.active]
         /\ persona = s.persona /\ block = s.block
         /\ asked = s.version /\ answered = {v \in Versions : s.version[v].live = "live"}
         /\ probed = [t \in Targets |-> <<s.target[t].conn, s.target[t].model>>]
    BY DEF Init
<1>2. /\ s \in Database
      /\ {s.version[v].n : v \in LiveVersions} = 1 .. Cardinality(LiveVersions)
    <2>1. LiveVersions = {v \in Versions : s.version[v].live = "live"}
        BY <1>1 DEF LiveVersions
    <2>. QED
        BY <2>1, StartsAssumption
<1>3. /\ s.target \in [Targets -> Target] /\ s.version \in [Versions -> Version]
      /\ s.active \in Versions \cup {NoVersion}
      /\ s.persona \in [Personas -> {"free", "live"}] /\ s.block \in [Blocks -> {"free", "live"}]
    BY <1>2 DEF Database
<1>4. \A t \in Targets : s.target[t].conn \in Conns \cup {NoConn} /\ s.target[t].model \in Models
    BY <1>3 DEF Target
<1>5. probed \in [Targets -> (Conns \cup {NoConn}) \X Models]
    BY <1>1, <1>4
<1>6. /\ conn \in [Conns -> BOOLEAN] /\ raced = {} /\ late = {} /\ requests \in 0..MaxRequests
      /\ thread \in [Threads -> Thread] /\ \A p \in Threads : thread[p] = Idle
    BY IdleOK, StartsAssumption DEF Init, HandlerOK
<1>7. persona \in [Personas -> Life] /\ block \in [Blocks -> Life]
    BY <1>1, <1>3 DEF Life
<1>8. TypeOK
    BY <1>1, <1>3, <1>5, <1>6, <1>7 DEF TypeOK
<1>9. NumbersAreDense
    BY <1>1, <1>2 DEF NumbersAreDense
<1>10. \A p \in Threads : HandlerOK(thread[p]) /\ NumberOK(thread[p])
    BY <1>6, IdleOK DEF NumberOK
<1>. QED
    BY <1>8, <1>9, <1>10 DEF TypeInv

\* The steps of a handler, and the requests that are one transaction.
HandlerStep(p) ==
    \/ InsertTarget(p) \/ SaveTarget(p) \/ ResolveTarget(p) \/ Verdict(p) \/ DropTarget(p)
    \/ Number(p) \/ InsertVersion(p) \/ ReadBlocks(p) \/ LinkBlocks(p) \/ AutoActivate(p)
    \/ Activate(p) \/ DropPersona(p) \/ Crash(p)

Transaction(p) ==
    \/ Disconnect(p) \/ DeleteEndpoint(p) \/ ApiCreatePersona(p) \/ ApiCreateBlock(p)
    \/ ApiDeleteBlock(p)

LEMMA StepsOfNext ==
    ASSUME TypeInv, Next
    PROVE  \E p \in Threads : Asked(p) \/ HandlerStep(p) \/ Transaction(p)
<1>1. PICK p \in Threads :
        \/ ApiCreateTarget(p) \/ WebCreateTarget(p) \/ ApiUpdateTarget(p) \/ WebUpdateTarget(p)
        \/ ApiVerify(p) \/ WebVerify(p) \/ ApiDeleteTarget(p) \/ WebDeleteTarget(p)
        \/ ApiCreateVersion(p) \/ ApiPrompt(p) \/ WebCreateVersion(p) \/ Promote(p)
        \/ ApiActivate(p) \/ WebActivate(p) \/ ApiDeletePersona(p) \/ WebDeletePersona(p)
        \/ HandlerStep(p) \/ Transaction(p)
    BY DEF Next, HandlerStep, Transaction, WebCreatePersona, WebCreateBlock, WebDeleteBlock
<1>. QED
    BY <1>1, NewRequest

LEMMA TypeInvAsked ==
    ASSUME TypeInv, NEW p \in Threads, Asked(p)
    PROVE  TypeInv'
<1>1. PICK op, h : op \in Ops /\ Started(h) /\ Begin(p, op, h)
    BY DEF Asked
<1>2. HandlerOK(h) /\ h.pc # "insert" /\ To(p, h)
    BY <1>1 DEF Started, Begin
<1>3. requests' \in 0..MaxRequests /\ UNCHANGED <<tables, history>>
    BY <1>1, StartsAssumption DEF Begin, TypeInv, TypeOK
<1>4. RestOK' /\ UNCHANGED <<version, endpoint>>
    BY <1>3 DEF RestOK, TypeInv, TypeOK, tables, history
<1>. QED
    BY <1>2, <1>4, TypesKept

LEMMA TypeInvTransaction ==
    ASSUME TypeInv, NEW p \in Threads, Transaction(p)
    PROVE  TypeInv'
<1>0. UNCHANGED thread /\ requests' \in 0..MaxRequests
    BY StartsAssumption DEF Transaction, Disconnect, DeleteEndpoint, ApiCreatePersona,
       ApiCreateBlock, ApiDeleteBlock, Request, TypeInv, TypeOK
<1>1. CASE Disconnect(p)
    <2>1. PICK c \in Conns :
            /\ conn' = [conn EXCEPT ![c] = FALSE]
            /\ target' = [t \in Targets |-> IF target[t].conn = c
                                            THEN [target[t] EXCEPT !.conn = NoConn]
                                            ELSE target[t]]
            /\ raced' = raced \cup {t \in Targets : target[t].conn = c}
            /\ UNCHANGED <<version, endpoint, persona, block, probed, late, asked, answered>>
        BY <1>1 DEF Disconnect
    <2>2. \A t \in Targets : target[t] \in Target /\ [target[t] EXCEPT !.conn = NoConn] \in Target
        BY DEF TypeInv, TypeOK, Target
    <2>3. target' \in [Targets -> Target]
        BY <2>1, <2>2
    <2>4. RestOK'
        BY <1>0, <2>1, <2>3 DEF RestOK, TypeInv, TypeOK
    <2>. QED
        BY <1>0, <2>1, <2>4, TypesRequested
<1>2. CASE DeleteEndpoint(p)
    <2>1. /\ endpoint' = [live |-> FALSE, active |-> NoVersion]
          /\ version' = [v \in Versions |-> IF version[v].live = "live"
                                            THEN [FreeVersion EXCEPT !.live = "gone"]
                                            ELSE version[v]]
          /\ UNCHANGED <<conn, target, persona, block, history>>
        BY <1>2 DEF DeleteEndpoint
    <2>2. [FreeVersion EXCEPT !.live = "gone"] \in Version /\ [FreeVersion EXCEPT !.live = "gone"].live = "gone"
        BY RowTypes DEF Version, Life
    <2>3. version' \in [Versions -> Version]
        BY <2>1, <2>2 DEF TypeInv, TypeOK
    <2>4. TypeOK'
        BY <1>0, <2>1, <2>3 DEF TypeOK, TypeInv, history
    <2>5. LiveVersions' = {}
        BY <2>1, <2>2 DEF LiveVersions
    <2>6. NumbersAreDense'
        <3>1. Cardinality({}) = 0 /\ {version'[v].n : v \in {}} = {} /\ 1 .. 0 = {}
            BY FS_EmptySet
        <3>. QED
            BY <2>5, <3>1 DEF NumbersAreDense
    <2>7. \A o \in Threads : HandlerOK(thread'[o]) /\ NumberOK(thread[o])'
        BY <1>0, <2>1 DEF TypeInv, NumberOK
    <2>. QED
        BY <2>4, <2>6, <2>7 DEF TypeInv
<1>3. CASE ApiCreatePersona(p) \/ ApiCreateBlock(p)
    <2>1. RestOK'
        BY <1>0, <1>3 DEF ApiCreatePersona, ApiCreateBlock, RestOK, TypeInv, TypeOK, Life, history
    <2>. QED
        BY <1>0, <1>3, <2>1, TypesRequested DEF ApiCreatePersona, ApiCreateBlock
<1>4. CASE ApiDeleteBlock(p)
    <2>1. PICK b \in LiveBlocks :
            /\ block' = [block EXCEPT ![b] = "gone"]
            /\ version' = [v \in Versions |-> [version[v] EXCEPT !.blocks = @ \ {b}]]
            /\ UNCHANGED <<conn, target, endpoint, persona, history>>
        BY <1>4 DEF ApiDeleteBlock
    <2>2. \A v \in Versions : LET w == [version[v] EXCEPT !.blocks = @ \ {b}]
                              IN  w \in Version /\ w.live = version[v].live /\ w.n = version[v].n
        <3>1. \A v \in Versions : version[v] \in Version
            BY DEF TypeInv, TypeOK
        <3>. QED
            BY <3>1 DEF Version
    <2>3. /\ version' \in [Versions -> Version]
          /\ \A v \in Versions : version'[v].live = version[v].live /\ version'[v].n = version[v].n
        BY <2>1, <2>2
    <2>4. RestOK'
        BY <1>0, <2>1, <2>3 DEF RestOK, TypeInv, TypeOK, Life, history
    <2>. QED
        BY <1>0, <2>1, <2>3, <2>4, TypesRequested
<1>. QED
    BY <1>1, <1>2, <1>3, <1>4 DEF Transaction

\* A handler goes on to an update that is saved.
LEMMA AfterSaveType ==
    ASSUME TypeInv, NEW p \in Threads, NEW row \in Target, AfterSave(p, row),
           thread[p].pc \in {"addTarget", "saveTarget"}
    PROVE  \E r : /\ HandlerOK(r) /\ To(p, r) /\ r.pc \in {"idle", "resolve"}
                  /\ r.pc = "idle" => r = Idle
                  /\ r.pc = "resolve" => /\ r = [thread[p] EXCEPT !.pc = "resolve", !.old = row, !.new = row]
                                         /\ r.new = row /\ r.old = row /\ r.op = thread[p].op
<1>. DEFINE h == thread[p]  r == [h EXCEPT !.pc = "resolve", !.old = row, !.new = row]
<1>1. h \in Thread /\ h.t \in Targets /\ HandlerOK(h)
    BY DEF TypeInv, HandlerOK
<1>2. CASE h.verify /\ row.active
    <2>1. To(p, r)
        BY <1>2 DEF AfterSave
    <2>2. r \in Thread
        BY <1>1 DEF Thread
    <2>3. r.pc = "resolve" /\ r.new = row /\ r.old = row /\ r.op = h.op /\ r.t = h.t
        BY <1>1 DEF Thread
    <2>. HIDE DEF r
    <2>4. HandlerOK(r)
        BY <1>1, <2>2, <2>3 DEF HandlerOK, Made
    <2>. QED
        BY <2>1, <2>3, <2>4 DEF r
<1>3. CASE ~(h.verify /\ row.active)
    BY <1>3, IdleOK DEF AfterSave, End
<1>. QED
    BY <1>2, <1>3

LEMMA TypeInvInsert ==
    ASSUME TypeInv, NEW p \in Threads, InsertVersion(p)
    PROVE  TypeInv'
<1>. DEFINE h == thread[p]  K == Cardinality(LiveVersions)
            v == CHOOSE v \in Versions : version[v].live = "free"
            row == [live |-> "live", n |-> h.n, target |-> h.t, model |-> h.model,
                    pin |-> h.pin, persona |-> h.persona, blocks |-> {}]
            r == [h EXCEPT !.pc = IF h.blocks # {} THEN "blocks" ELSE "auto", !.v = v,
                           !.n = 0, !.persona = NoPersona]
            dropping == {thread[o].t : o \in {o \in Threads : thread[o].pc = "dropTarget"}}
                        \cup {thread[o].persona : o \in {o \in Threads : thread[o].pc = "dropPersona"}}
<1>0. h \in Thread /\ HandlerOK(h)
    BY DEF TypeInv, HandlerOK
<1>1. /\ h \in Thread /\ HandlerOK(h) /\ h.pc = "insert" /\ UNCHANGED requests
      /\ UNCHANGED <<conn, target, endpoint, persona, block, probed, raced, answered>>
    BY <1>0 DEF InsertVersion, At
<1>2. CASE Accepted(h)
    <2>1. /\ \E u \in Versions : version[u].live = "free"
          /\ version' = [version EXCEPT ![v] = row]
          /\ asked' = [asked EXCEPT ![v] = [row EXCEPT !.blocks = h.blocks]]
          /\ late' = late \cup ({h.t, h.persona} \cap dropping)
          /\ To(p, r)
        BY <1>2 DEF InsertVersion
    <2>2. v \in Versions /\ version[v].live = "free"
        BY <2>1
    <2>3. /\ row \in Version /\ [row EXCEPT !.blocks = h.blocks] \in Version /\ row.live = "live"
          /\ row.n = h.n
        BY <1>1 DEF Thread, Version, Life
    <2>4. r \in Thread
        BY <1>1, <2>2, Zenon DEF Thread
    <2>5. /\ r.pc \in {"blocks", "auto"} /\ r.v = v /\ r.op = h.op /\ r.t = h.t
        BY <1>1 DEF Thread
    <2>6. dropping \subseteq Targets \cup Personas
        BY DEF TypeInv, HandlerOK
    <2>. HIDE DEF v, row, r, dropping
    <2>7. HandlerOK(r)
        BY <1>1, <2>2, <2>4, <2>5 DEF HandlerOK, Made
    <2>8. /\ version' \in [Versions -> Version] /\ asked' \in [Versions -> Version]
          /\ late' \subseteq Targets \cup Personas
        BY <2>1, <2>2, <2>3, <2>6 DEF TypeInv, TypeOK
    <2>9. thread' = [thread EXCEPT ![p] = r] /\ thread \in [Threads -> Thread]
        BY <2>1 DEF To, TypeInv, TypeOK
    <2>10. /\ thread' \in [Threads -> Thread] /\ thread'[p] = r
           /\ \A o \in Threads \ {p} : thread'[o] = thread[o]
        BY <2>4, <2>9
    <2>11. TypeOK'
        BY <1>1, <2>8, <2>10 DEF TypeInv, TypeOK
    <2>12. version'[v] = row /\ \A u \in Versions \ {v} : version'[u] = version[u]
        BY <2>1, <2>2 DEF TypeInv, TypeOK
    <2>13. LiveVersions' = LiveVersions \cup {v} /\ v \notin LiveVersions
        BY <2>2, <2>3, <2>12 DEF LiveVersions
    <2>14. K \in Nat /\ Cardinality(LiveVersions') = K + 1
        BY <2>13, LatestIsTheNumber, FS_AddElement
    <2>15. {version'[u].n : u \in LiveVersions'} = {version[u].n : u \in LiveVersions} \cup {h.n}
        BY <2>3, <2>12, <2>13 DEF LiveVersions
    <2>16. {version[u].n : u \in LiveVersions} = 1 .. K
        BY DEF TypeInv, NumbersAreDense
    <2>. HIDE DEF K
    <2>17. h.n = K + 1
        <3>1. endpoint.live /\ \A u \in LiveVersions : version[u].n # h.n
            BY <1>2 DEF Accepted
        <3>2. h.n \in 1 .. 1 + K
            BY <1>1, <3>1 DEF TypeInv, NumberOK, K
        <3>3. h.n \notin 1 .. K
            BY <2>16, <3>1
        <3>. QED
            BY <2>14, <3>2, <3>3
    <2>18. (1 .. K) \cup {K + 1} = 1 .. (K + 1)
        BY <2>14
    <2>19. NumbersAreDense'
        BY <2>14, <2>15, <2>16, <2>17, <2>18 DEF NumbersAreDense
    <2>20. \A o \in Threads : HandlerOK(thread'[o])
        BY <2>7, <2>10 DEF TypeInv
    <2>21. \A o \in Threads : NumberOK(thread[o])'
        <3>. SUFFICES ASSUME NEW o \in Threads, thread'[o].pc = "insert", endpoint'.live
                      PROVE  thread'[o].n \in 1 .. 1 + Cardinality(LiveVersions')
            BY DEF NumberOK
        <3>1. o # p /\ thread'[o] = thread[o] /\ endpoint.live
            BY <1>1, <2>5, <2>10
        <3>2. thread[o].n \in 1 .. 1 + K
            BY <3>1 DEF TypeInv, NumberOK, K
        <3>. QED
            BY <2>14, <3>1, <3>2
    <2>. QED
        BY <2>11, <2>19, <2>20, <2>21 DEF TypeInv
<1>3. CASE ~Accepted(h)
    <2>1. End(p) /\ UNCHANGED <<version, asked, late>>
        BY <1>3 DEF InsertVersion
    <2>. QED
        BY <1>1, <2>1, IdleOK, TypesMoved DEF End, tables, history
<1>. QED
    BY <1>2, <1>3

LEMMA TypeInvStep ==
    ASSUME TypeInv, NEW p \in Threads, HandlerStep(p)
    PROVE  TypeInv'
<1>. DEFINE h == thread[p]
<1>0. h \in Thread /\ HandlerOK(h) /\ UNCHANGED requests /\ \A t \in Targets : target[t] \in Target
    BY DEF TypeInv, TypeOK, HandlerOK, HandlerStep, InsertTarget, SaveTarget, ResolveTarget, Verdict,
       DropTarget, Number, InsertVersion, ReadBlocks, LinkBlocks, AutoActivate, Activate,
       DropPersona, Crash, At
\* A handler that stops, with other tables.
<1>1. ASSUME End(p), RestOK',
             \A v \in Versions : version'[v].live = version[v].live /\ version'[v].n = version[v].n,
             endpoint'.live => endpoint.live
      PROVE  TypeInv'
    BY <1>1, IdleOK, TypesKept DEF End
<1>2. ASSUME End(p), UNCHANGED <<tables, history>>
      PROVE  TypeInv'
    BY <1>0, <1>2, IdleOK, TypesMoved DEF End
\* One that goes on, with other targets.
<1>3. ASSUME NEW row \in Target, NEW r, HandlerOK(r), To(p, r), r.pc # "insert",
             target' = [target EXCEPT ![h.t] = row],
             raced' \subseteq raced \cup {h.t}, h.t \in Targets,
             probed' \in [Targets -> (Conns \cup {NoConn}) \X Models],
             UNCHANGED <<conn, version, endpoint, persona, block, late, asked, answered>>
      PROVE  TypeInv'
    <2>1. RestOK'
        BY <1>0, <1>3 DEF RestOK, TypeInv, TypeOK
    <2>. QED
        BY <1>3, <2>1, TypesKept
<1>4. CASE InsertTarget(p)
    <2>1. CASE conn[h.new.conn] /\ target[h.t].live = "free"
        <3>1. /\ target' = [target EXCEPT ![h.t] = h.new] /\ AfterSave(p, h.new)
              /\ UNCHANGED <<conn, version, endpoint, persona, block, history>>
              /\ h.pc = "addTarget"
            BY <1>4, <2>1 DEF InsertTarget, At
        <3>2. h.new \in Target /\ h.t \in Targets
            BY <1>0, <3>1 DEF HandlerOK, Thread
        <3>3. PICK r : HandlerOK(r) /\ To(p, r) /\ r.pc \in {"idle", "resolve"}
            BY <3>1, <3>2, AfterSaveType, Zenon
        <3>4. probed' \in [Targets -> (Conns \cup {NoConn}) \X Models] /\ raced' = raced
            BY <3>1 DEF history, TypeInv, TypeOK
        <3>. QED
            BY <1>3, <3>1, <3>2, <3>3, <3>4 DEF history
    <2>2. CASE ~(conn[h.new.conn] /\ target[h.t].live = "free")
        BY <1>2, <1>4, <2>2 DEF InsertTarget, tables
    <2>. QED
        BY <2>1, <2>2
<1>5. CASE SaveTarget(p)
    <2>. DEFINE new == Flush(Saved(h.new, h.old), h.old, target[h.t])
    <2>1. CASE h.t \in LiveTargets /\ (h.new.conn # h.old.conn => conn[h.new.conn])
        <3>1. /\ target' = [target EXCEPT ![h.t] = new] /\ AfterSave(p, new)
              /\ raced' \subseteq raced \cup {h.t}
              /\ UNCHANGED <<conn, version, endpoint, persona, block, probed, late, asked, answered>>
              /\ h.pc = "saveTarget"
            BY <1>5, <2>1 DEF SaveTarget, At
        <3>2. h.new \in Target /\ h.old \in Target /\ h.t \in Targets
            BY <1>0, <3>1 DEF HandlerOK, Thread
        <3>3. new \in Target
            BY <1>0, <3>2, FlushType
        <3>. HIDE DEF new
        <3>4. PICK r : HandlerOK(r) /\ To(p, r) /\ r.pc \in {"idle", "resolve"}
            BY <3>1, <3>3, AfterSaveType, Zenon
        <3>5. probed' \in [Targets -> (Conns \cup {NoConn}) \X Models]
            BY <3>1 DEF TypeInv, TypeOK
        <3>. QED
            BY <1>3, <3>1, <3>2, <3>3, <3>4, <3>5
    <2>2. CASE ~(h.t \in LiveTargets /\ (h.new.conn # h.old.conn => conn[h.new.conn]))
        BY <1>2, <1>5, <2>2 DEF SaveTarget, tables, history
    <2>. QED
        BY <2>1, <2>2
<1>6. CASE ResolveTarget(p)
    <2>1. PICK ok \in BOOLEAN : To(p, [h EXCEPT !.pc = "verdict", !.new.verified = ok])
        <3>1. (IF h.old.conn # NoConn THEN conn[h.old.conn] ELSE SomeReady) \in BOOLEAN
            <4>1. h.old.conn \in Conns \cup {NoConn}
                BY <1>0 DEF Thread, Target
            <4>. QED
                BY <4>1 DEF TypeInv, TypeOK, SomeReady
        <3>. QED
            BY <1>6, <3>1, Zenon DEF ResolveTarget
    <2>2. h.pc = "resolve" /\ h.t \in Targets /\ h.new = h.old /\ h.new \in Target
        BY <1>0, <1>6 DEF ResolveTarget, At, HandlerOK, Thread
    <2>. DEFINE r == [h EXCEPT !.pc = "verdict", !.new.verified = ok]
    <2>3. r \in Thread
        BY <1>0, <2>2 DEF Thread, Target
    <2>4. /\ r.pc = "verdict" /\ r.t = h.t /\ r.op = h.op /\ r.new.conn = r.old.conn
          /\ r.new.model = r.old.model
        BY <1>0, <2>2 DEF Thread, Target
    <2>5. To(p, r)
        BY <2>1
    <2>. HIDE DEF r
    <2>6. HandlerOK(r)
        BY <1>0, <2>2, <2>3, <2>4 DEF HandlerOK, Made
    <2>. QED
        BY <1>0, <1>6, <2>4, <2>5, <2>6, TypesMoved DEF ResolveTarget
<1>7. CASE Verdict(p)
    <2>. DEFINE new == Flush(h.new, h.old, target[h.t])  r == [h EXCEPT !.pc = "number", !.old = new]
    <2>1. /\ h.pc = "verdict" /\ h.t \in Targets /\ h.new \in Target /\ h.old \in Target
        BY <1>0, <1>7 DEF Verdict, At, HandlerOK, Thread
    <2>2. CASE h.t \in LiveTargets
        <3>1. /\ target' = [target EXCEPT ![h.t] = new] /\ raced' \subseteq raced \cup {h.t}
              /\ UNCHANGED <<conn, version, endpoint, persona, block, late, asked, answered>>
            BY <1>7, <2>2 DEF Verdict
        <3>2. new \in Target
            BY <1>0, <2>1, FlushType
        <3>3. probed' \in [Targets -> (Conns \cup {NoConn}) \X Models]
            <4>1. h.old.conn \in Conns \cup {NoConn} /\ h.old.model \in Models
                BY <2>1 DEF Target
            <4>2. probed' = probed \/ probed' = [probed EXCEPT ![h.t] = <<h.old.conn, h.old.model>>]
                BY <1>7, <2>2 DEF Verdict
            <4>. QED
                BY <4>1, <4>2 DEF TypeInv, TypeOK
        <3>4. target'[h.t] = new
            BY <2>1, <3>1 DEF TypeInv, TypeOK
        <3>5. IF h.op = "promote" THEN To(p, r) ELSE End(p)
            BY <1>7, <2>2, <3>4 DEF Verdict
        <3>. HIDE DEF new
        <3>6. r \in Thread
            BY <1>0, <3>2 DEF Thread
        <3>7. r.pc = "number" /\ r.t = h.t /\ r.op = h.op
            BY <1>0 DEF Thread
        <3>. HIDE DEF r
        <3>8. HandlerOK(r)
            BY <1>0, <2>1, <3>6, <3>7 DEF HandlerOK, Made
        <3>. QED
            BY <1>3, <2>1, <3>1, <3>2, <3>3, <3>5, <3>7, <3>8, IdleOK DEF End
    <2>3. CASE h.t \notin LiveTargets
        BY <1>2, <1>7, <2>3 DEF Verdict, tables, history
    <2>. QED
        BY <2>2, <2>3
<1>8. CASE DropTarget(p)
    <2>1. /\ h.t \in Targets /\ End(p)
          /\ target' = [target EXCEPT ![h.t] = [FreeTarget EXCEPT !.live = "gone"]]
          /\ version' = [v \in Versions |-> IF version[v].target = h.t
                                            THEN [version[v] EXCEPT !.target = NoTarget]
                                            ELSE version[v]]
          /\ UNCHANGED <<conn, endpoint, persona, block, history>>
        BY <1>0, <1>8 DEF DropTarget, At, HandlerOK
    <2>2. [FreeTarget EXCEPT !.live = "gone"] \in Target
        BY RowTypes DEF Target, Life
    <2>3. \A v \in Versions : LET w == [version[v] EXCEPT !.target = NoTarget]
                              IN  w \in Version /\ w.live = version[v].live /\ w.n = version[v].n
        <3>1. \A v \in Versions : version[v] \in Version
            BY DEF TypeInv, TypeOK
        <3>. QED
            BY <3>1 DEF Version
    <2>4. /\ version' \in [Versions -> Version]
          /\ \A v \in Versions : version'[v].live = version[v].live /\ version'[v].n = version[v].n
        BY <2>1, <2>3 DEF TypeInv, TypeOK
    <2>5. RestOK'
        BY <1>0, <2>1, <2>2, <2>4 DEF RestOK, TypeInv, TypeOK, history
    <2>. QED
        BY <1>1, <2>1, <2>4, <2>5
<1>9. CASE Number(p)
    <2>1. h.pc = "number" /\ UNCHANGED <<tables, history>>
        BY <1>9 DEF Number, At
    <2>. DEFINE row == IF h.op \in {"api", "prompt"} /\ h.t # NoTarget THEN target[h.t] ELSE h.old
                m == IF h.t # NoTarget THEN row.model ELSE h.model
                o == IF h.op = "promote" THEN row ELSE FreeTarget
                a == IF Exists(h.persona) THEN h.persona ELSE NoPersona
                B == IF h.op = "promote" /\ h.seen \in LiveVersions THEN version[h.seen].blocks ELSE h.blocks
                r == [h EXCEPT !.pc = "insert", !.n = Latest + 1, !.old = o, !.model = m,
                               !.persona = a, !.blocks = B]
    <2>2. End(p) \/ To(p, r)
        BY <1>9 DEF Number
    <2>3. row \in Target
        BY <1>0 DEF Thread
    <2>4. m \in Models /\ o \in Target
        BY <1>0, <2>3, RowTypes DEF Thread, Target
    <2>5. a \in Personas \cup {NoPersona} /\ B \in SUBSET Blocks
        BY <1>0 DEF Thread, LiveVersions, TypeInv, TypeOK, Version
    <2>6. Latest + 1 \in Nat /\ Latest + 1 \in 1 .. 1 + Cardinality(LiveVersions)
        BY LatestIsTheNumber
    <2>. HIDE DEF row, m, o, a, B
    <2>7. r \in Thread
        BY <1>0, <2>4, <2>5, <2>6 DEF Thread
    <2>8. r.pc = "insert" /\ r.n = Latest + 1 /\ r.op = h.op /\ r.t = h.t
        BY <1>0 DEF Thread
    <2>. HIDE DEF r
    <2>9. HandlerOK(r)
        BY <1>0, <2>7, <2>8 DEF HandlerOK, Made
    <2>. QED
        BY <1>0, <1>2, <2>1, <2>2, <2>6, <2>8, <2>9, TypesMoved
<1>10. CASE InsertVersion(p)
    BY <1>10, TypeInvInsert
<1>11. CASE ReadBlocks(p)
    <2>. DEFINE B == Linkable(h.blocks)  r == [h EXCEPT !.pc = "link", !.blocks = B]
    <2>1. /\ h.pc = "blocks" /\ To(p, r)
          /\ asked' = [asked EXCEPT ![h.v].blocks = @ \cap LiveBlocks]
          /\ UNCHANGED <<tables, probed, raced, late, answered>>
        BY <1>11 DEF ReadBlocks, At
    <2>2. B \in SUBSET Blocks
        BY <1>0 DEF Linkable, Thread
    <2>. HIDE DEF B
    <2>3. r \in Thread
        BY <1>0, <2>2 DEF Thread
    <2>4. r.pc = "link" /\ r.t = h.t /\ r.op = h.op /\ r.v = h.v
        BY <1>0 DEF Thread
    <2>. HIDE DEF r
    <2>5. HandlerOK(r) /\ h.v \in Versions
        BY <1>0, <2>1, <2>3, <2>4 DEF HandlerOK, Made
    <2>6. asked' \in [Versions -> Version]
        <3>. DEFINE a == [asked[h.v] EXCEPT !.blocks = @ \cap LiveBlocks]
        <3>1. asked[h.v] \in Version /\ asked \in [Versions -> Version]
            BY <2>5 DEF TypeInv, TypeOK
        <3>2. a \in Version
            BY <3>1 DEF Version
        <3>3. asked' = [asked EXCEPT ![h.v] = a]
            BY <2>1
        <3>. HIDE DEF a
        <3>. QED
            BY <3>1, <3>2, <3>3
    <2>7. RestOK' /\ UNCHANGED <<version, endpoint>>
        BY <1>0, <2>1, <2>6 DEF RestOK, TypeInv, TypeOK, tables
    <2>. QED
        BY <2>1, <2>4, <2>5, <2>7, TypesKept
<1>12. CASE LinkBlocks(p)
    <2>0. h.pc = "link" /\ h.v \in Versions /\ h.blocks \in SUBSET Blocks
        BY <1>0, <1>12 DEF LinkBlocks, At, HandlerOK, Made, Thread
    <2>1. CASE h.v \in LiveVersions /\ h.blocks \subseteq LiveBlocks
        <3>. DEFINE r == [h EXCEPT !.pc = "auto", !.blocks = {}]
        <3>1. /\ version' = [version EXCEPT ![h.v].blocks = h.blocks] /\ To(p, r)
              /\ UNCHANGED <<conn, target, endpoint, persona, block, history>>
            BY <1>12, <2>1 DEF LinkBlocks
        <3>2. r \in Thread
            BY <1>0 DEF Thread
        <3>3. r.pc = "auto" /\ r.t = h.t /\ r.op = h.op /\ r.v = h.v
            BY <1>0 DEF Thread
        <3>. HIDE DEF r
        <3>4. HandlerOK(r)
            BY <1>0, <2>0, <3>2, <3>3 DEF HandlerOK, Made
        <3>5. [version[h.v] EXCEPT !.blocks = h.blocks] \in Version
            <4>1. version[h.v] \in Version
                BY <2>0 DEF TypeInv, TypeOK
            <4>. QED
                BY <2>0, <4>1 DEF Version
        <3>6. /\ version' \in [Versions -> Version]
              /\ \A v \in Versions : version'[v].live = version[v].live /\ version'[v].n = version[v].n
            BY <2>0, <3>1, <3>5 DEF TypeInv, TypeOK, Version
        <3>7. RestOK'
            BY <1>0, <3>1, <3>6 DEF RestOK, TypeInv, TypeOK, history
        <3>. QED
            BY <3>1, <3>3, <3>4, <3>6, <3>7, TypesKept
    <2>2. CASE ~(h.v \in LiveVersions /\ h.blocks \subseteq LiveBlocks)
        BY <1>2, <1>12, <2>2 DEF LinkBlocks, tables
    <2>. QED
        BY <2>1, <2>2
<1>13. CASE AutoActivate(p)
    <2>0. h.pc = "auto" /\ h.v \in Versions /\ h.seen \in Versions \cup {NoVersion}
        BY <1>0, <1>13 DEF AutoActivate, At, HandlerOK, Made, Thread
    <2>1. CASE Activates(h) /\ ~endpoint.live
        BY <1>2, <1>13, <2>1 DEF AutoActivate, tables, history
    <2>2. CASE ~(Activates(h) /\ ~endpoint.live)
        <3>. DEFINE s == IF Activates(h) THEN h.v ELSE h.seen
                    r == [h EXCEPT !.pc = "activate", !.seen = s]
        <3>1. /\ UNCHANGED <<conn, target, version, persona, block, probed, raced, late, asked>>
              /\ answered' \subseteq answered \cup {h.v}
              /\ endpoint' = endpoint
                 \/ endpoint' = [endpoint EXCEPT !.active = Column(h.v, h.seen, @)]
              /\ IF h.op = "prompt" THEN To(p, r) ELSE End(p)
            BY <1>13, <2>2 DEF AutoActivate, End
        <3>2. /\ endpoint' \in [live: BOOLEAN, active: Versions \cup {NoVersion}]
              /\ endpoint'.live = endpoint.live
            BY <2>0, <3>1 DEF TypeInv, TypeOK, Column
        <3>3. RestOK'
            BY <1>0, <2>0, <3>1, <3>2 DEF RestOK, TypeInv, TypeOK
        <3>4. s \in Versions \cup {NoVersion}
            BY <2>0
        <3>. HIDE DEF s
        <3>5. r \in Thread
            BY <1>0, <3>4 DEF Thread
        <3>6. r.pc = "activate" /\ r.op = h.op /\ r.v = h.v
            BY <1>0 DEF Thread
        <3>. HIDE DEF r
        <3>7. h.op = "prompt" => HandlerOK(r)
            BY <1>0, <2>0, <3>5, <3>6 DEF HandlerOK, Made
        <3>8. CASE h.op = "prompt"
            BY <3>1, <3>2, <3>3, <3>6, <3>7, <3>8, TypesKept
        <3>9. CASE h.op # "prompt"
            BY <1>1, <3>1, <3>2, <3>3, <3>9
        <3>. QED
            BY <3>8, <3>9
    <2>. QED
        BY <2>1, <2>2
<1>14. CASE Activate(p)
    <2>0. h.v \in Versions /\ End(p)
        BY <1>0, <1>14 DEF Activate, At, HandlerOK, Made
    <2>1. /\ UNCHANGED <<conn, target, version, persona, block, probed, raced, late, asked>>
          /\ answered' \subseteq answered \cup {h.v}
          /\ endpoint' = endpoint
             \/ endpoint' = [endpoint EXCEPT !.active = Column(h.v, h.seen, @)]
        BY <1>14 DEF Activate
    <2>2. /\ endpoint' \in [live: BOOLEAN, active: Versions \cup {NoVersion}]
          /\ endpoint'.live = endpoint.live
        BY <2>0, <2>1 DEF TypeInv, TypeOK, Column
    <2>3. RestOK'
        BY <1>0, <2>0, <2>1, <2>2 DEF RestOK, TypeInv, TypeOK
    <2>. QED
        BY <1>1, <2>0, <2>1, <2>2, <2>3
<1>15. CASE DropPersona(p)
    <2>1. /\ h.persona \in Personas /\ End(p)
          /\ persona' = [persona EXCEPT ![h.persona] = "gone"]
          /\ version' = [v \in Versions |-> IF version[v].persona = h.persona
                                            THEN [version[v] EXCEPT !.persona = NoPersona]
                                            ELSE version[v]]
          /\ UNCHANGED <<conn, target, endpoint, block, history>>
        BY <1>0, <1>15 DEF DropPersona, At, HandlerOK
    <2>2. \A v \in Versions : LET w == [version[v] EXCEPT !.persona = NoPersona]
                              IN  w \in Version /\ w.live = version[v].live /\ w.n = version[v].n
        <3>1. \A v \in Versions : version[v] \in Version
            BY DEF TypeInv, TypeOK
        <3>. QED
            BY <3>1 DEF Version
    <2>3. /\ version' \in [Versions -> Version]
          /\ \A v \in Versions : version'[v].live = version[v].live /\ version'[v].n = version[v].n
        BY <2>1, <2>2 DEF TypeInv, TypeOK
    <2>4. RestOK'
        BY <1>0, <2>1, <2>3 DEF RestOK, TypeInv, TypeOK, Life, history
    <2>. QED
        BY <1>1, <2>1, <2>3, <2>4
<1>16. CASE Crash(p)
    BY <1>2, <1>16 DEF Crash
<1>. QED
    BY <1>4, <1>5, <1>6, <1>7, <1>8, <1>9, <1>10, <1>11, <1>12, <1>13, <1>14, <1>15, <1>16
    DEF HandlerStep

LEMMA TypeInvAlways == Spec => []TypeInv
<1>1. TypeInv /\ [Next]_vars => TypeInv'
    <2>. SUFFICES ASSUME TypeInv, [Next]_vars PROVE TypeInv'
        OBVIOUS
    <2>1. CASE Next
        BY <2>1, StepsOfNext, TypeInvAsked, TypeInvStep, TypeInvTransaction
    <2>2. CASE UNCHANGED vars
        <3>1. RestOK' /\ UNCHANGED <<thread, version, endpoint>>
            BY <2>2 DEF RestOK, TypeInv, TypeOK, vars, tables, history
        <3>. QED
            BY <3>1, TypesRequested
    <2>. QED
        BY <2>1, <2>2
<1>. QED
    BY <1>1, TypeInvInit, PTL DEF Spec

\* Rows, handlers and histories keep their types; the flag of a deployment that no update
\* leaves unset (update_target_record) among them.
THEOREM TypeCorrect == Spec => []TypeOK
<1>1. TypeInv => TypeOK
    BY DEF TypeInv
<1>. QED
    BY <1>1, TypeInvAlways, PTL

-----------------------------------------------------------------------------
(* What the steps do to the versions.                                      *)

\* A promotion goes on with a deployment that has the connection and the model compared,
\* unless it is one of R, the deployments two handlers wrote.
Picked(h, R) ==
    h.op = "promote" =>
      /\ h.pc \in Made \cup {"number", "insert"} =>
            h.t \in R \/ (h.old.conn = h.new.conn /\ h.old.model = h.new.model)
      /\ h.pc = "insert" => h.model = h.old.model

\* What a step leaves in the handler when it leaves the versions alone.
Fresh(p, r) ==
    /\ HandlerOK(r) /\ r.pc \notin Made
    /\ r.seen \in {NoVersion, thread[p].seen, endpoint.active}
    /\ r.pc = "dropTarget" => ~InUse(r.t)
    /\ r.pc = "dropPersona" => ~PersonaInUse(r.persona)
    /\ r.pc = "activate" => r.op # "prompt"
    /\ Picked(thread[p], raced) => Picked(r, raced')

Still == UNCHANGED <<version, endpoint, block, late, asked, answered>>

Quiet(p) == Still /\ \E r : Fresh(p, r) /\ To(p, r)

NewVersion(h) == [live |-> "live", n |-> h.n, target |-> h.t, model |-> h.model,
                  pin |-> h.pin, persona |-> h.persona, blocks |-> {}]

Dropping == {thread[o].t : o \in {o \in Threads : thread[o].pc = "dropTarget"}}
            \cup {thread[o].persona : o \in {o \in Threads : thread[o].pc = "dropPersona"}}

\* The handler p commits the version v.
Creates(p, v, r) ==
    LET h == thread[p] IN
    /\ Accepted(h) /\ h.pc = "insert" /\ version[v].live = "free"
    /\ version' = [version EXCEPT ![v] = NewVersion(h)]
    /\ asked' = [asked EXCEPT ![v] = [NewVersion(h) EXCEPT !.blocks = h.blocks]]
    /\ late' = late \cup ({h.t, h.persona} \cap Dropping)
    /\ To(p, r) /\ HandlerOK(r) /\ r.pc = (IF h.blocks # {} THEN "blocks" ELSE "auto")
    /\ r.v = v /\ r.op = h.op /\ r.t = h.t /\ r.seen = h.seen /\ r.blocks = h.blocks
    /\ r.old = h.old /\ r.new = h.new
    /\ UNCHANGED <<target, endpoint, block, raced, answered>>

Reads(p, r) ==
    LET h == thread[p] IN
    /\ h.pc = "blocks" /\ ReadBlocks(p)
    /\ To(p, r) /\ HandlerOK(r) /\ r.pc = "link"
    /\ r.v = h.v /\ r.op = h.op /\ r.t = h.t /\ r.seen = h.seen /\ r.blocks = h.blocks \cap LiveBlocks
    /\ r.old = h.old /\ r.new = h.new

Links(p, r) ==
    LET h == thread[p] IN
    /\ h.pc = "link" /\ h.v \in LiveVersions /\ h.blocks \subseteq LiveBlocks
    /\ version' = [version EXCEPT ![h.v].blocks = h.blocks]
    /\ To(p, r) /\ HandlerOK(r) /\ r.pc = "auto"
    /\ r.v = h.v /\ r.op = h.op /\ r.t = h.t /\ r.seen = h.seen
    /\ r.old = h.old /\ r.new = h.new
    /\ UNCHANGED <<target, endpoint, block, raced, late, asked, answered>>

\* The version is answered, and the endpoint may turn to it.
Turns(p, r) ==
    LET h == thread[p] IN
    /\ h.pc \in {"auto", "activate"} /\ h.v \in Versions
    /\ answered' \subseteq answered \cup {h.v}
    /\ h.v \in answered' \ answered => h.pc = "auto" \/ h.op = "prompt"
    /\ \/ endpoint.live /\ endpoint' = [endpoint EXCEPT !.active = Column(h.v, h.seen, @)]
       \/ h.pc = "auto" /\ h.seen # NoVersion /\ endpoint' = endpoint
    /\ To(p, r) /\ HandlerOK(r)
    /\ \/ r = Idle
       \/ /\ h.pc = "auto" /\ h.op = "prompt" /\ r.pc = "activate" /\ r.op = "prompt" /\ r.v = h.v
          /\ r.seen = h.seen \/ (r.seen = h.v /\ endpoint.live)
    /\ UNCHANGED <<target, version, block, raced, late, asked>>

LEMMA QuietEnd ==
    ASSUME NEW p \in Threads, End(p), Still
    PROVE  Quiet(p)
<1>1. Fresh(p, Idle)
    BY IdleOK DEF Fresh, Picked, Made
<1>. QED
    BY <1>1 DEF Quiet, End

\* A handler goes on, away from the versions.
LEMMA QuietMove ==
    ASSUME NEW p \in Threads, NEW r, To(p, r), Still, HandlerOK(r),
           r.pc \in {"idle", "resolve", "verdict", "number", "insert"},
           r.seen \in {NoVersion, thread[p].seen}, Picked(thread[p], raced) => Picked(r, raced')
    PROVE  Quiet(p)
    BY DEF Quiet, Fresh, Made

LEMMA VersionSteps ==
    ASSUME TypeInv, [Next]_vars
    PROVE  \/ Still /\ UNCHANGED thread
           \/ \E p \in Threads :
                \/ Quiet(p) \/ DropTarget(p) \/ DropPersona(p)
                \/ DeleteEndpoint(p) \/ ApiDeleteBlock(p) \/ ApiCreateBlock(p)
                \/ \E r : (\E v \in Versions : Creates(p, v, r)) \/ Reads(p, r) \/ Links(p, r)
                          \/ Turns(p, r)
<1>1. CASE UNCHANGED vars
    BY <1>1 DEF vars, tables, history, Still
<1>2. CASE Next
    <2>1. PICK p \in Threads : Asked(p) \/ HandlerStep(p) \/ Transaction(p)
        BY <1>2, StepsOfNext
    <2>2. CASE Asked(p)
        <3>1. PICK op, h : op \in Ops /\ Started(h) /\ Begin(p, op, h)
            BY <2>2 DEF Asked
        <3>2. Fresh(p, h) /\ To(p, h) /\ Still
            BY <3>1 DEF Started, Fresh, Picked, Begin, Made, Still, tables, history
        <3>. QED
            BY <3>2 DEF Quiet
    <2>3. CASE Transaction(p)
        BY <2>3 DEF Transaction, Disconnect, ApiCreatePersona, Request, Still, history
    <2>4. CASE HandlerStep(p)
        <3>. DEFINE h == thread[p]
        <3>0. h \in Thread /\ HandlerOK(h) /\ \A t \in Targets : target[t] \in Target
            BY DEF TypeInv, TypeOK, HandlerOK
        <3>1. CASE InsertTarget(p) \/ SaveTarget(p)
            <4>1. Still
                BY <3>1 DEF InsertTarget, SaveTarget, Still, history
            <4>2. CASE End(p)
                BY <4>1, <4>2, QuietEnd
            <4>3. ASSUME NEW row \in Target, AfterSave(p, row), h.pc \in {"addTarget", "saveTarget"}
                  PROVE  Quiet(p)
                <5>1. PICK r : /\ HandlerOK(r) /\ To(p, r) /\ r.pc \in {"idle", "resolve"}
                               /\ r.pc = "idle" => r = Idle
                               /\ r.pc = "resolve" =>
                                    /\ r = [h EXCEPT !.pc = "resolve", !.old = row, !.new = row]
                                    /\ r.new = row /\ r.old = row /\ r.op = h.op
                    BY <4>3, AfterSaveType, Zenon
                <5>2. r.seen \in {NoVersion, h.seen} /\ Picked(r, raced')
                    BY <3>0, <5>1, IdleOK DEF Thread, Picked, Made
                <5>. QED
                    BY <4>1, <5>1, <5>2, QuietMove
            <4>4. CASE InsertTarget(p)
                <5>1. End(p) \/ (AfterSave(p, h.new) /\ h.pc = "addTarget")
                    BY <4>4 DEF InsertTarget, At
                <5>2. h.new \in Target
                    BY <3>0 DEF Thread
                <5>. QED
                    BY <4>2, <4>3, <5>1, <5>2
            <4>5. CASE SaveTarget(p)
                <5>. DEFINE new == Flush(Saved(h.new, h.old), h.old, target[h.t])
                <5>1. End(p) \/ (AfterSave(p, new) /\ h.pc = "saveTarget")
                    BY <4>5 DEF SaveTarget, At
                <5>2. h.pc = "saveTarget" => new \in Target
                    BY <3>0, FlushType DEF Thread, HandlerOK
                <5>. HIDE DEF new
                <5>. QED
                    BY <4>2, <4>3, <5>1, <5>2
            <4>. QED
                BY <3>1, <4>4, <4>5
        <3>2. CASE ResolveTarget(p) \/ Verdict(p) \/ Number(p) \/ Crash(p)
            <4>1. Still
                BY <3>2 DEF ResolveTarget, Verdict, Number, Crash, Still, tables, history
            <4>2. CASE End(p)
                BY <4>1, <4>2, QuietEnd
            <4>3. ASSUME NEW r, To(p, r), r.pc \in {"verdict", "number", "insert"}, r.seen = h.seen,
                         Picked(h, raced) => Picked(r, raced')
                  PROVE  Quiet(p)
                <5>1. thread' = [thread EXCEPT ![p] = r] /\ thread \in [Threads -> Thread]
                    BY <4>3 DEF To, TypeInv, TypeOK
                <5>2. thread'[p] = r
                    BY <5>1
                <5>3. HandlerOK(r)
                    BY <2>4, <5>2, TypeInvStep DEF TypeInv, HandlerOK
                <5>. QED
                    BY <4>1, <4>3, <5>3, QuietMove
            <4>4. CASE ResolveTarget(p)
                <5>1. PICK ok : To(p, [h EXCEPT !.pc = "verdict", !.new.verified = ok])
                    BY <4>4, Zenon DEF ResolveTarget
                <5>. DEFINE r == [h EXCEPT !.pc = "verdict", !.new.verified = ok]
                <5>2. r.pc = "verdict" /\ r.seen = h.seen
                    BY <3>0 DEF Thread
                <5>. HIDE DEF r
                <5>3. Picked(r, raced')
                    BY <5>2 DEF Picked, Made
                <5>. QED
                    BY <4>3, <5>1, <5>2, <5>3 DEF r
            <4>5. CASE Verdict(p)
                <5>. DEFINE o == target'[h.t]  r == [h EXCEPT !.pc = "number", !.old = o]
                <5>0. h.pc = "verdict" /\ h.t \in Targets /\ h.new \in Target /\ h.old \in Target
                    BY <3>0, <4>5 DEF Verdict, At, HandlerOK, Thread
                <5>1. CASE h.t \in LiveTargets /\ h.op = "promote"
                    <6>1. To(p, r) /\ target' = [target EXCEPT ![h.t] = Flush(h.new, h.old, target[h.t])]
                          /\ raced' = IF target[h.t] # h.old THEN raced \cup {h.t} ELSE raced
                        BY <4>5, <5>1 DEF Verdict
                    <6>2. o = Flush(h.new, h.old, target[h.t])
                        BY <5>0, <6>1 DEF TypeInv, TypeOK
                    <6>3. h.t \in raced' \/ (o.conn = h.new.conn /\ o.model = h.new.model)
                        <7>1. target[h.t] \in Target
                            BY <3>0, <5>0
                        <7>. QED
                            BY <5>0, <6>1, <6>2, <7>1, FlushType
                    <6>. HIDE DEF o
                    <6>4. /\ r.pc = "number" /\ r.seen = h.seen /\ r.t = h.t /\ r.old = o
                          /\ r.new = h.new
                        BY <3>0 DEF Thread
                    <6>. HIDE DEF r
                    <6>5. Picked(r, raced')
                        BY <6>3, <6>4 DEF Picked
                    <6>. QED
                        BY <4>3, <6>1, <6>4, <6>5
                <5>2. CASE ~(h.t \in LiveTargets /\ h.op = "promote")
                    BY <4>2, <4>5, <5>2 DEF Verdict
                <5>. QED
                    BY <5>1, <5>2
            <4>6. CASE Number(p)
                <5>. DEFINE row == IF h.op \in {"api", "prompt"} /\ h.t # NoTarget THEN target[h.t] ELSE h.old
                            m == IF h.t # NoTarget THEN row.model ELSE h.model
                            o == IF h.op = "promote" THEN row ELSE FreeTarget
                            a == IF Exists(h.persona) THEN h.persona ELSE NoPersona
                            B == IF h.op = "promote" /\ h.seen \in LiveVersions
                                 THEN version[h.seen].blocks ELSE h.blocks
                            r == [h EXCEPT !.pc = "insert", !.n = Latest + 1, !.old = o, !.model = m,
                                           !.persona = a, !.blocks = B]
                <5>1. End(p) \/ To(p, r)
                    BY <4>6 DEF Number
                <5>2. /\ r.pc = "insert" /\ r.seen = h.seen /\ r.op = h.op /\ r.t = h.t
                      /\ r.old = o /\ r.new = h.new /\ r.model = m
                    BY <3>0 DEF Thread
                <5>3. h.pc = "number" /\ raced' = raced
                    BY <4>6 DEF Number, At, history
                <5>4. h.op = "promote" => h.t # NoTarget /\ o = h.old /\ m = h.old.model
                    BY <3>0, DeploymentsAssumption DEF HandlerOK
                <5>. HIDE DEF r, o, m
                <5>5. Picked(h, raced) => Picked(r, raced')
                    BY <5>2, <5>3, <5>4 DEF Picked
                <5>. QED
                    BY <4>2, <4>3, <5>1, <5>2, <5>5
            <4>. QED
                BY <3>2, <4>2, <4>4, <4>5, <4>6 DEF Crash
        <3>3. ASSUME NEW r, To(p, r)
              PROVE  HandlerOK(r)
            <4>1. thread' = [thread EXCEPT ![p] = r] /\ thread \in [Threads -> Thread]
                BY <3>3 DEF To, TypeInv, TypeOK
            <4>2. thread'[p] = r
                BY <4>1
            <4>. QED
                BY <2>4, <4>2, TypeInvStep DEF TypeInv, HandlerOK
        <3>4. CASE InsertVersion(p)
            <4>. DEFINE v == CHOOSE v \in Versions : version[v].live = "free"
                        r == [h EXCEPT !.pc = IF h.blocks # {} THEN "blocks" ELSE "auto", !.v = v,
                                       !.n = 0, !.persona = NoPersona]
            <4>1. h.pc = "insert" /\ UNCHANGED <<conn, target, endpoint, persona, block, probed, raced, answered>>
                BY <3>4 DEF InsertVersion, At
            <4>2. CASE Accepted(h)
                <5>1. /\ \E u \in Versions : version[u].live = "free"
                      /\ version' = [version EXCEPT ![v] = NewVersion(h)]
                      /\ asked' = [asked EXCEPT ![v] = [NewVersion(h) EXCEPT !.blocks = h.blocks]]
                      /\ late' = late \cup ({h.t, h.persona} \cap Dropping)
                      /\ To(p, r)
                    BY <3>4, <4>2 DEF InsertVersion, NewVersion, Dropping
                <5>2. v \in Versions /\ version[v].live = "free"
                    BY <5>1
                <5>3. /\ r.pc = (IF h.blocks # {} THEN "blocks" ELSE "auto")
                      /\ r.v = v /\ r.op = h.op /\ r.t = h.t /\ r.seen = h.seen /\ r.blocks = h.blocks
                      /\ r.old = h.old /\ r.new = h.new
                    BY <3>0 DEF Thread
                <5>. HIDE DEF v, r
                <5>4. Creates(p, v, r)
                    BY <3>3, <4>1, <4>2, <5>1, <5>2, <5>3 DEF Creates
                <5>. QED
                    BY <5>2, <5>4
            <4>3. CASE ~Accepted(h)
                <5>1. End(p) /\ Still
                    BY <3>4, <4>1, <4>3 DEF InsertVersion, Still
                <5>. QED
                    BY <5>1, QuietEnd
            <4>. QED
                BY <4>2, <4>3
        <3>5. CASE ReadBlocks(p)
            <4>. DEFINE r == [h EXCEPT !.pc = "link", !.blocks = Linkable(h.blocks)]
            <4>1. To(p, r) /\ h.pc = "blocks"
                BY <3>5 DEF ReadBlocks, At
            <4>2. /\ r.pc = "link" /\ r.v = h.v /\ r.op = h.op /\ r.t = h.t /\ r.seen = h.seen
                  /\ r.blocks = h.blocks \cap LiveBlocks /\ r.old = h.old /\ r.new = h.new
                BY <3>0 DEF Thread, Linkable
            <4>. HIDE DEF r
            <4>3. Reads(p, r)
                BY <3>3, <3>5, <4>1, <4>2 DEF Reads
            <4>. QED
                BY <4>3
        <3>6. CASE LinkBlocks(p)
            <4>. DEFINE r == [h EXCEPT !.pc = "auto", !.blocks = {}]
            <4>1. h.pc = "link" /\ UNCHANGED <<conn, target, endpoint, persona, block, history>>
                BY <3>6 DEF LinkBlocks, At
            <4>2. CASE h.v \in LiveVersions /\ h.blocks \subseteq LiveBlocks
                <5>1. version' = [version EXCEPT ![h.v].blocks = h.blocks] /\ To(p, r)
                    BY <3>6, <4>2 DEF LinkBlocks
                <5>2. /\ r.pc = "auto" /\ r.v = h.v /\ r.op = h.op /\ r.t = h.t /\ r.seen = h.seen
                      /\ r.old = h.old /\ r.new = h.new
                    BY <3>0 DEF Thread
                <5>. HIDE DEF r
                <5>3. Links(p, r)
                    BY <3>3, <4>1, <4>2, <5>1, <5>2 DEF Links, history
                <5>. QED
                    BY <5>3
            <4>3. CASE ~(h.v \in LiveVersions /\ h.blocks \subseteq LiveBlocks)
                <5>1. End(p) /\ Still
                    BY <3>6, <4>1, <4>3 DEF LinkBlocks, Still, history
                <5>. QED
                    BY <5>1, QuietEnd
            <4>. QED
                BY <4>2, <4>3
        <3>7. CASE AutoActivate(p)
            <4>0. /\ h.pc = "auto" /\ h.v \in Versions
                  /\ UNCHANGED <<conn, target, version, persona, block, probed, raced, late, asked>>
                BY <3>0, <3>7 DEF AutoActivate, At, HandlerOK, Made
            <4>1. CASE Activates(h) /\ ~endpoint.live
                <5>1. End(p) /\ Still
                    BY <3>7, <4>0, <4>1 DEF AutoActivate, Still
                <5>. QED
                    BY <5>1, QuietEnd
            <4>2. CASE ~(Activates(h) /\ ~endpoint.live)
                <5>. DEFINE s == IF Activates(h) THEN h.v ELSE h.seen
                            r == [h EXCEPT !.pc = "activate", !.seen = s]
                <5>1. /\ endpoint' = IF Activates(h)
                                     THEN [endpoint EXCEPT !.active = Column(h.v, h.seen, @)]
                                     ELSE endpoint
                      /\ answered' = IF h.op = "prompt" THEN answered ELSE answered \cup {h.v}
                      /\ IF h.op = "prompt" THEN To(p, r) ELSE To(p, Idle)
                    BY <3>7, <4>2 DEF AutoActivate
                <5>2. /\ r.pc = "activate" /\ r.op = h.op /\ r.v = h.v /\ r.seen = s
                    BY <3>0 DEF Thread
                <5>3. r.seen = h.seen \/ (r.seen = h.v /\ endpoint.live)
                    BY <4>2, <5>2
                <5>. HIDE DEF r
                <5>4. answered' \subseteq answered \cup {h.v}
                    BY <5>1
                <5>5. \/ endpoint.live /\ endpoint' = [endpoint EXCEPT !.active = Column(h.v, h.seen, @)]
                      \/ h.pc = "auto" /\ h.seen # NoVersion /\ endpoint' = endpoint
                    BY <4>0, <4>2, <5>1 DEF Activates
                <5>6. CASE h.op = "prompt"
                    <6>1. Turns(p, r)
                        BY <3>3, <4>0, <5>1, <5>2, <5>3, <5>4, <5>5, <5>6 DEF Turns
                    <6>. QED
                        BY <6>1
                <5>7. CASE h.op # "prompt"
                    <6>1. Turns(p, Idle)
                        BY <3>3, <4>0, <5>1, <5>4, <5>5, <5>7 DEF Turns
                    <6>. QED
                        BY <6>1
                <5>. QED
                    BY <5>6, <5>7
            <4>. QED
                BY <4>1, <4>2
        <3>8. CASE Activate(p)
            <4>0. /\ h.pc = "activate" /\ h.v \in Versions /\ End(p)
                  /\ UNCHANGED <<conn, target, version, persona, block, probed, raced, late, asked>>
                BY <3>0, <3>8 DEF Activate, At, HandlerOK
            <4>1. CASE ~endpoint.live
                <5>1. Still
                    BY <3>8, <4>0, <4>1 DEF Activate, Still
                <5>. QED
                    BY <4>0, <5>1, QuietEnd
            <4>2. CASE endpoint.live
                <5>1. /\ endpoint' = [endpoint EXCEPT !.active = Column(h.v, h.seen, @)]
                      /\ answered' = IF h.op = "prompt" THEN answered \cup {h.v} ELSE answered
                    BY <3>8, <4>2 DEF Activate
                <5>2. answered' \subseteq answered \cup {h.v}
                      /\ (h.v \in answered' \ answered => h.op = "prompt")
                    BY <5>1
                <5>3. Turns(p, Idle)
                    BY <3>3, <4>0, <4>2, <5>1, <5>2 DEF Turns, End
                <5>. QED
                    BY <5>3
            <4>. QED
                BY <4>1, <4>2
        <3>. QED
            BY <2>4, <3>1, <3>2, <3>4, <3>5, <3>6, <3>7, <3>8 DEF HandlerStep
    <2>. QED
        BY <2>1, <2>2, <2>3, <2>4
<1>. QED
    BY <1>1, <1>2

-----------------------------------------------------------------------------
(* The endpoint serves.                                                    *)

\* What a handler has read of the endpoint stays true of it, and the version it has
\* committed stays, both as long as the endpoint does.
HandlerServes(h) ==
    /\ h.seen # NoVersion /\ endpoint.live => endpoint.active # NoVersion
    /\ h.pc \in Made \/ (h.pc = "activate" /\ h.op = "prompt") =>
         /\ version[h.v].live # "free"
         /\ endpoint.live => version[h.v].live = "live"

ServeInv ==
    /\ ~endpoint.live => LiveVersions = {} /\ endpoint.active = NoVersion
    /\ EndpointServes
    /\ \A v \in answered : version[v].live # "free"
    /\ \A p \in Threads : HandlerServes(thread[p])

\* One handler moves, and versions stay free, live or gone.
LEMMA ServeKept ==
    ASSUME TypeInv, ServeInv, NEW p \in Threads, NEW r, To(p, r), HandlerServes(r)',
           \A v \in Versions : version'[v].live = version[v].live,
           UNCHANGED <<endpoint, answered>>
    PROVE  ServeInv'
<1>1. thread' = [thread EXCEPT ![p] = r] /\ thread \in [Threads -> Thread]
    BY DEF To, TypeInv, TypeOK
<1>2. \A o \in Threads : thread'[o] = r \/ thread'[o] = thread[o]
    BY <1>1
<1>3. LiveVersions' = LiveVersions
    BY DEF LiveVersions
<1>4. \A o \in Threads : HandlerServes(thread[o])'
    <2>. SUFFICES ASSUME NEW o \in Threads, thread'[o] = thread[o] PROVE HandlerServes(thread[o])'
        BY <1>2 DEF HandlerServes
    <2>1. HandlerServes(thread[o]) /\ HandlerOK(thread[o])
        BY DEF ServeInv, TypeInv
    <2>. QED
        BY <2>1 DEF HandlerServes, HandlerOK
<1>5. \A v \in answered : v \in Versions
    BY DEF TypeInv, TypeOK
<1>. QED
    BY <1>3, <1>4, <1>5 DEF ServeInv, EndpointServes

LEMMA ServeInvStep ==
    ASSUME TypeInv, ServeInv, [Next]_vars
    PROVE  ServeInv'
<1>0. /\ thread \in [Threads -> Thread] /\ version \in [Versions -> Version]
      /\ endpoint \in [live: BOOLEAN, active: Versions \cup {NoVersion}]
      /\ answered \subseteq Versions /\ \A o \in Threads : HandlerOK(thread[o])
      /\ NoVersion \notin Versions
    BY DeploymentsAssumption DEF TypeInv, TypeOK
<1>1. CASE Still /\ UNCHANGED thread
    BY <1>1 DEF Still, ServeInv, EndpointServes, LiveVersions, HandlerServes
<1>2. ASSUME NEW p \in Threads, Quiet(p)
      PROVE  ServeInv'
    <2>1. PICK r : Fresh(p, r) /\ To(p, r)
        BY <1>2 DEF Quiet
    <2>2. HandlerServes(thread[p]) /\ UNCHANGED <<version, endpoint, answered>>
        BY <1>2 DEF ServeInv, Quiet, Still
    <2>3. HandlerServes(r)'
        BY <2>1, <2>2 DEF Fresh, HandlerServes
    <2>. QED
        BY <2>1, <2>2, <2>3, ServeKept
<1>3. ASSUME NEW p \in Threads, DropTarget(p) \/ DropPersona(p) \/ ApiDeleteBlock(p) \/ ApiCreateBlock(p)
      PROVE  ServeInv'
    <2>1. UNCHANGED <<endpoint, answered>>
        BY <1>3 DEF DropTarget, DropPersona, ApiDeleteBlock, ApiCreateBlock, history
    <2>2. \A v \in Versions : version'[v].live = version[v].live
        <3>1. \A v \in Versions : version[v] \in Version
            BY <1>0
        <3>2. CASE DropTarget(p)
            BY <3>1, <3>2 DEF DropTarget, Version
        <3>3. CASE DropPersona(p)
            BY <3>1, <3>3 DEF DropPersona, Version
        <3>4. CASE ApiDeleteBlock(p)
            BY <3>1, <3>4 DEF ApiDeleteBlock, Version
        <3>5. CASE ApiCreateBlock(p)
            BY <3>5 DEF ApiCreateBlock
        <3>. QED
            BY <1>3, <3>2, <3>3, <3>4, <3>5
    <2>3. CASE DropTarget(p) \/ DropPersona(p)
        <3>1. To(p, Idle)
            BY <2>3 DEF DropTarget, DropPersona, End
        <3>2. HandlerServes(Idle)'
            BY IdleOK DEF HandlerServes, Made
        <3>. QED
            BY <2>1, <2>2, <3>1, <3>2, ServeKept
    <2>4. CASE ApiDeleteBlock(p) \/ ApiCreateBlock(p)
        <3>1. To(p, thread[p])
            BY <1>0, <2>4 DEF ApiDeleteBlock, ApiCreateBlock, Request, To
        <3>2. HandlerServes(thread[p])' 
            <4>1. HandlerServes(thread[p]) /\ HandlerOK(thread[p]) /\ UNCHANGED thread
                BY <1>0, <2>4 DEF ServeInv, ApiDeleteBlock, ApiCreateBlock, Request
            <4>. QED
                BY <2>1, <2>2, <4>1 DEF HandlerServes, HandlerOK
        <3>3. PICK r : r = thread[p]
            OBVIOUS
        <3>4. thread'[p] = r
            BY <2>4, <3>3 DEF ApiDeleteBlock, ApiCreateBlock, Request
        <3>5. HandlerServes(r)'
            BY <3>2, <3>4 DEF HandlerServes
        <3>. QED
            BY <2>1, <2>2, <3>1, <3>3, <3>5, ServeKept
    <2>. QED
        BY <1>3, <2>3, <2>4
<1>4. ASSUME NEW p \in Threads, DeleteEndpoint(p)
      PROVE  ServeInv'
    <2>1. /\ endpoint'.live = FALSE /\ endpoint'.active = NoVersion
          /\ UNCHANGED <<thread, answered>>
          /\ version' = [v \in Versions |-> IF version[v].live = "live"
                                            THEN [FreeVersion EXCEPT !.live = "gone"]
                                            ELSE version[v]]
        BY <1>4 DEF DeleteEndpoint, Request, history
    <2>2. [FreeVersion EXCEPT !.live = "gone"].live = "gone"
        BY DEF FreeVersion
    <2>3. /\ LiveVersions' = {}
          /\ \A v \in Versions : version[v].live # "free" => version'[v].live # "free"
        BY <2>1, <2>2 DEF LiveVersions
    <2>4. \A o \in Threads : HandlerServes(thread[o])'
        BY <1>0, <2>1, <2>3 DEF ServeInv, HandlerServes, HandlerOK
    <2>. QED
        BY <1>0, <2>1, <2>3, <2>4 DEF ServeInv, EndpointServes
<1>5. ASSUME NEW p \in Threads, NEW v \in Versions, NEW r, Creates(p, v, r)
      PROVE  ServeInv'
    <2>1. /\ endpoint.live /\ version[v].live = "free" /\ UNCHANGED <<endpoint, answered>>
          /\ version'[v].live = "live" /\ \A u \in Versions \ {v} : version'[u] = version[u]
          /\ r.v = v /\ r.seen = thread[p].seen /\ r.pc \in Made
          /\ thread'[p] = r /\ \A o \in Threads \ {p} : thread'[o] = thread[o]
        BY <1>0, <1>5 DEF Creates, Accepted, NewVersion, To, Made
    <2>2. LiveVersions' = LiveVersions \cup {v}
        BY <2>1 DEF LiveVersions
    <2>3. HandlerServes(thread[p])'
        BY <2>1 DEF ServeInv, HandlerServes
    <2>4. ASSUME NEW o \in Threads \ {p} PROVE HandlerServes(thread[o])'
        <3>1. HandlerServes(thread[o]) /\ HandlerOK(thread[o]) /\ thread'[o] = thread[o]
            BY <1>0, <2>1 DEF ServeInv
        <3>. QED
            BY <2>1, <3>1 DEF HandlerServes, HandlerOK
    <2>5. EndpointServes' /\ \A u \in answered' : version'[u].live # "free"
        BY <1>0, <2>1, <2>2 DEF ServeInv, EndpointServes
    <2>. QED
        BY <2>1, <2>3, <2>4, <2>5 DEF ServeInv
<1>6. ASSUME NEW p \in Threads, NEW r, Reads(p, r) \/ Links(p, r)
      PROVE  ServeInv'
    <2>1. UNCHANGED <<endpoint, answered>> /\ To(p, r)
        BY <1>6 DEF Reads, Links, ReadBlocks, tables
    <2>2. \A v \in Versions : version'[v].live = version[v].live
        BY <1>0, <1>6 DEF Reads, Links, ReadBlocks, tables, Version
    <2>3. /\ r.seen = thread[p].seen /\ r.v = thread[p].v /\ thread[p].pc \in Made /\ r.v \in Versions
        BY <1>0, <1>6 DEF Reads, Links, Made, HandlerOK
    <2>4. HandlerServes(r)'
        BY <2>1, <2>2, <2>3 DEF ServeInv, HandlerServes
    <2>. QED
        BY <2>1, <2>2, <2>4, ServeKept
<1>7. ASSUME NEW p \in Threads, NEW r, Turns(p, r)
      PROVE  ServeInv'
    <2>. DEFINE h == thread[p]
    <2>0. HandlerServes(h)
        BY DEF ServeInv
    <2>1. /\ UNCHANGED version /\ h.v \in Versions /\ answered' \subseteq answered \cup {h.v}
          /\ thread'[p] = r /\ \A o \in Threads \ {p} : thread'[o] = thread[o]
        BY <1>0, <1>7 DEF Turns, To
    <2>2. endpoint'.live = endpoint.live /\ (endpoint.live => endpoint'.active # NoVersion)
          /\ (~endpoint.live => endpoint' = endpoint)
        <3>1. CASE endpoint.live /\ endpoint' = [endpoint EXCEPT !.active = Column(h.v, h.seen, @)]
            BY <1>0, <2>0, <2>1, <3>1 DEF HandlerServes, Column
        <3>2. CASE h.pc = "auto" /\ h.seen # NoVersion /\ endpoint' = endpoint
            BY <2>0, <3>2 DEF HandlerServes
        <3>. QED
            BY <1>7, <3>1, <3>2 DEF Turns
    <2>3. LiveVersions' = LiveVersions
        BY <2>1 DEF LiveVersions
    <2>4. \A v \in answered' : version'[v].live # "free"
        <3>1. h.v \in answered' \ answered => version[h.v].live # "free"
            BY <1>7, <2>0 DEF Turns, HandlerServes, Made
        <3>. QED
            BY <2>1, <3>1 DEF ServeInv
    <2>5. EndpointServes'
        BY <2>2, <2>3 DEF ServeInv, EndpointServes
    <2>6. \A o \in Threads \ {p} : HandlerServes(thread[o])'
        BY <2>1, <2>2 DEF ServeInv, HandlerServes
    <2>7. HandlerServes(thread[p])'
        <3>1. CASE r = Idle
            BY <2>1, <3>1, IdleOK DEF HandlerServes, Made
        <3>2. CASE h.pc = "auto" /\ r.v = h.v
            <4>1. version[r.v].live # "free" /\ (endpoint.live => version[r.v].live = "live")
                BY <2>0, <3>2 DEF HandlerServes, Made
            <4>. QED
                BY <2>1, <2>2, <4>1 DEF HandlerServes
        <3>. QED
            BY <1>7, <3>1, <3>2 DEF Turns
    <2>. QED
        BY <2>2, <2>3, <2>4, <2>5, <2>6, <2>7 DEF ServeInv
<1>. QED
    BY <1>1, <1>2, <1>3, <1>4, <1>5, <1>6, <1>7, VersionSteps

LEMMA ServeInvInit == Init => ServeInv
<1>. SUFFICES ASSUME Init PROVE ServeInv
    OBVIOUS
<1>1. PICK s \in Starts :
         /\ version = s.version /\ endpoint = [live |-> TRUE, active |-> s.active]
         /\ answered = {v \in Versions : s.version[v].live = "live"}
    BY DEF Init
<1>2. s.active \in LiveVersions \/ (s.active = NoVersion /\ LiveVersions = {})
    BY <1>1, StartsAssumption DEF LiveVersions
<1>3. endpoint.live /\ endpoint.active = s.active /\ \A v \in answered : version[v].live # "free"
    BY <1>1
<1>4. NoVersion \notin LiveVersions
    BY DeploymentsAssumption DEF LiveVersions
<1>5. \A p \in Threads : HandlerServes(thread[p])
    BY IdleOK DEF Init, HandlerServes, Made
<1>. QED
    BY <1>2, <1>3, <1>4, <1>5 DEF ServeInv, EndpointServes

-----------------------------------------------------------------------------
(* The blocks of a version.                                                *)

Kept(v) == version[v].live = "live" =>
    /\ version[v].blocks = asked[v].blocks \cap LiveBlocks
    /\ \A b \in asked[v].blocks : block[b] # "free"

\* Past the links the version has its blocks; before them the handler still has them.
HandlerKeeps(h) ==
    /\ h.pc = "auto" \/ (h.pc = "activate" /\ h.op = "prompt") => Kept(h.v)
    /\ h.pc \in {"blocks", "link"} => asked[h.v].blocks = h.blocks
    /\ h.pc = "link" => \A b \in h.blocks : block[b] # "free"

BlockInv ==
    /\ \A v \in answered : Kept(v)
    /\ \A p \in Threads : HandlerKeeps(thread[p])
    /\ \A p, o \in Threads :
          p # o /\ thread[p].pc \in {"blocks", "link"} /\ thread[o].pc \in {"blocks", "link"}
          => thread[p].v # thread[o].v

\* The blocks of no other version change, and what was kept is kept.
LEMMA BlocksMoved ==
    ASSUME TypeInv, BlockInv, NEW p \in Threads, NEW r, To(p, r),
           \A v \in Versions : Kept(v) => Kept(v)',
           HandlerKeeps(r)', UNCHANGED block,
           \A v \in answered' \ answered : Kept(v)', answered' \subseteq Versions,
           \A o \in Threads \ {p} : thread[o].pc \in {"blocks", "link"} =>
                  asked'[thread[o].v].blocks = asked[thread[o].v].blocks,
           r.pc \in {"blocks", "link"} =>
                  \A o \in Threads \ {p} : thread[o].pc \in {"blocks", "link"} => r.v # thread[o].v
    PROVE  BlockInv'
<1>1. thread' = [thread EXCEPT ![p] = r] /\ thread \in [Threads -> Thread]
    BY DEF To, TypeInv, TypeOK
<1>2. thread'[p] = r /\ \A o \in Threads \ {p} : thread'[o] = thread[o]
    BY <1>1
<1>3. \A o \in Threads \ {p} : HandlerKeeps(thread[o])'
    <2>. SUFFICES ASSUME NEW o \in Threads \ {p} PROVE HandlerKeeps(thread[o])'
        OBVIOUS
    <2>1. HandlerKeeps(thread[o]) /\ HandlerOK(thread[o]) /\ thread'[o] = thread[o]
        BY <1>2 DEF BlockInv, TypeInv
    <2>2. thread[o].pc \in Made \cup {"activate"} => thread[o].v \in Versions
        BY <2>1 DEF HandlerOK
    <2>3. thread[o].pc = "auto" \/ (thread[o].pc = "activate" /\ thread[o].op = "prompt")
          => Kept(thread[o].v)'
        BY <2>1, <2>2 DEF HandlerKeeps, Made
    <2>4. (thread[o].pc = "auto" \/ (thread[o].pc = "activate" /\ thread[o].op = "prompt")
           => Kept(thread[o].v))'
        BY <2>1, <2>3 DEF Kept
    <2>. QED
        BY <2>1, <2>4 DEF HandlerKeeps
<1>4. HandlerKeeps(thread[p])'
    BY <1>2 DEF HandlerKeeps, Kept
<1>5. \A v \in answered' : Kept(v)'
    BY DEF BlockInv
<1>6. \A o, q \in Threads :
          o # q /\ thread'[o].pc \in {"blocks", "link"} /\ thread'[q].pc \in {"blocks", "link"}
          => thread'[o].v # thread'[q].v
    BY <1>2 DEF BlockInv
<1>. QED
    BY <1>3, <1>4, <1>5, <1>6 DEF BlockInv

LEMMA BlockInvStep ==
    ASSUME TypeInv, ServeInv, BlockInv, [Next]_vars
    PROVE  BlockInv'
<1>0. /\ thread \in [Threads -> Thread] /\ version \in [Versions -> Version]
      /\ asked \in [Versions -> Version] /\ block \in [Blocks -> Life]
      /\ answered \subseteq Versions /\ \A o \in Threads : HandlerOK(thread[o])
      /\ \A v \in Versions : version[v] \in Version /\ asked[v] \in Version
    BY DEF TypeInv, TypeOK
<1>1. CASE Still /\ UNCHANGED thread
    <2>1. \A v : Kept(v) => Kept(v)'
        BY <1>1 DEF Still, Kept, LiveBlocks
    <2>. QED
        BY <1>1, <2>1 DEF Still, BlockInv, HandlerKeeps
<1>2. ASSUME NEW p \in Threads, Quiet(p)
      PROVE  BlockInv'
    <2>1. PICK r : Fresh(p, r) /\ To(p, r)
        BY <1>2 DEF Quiet
    <2>2. UNCHANGED <<version, block, asked, answered>>
        BY <1>2 DEF Quiet, Still
    <2>3. \A v \in Versions : Kept(v) => Kept(v)'
        BY <2>2 DEF Kept, LiveBlocks
    <2>4. HandlerKeeps(r)' /\ r.pc \notin {"blocks", "link"}
        BY <2>1 DEF HandlerKeeps, Fresh, Made
    <2>. QED
        BY <1>0, <2>1, <2>2, <2>3, <2>4, BlocksMoved
<1>3. ASSUME NEW p \in Threads, DropTarget(p) \/ DropPersona(p)
      PROVE  BlockInv'
    <2>1. UNCHANGED <<block, asked, answered>> /\ To(p, Idle)
        BY <1>3 DEF DropTarget, DropPersona, history, End
    <2>2. \A v \in Versions : version'[v].live = version[v].live /\ version'[v].blocks = version[v].blocks
        <3>1. CASE DropTarget(p)
            BY <1>0, <3>1 DEF DropTarget, Version
        <3>2. CASE DropPersona(p)
            BY <1>0, <3>2 DEF DropPersona, Version
        <3>. QED
            BY <1>3, <3>1, <3>2
    <2>3. \A v \in Versions : Kept(v) => Kept(v)'
        BY <2>1, <2>2 DEF Kept, LiveBlocks
    <2>4. HandlerKeeps(Idle)' /\ Idle.pc \notin {"blocks", "link"}
        BY IdleOK DEF HandlerKeeps
    <2>. QED
        BY <1>0, <2>1, <2>3, <2>4, BlocksMoved
<1>4. ASSUME NEW p \in Threads, DeleteEndpoint(p)
      PROVE  BlockInv'
    <2>1. /\ UNCHANGED <<thread, block, asked, answered>>
          /\ version' = [v \in Versions |-> IF version[v].live = "live"
                                            THEN [FreeVersion EXCEPT !.live = "gone"]
                                            ELSE version[v]]
        BY <1>4 DEF DeleteEndpoint, Request, history
    <2>2. [FreeVersion EXCEPT !.live = "gone"].live = "gone"
        BY DEF FreeVersion
    <2>3. \A v \in Versions : Kept(v)'
        BY <2>1, <2>2 DEF Kept
    <2>4. \A o \in Threads : HandlerKeeps(thread[o])'
        BY <1>0, <2>1, <2>3 DEF BlockInv, HandlerKeeps, HandlerOK, Made
    <2>. QED
        BY <1>0, <2>1, <2>3, <2>4 DEF BlockInv
<1>5. ASSUME NEW p \in Threads, ApiDeleteBlock(p) \/ ApiCreateBlock(p)
      PROVE  BlockInv'
    <2>1. UNCHANGED <<thread, asked, answered>>
        BY <1>5 DEF ApiDeleteBlock, ApiCreateBlock, Request, history
    <2>2. /\ \A v \in Versions : Kept(v) => Kept(v)'
          /\ \A b \in Blocks : block[b] # "free" => block'[b] # "free"
        <3>1. CASE ApiDeleteBlock(p)
            <4>1. PICK b \in LiveBlocks :
                    /\ block' = [block EXCEPT ![b] = "gone"]
                    /\ version' = [v \in Versions |-> [version[v] EXCEPT !.blocks = @ \ {b}]]
                BY <3>1 DEF ApiDeleteBlock
            <4>2. \A v \in Versions : /\ version'[v].live = version[v].live
                                      /\ version'[v].blocks = version[v].blocks \ {b}
                BY <1>0, <4>1 DEF Version
            <4>3. LiveBlocks' = LiveBlocks \ {b}
                BY <1>0, <4>1 DEF LiveBlocks
            <4>4. \A c \in Blocks : block[c] # "free" => block'[c] # "free"
                BY <1>0, <4>1
            <4>5. \A v \in Versions : \A c \in asked[v].blocks : c \in Blocks
                BY <1>0 DEF Version
            <4>. QED
                BY <2>1, <4>2, <4>3, <4>4, <4>5 DEF Kept
        <3>2. CASE ApiCreateBlock(p)
            <4>1. PICK b \in Blocks : block[b] = "free" /\ block' = [block EXCEPT ![b] = "live"]
                                      /\ UNCHANGED version
                BY <3>2 DEF ApiCreateBlock
            <4>2. LiveBlocks' = LiveBlocks \cup {b}
                BY <1>0, <4>1 DEF LiveBlocks
            <4>3. \A c \in Blocks : block[c] # "free" => block'[c] # "free"
                BY <1>0, <4>1
            <4>4. \A v \in Versions : \A c \in asked[v].blocks : c \in Blocks
                BY <1>0 DEF Version
            <4>5. \A v \in Versions : Kept(v) => Kept(v)'
                BY <2>1, <4>1, <4>2, <4>3, <4>4 DEF Kept
            <4>. QED
                BY <4>3, <4>5
        <3>. QED
            BY <1>5, <3>1, <3>2
    <2>3. \A o \in Threads : HandlerKeeps(thread[o])'
        <3>. SUFFICES ASSUME NEW o \in Threads PROVE HandlerKeeps(thread[o])'
            OBVIOUS
        <3>1. /\ HandlerKeeps(thread[o]) /\ thread[o].blocks \subseteq Blocks
              /\ thread[o].pc \in Made \cup {"activate"} => thread[o].v \in Versions
            BY <1>0 DEF BlockInv, HandlerOK, Thread
        <3>2. (thread[o].pc = "auto" \/ (thread[o].pc = "activate" /\ thread[o].op = "prompt"))
              => Kept(thread[o].v)'
            BY <2>1, <2>2, <3>1 DEF HandlerKeeps, Made
        <3>3. (thread[o].pc = "auto" \/ (thread[o].pc = "activate" /\ thread[o].op = "prompt")
               => Kept(thread[o].v))'
            BY <2>1, <3>2 DEF Kept
        <3>. QED
            BY <2>1, <2>2, <3>1, <3>3 DEF HandlerKeeps
    <2>. QED
        BY <1>0, <2>1, <2>2, <2>3 DEF BlockInv
<1>6. ASSUME NEW p \in Threads, NEW v \in Versions, NEW r, Creates(p, v, r)
      PROVE  BlockInv'
    <2>1. /\ version[v].live = "free" /\ UNCHANGED <<block, answered>> /\ To(p, r)
          /\ version'[v].blocks = {} /\ asked'[v].blocks = r.blocks
          /\ \A u \in Versions \ {v} : version'[u] = version[u] /\ asked'[u] = asked[u]
          /\ r.v = v /\ r.pc = (IF r.blocks # {} THEN "blocks" ELSE "auto")
        BY <1>0, <1>6 DEF Creates, NewVersion
    <2>2. \A u \in Versions \ {v} : Kept(u) => Kept(u)'
        BY <2>1 DEF Kept, LiveBlocks
    <2>3. r.blocks = {} => Kept(v)'
        BY <2>1 DEF Kept
    <2>4. HandlerKeeps(r)'
        <3>1. r.blocks # {} => r.pc = "blocks"
            BY <2>1
        <3>2. r.blocks = {} => r.pc = "auto" /\ Kept(r.v)'
            BY <2>1, <2>3
        <3>. QED
            BY <2>1, <3>1, <3>2 DEF HandlerKeeps
    <2>5. \A o \in Threads : thread[o].pc \in Made => thread[o].v \in Versions \ {v}
        BY <1>0, <2>1 DEF ServeInv, HandlerServes, HandlerOK
    <2>6. \A o \in Threads : thread[o].pc \in {"auto", "activate"} /\ (thread[o].pc = "activate" => thread[o].op = "prompt")
                             => thread[o].v \in Versions \ {v}
        BY <1>0, <2>1 DEF ServeInv, HandlerServes, HandlerOK, Made
    <2>7. \A u \in answered : u # v
        BY <2>1 DEF ServeInv
    <2>8. thread'[p] = r /\ \A o \in Threads \ {p} : thread'[o] = thread[o]
        BY <1>0, <2>1 DEF To
    <2>9. ASSUME NEW o \in Threads \ {p} PROVE HandlerKeeps(thread[o])'
        <3>1. HandlerKeeps(thread[o]) /\ thread'[o] = thread[o]
            BY <2>8 DEF BlockInv
        <3>2. (thread[o].pc = "auto" \/ (thread[o].pc = "activate" /\ thread[o].op = "prompt"))
              => Kept(thread[o].v)'
            BY <2>2, <2>6, <3>1 DEF HandlerKeeps
        <3>3. (thread[o].pc = "auto" \/ (thread[o].pc = "activate" /\ thread[o].op = "prompt")
               => Kept(thread[o].v))'
            BY <3>1, <3>2 DEF Kept
        <3>. QED
            BY <2>1, <2>5, <3>1, <3>3 DEF HandlerKeeps, Made
    <2>10. HandlerKeeps(thread[p])'
        BY <2>4, <2>8 DEF HandlerKeeps, Kept
    <2>11. \A o, q \in Threads :
              o # q /\ thread'[o].pc \in {"blocks", "link"} /\ thread'[q].pc \in {"blocks", "link"}
              => thread'[o].v # thread'[q].v
        BY <2>1, <2>5, <2>8 DEF BlockInv, Made
    <2>12. \A u \in answered' : Kept(u)'
        BY <1>0, <2>1, <2>2, <2>7 DEF BlockInv
    <2>. QED
        BY <2>9, <2>10, <2>11, <2>12 DEF BlockInv
<1>7. ASSUME NEW p \in Threads, NEW r, Reads(p, r)
      PROVE  BlockInv'
    <2>. DEFINE h == thread[p]
    <2>1. /\ UNCHANGED <<version, block, answered>> /\ To(p, r) /\ h.v \in Versions /\ h.pc = "blocks"
          /\ asked' = [asked EXCEPT ![h.v].blocks = @ \cap LiveBlocks]
          /\ r.pc = "link" /\ r.v = h.v /\ r.blocks = h.blocks \cap LiveBlocks
        BY <1>0, <1>7 DEF Reads, ReadBlocks, tables, Made, HandlerOK
    <2>2. /\ asked'[h.v].blocks = asked[h.v].blocks \cap LiveBlocks
          /\ \A u \in Versions \ {h.v} : asked'[u] = asked[u]
        BY <1>0, <2>1 DEF Version
    <2>3. \A v \in Versions : Kept(v) => Kept(v)'
        BY <2>1, <2>2 DEF Kept, LiveBlocks
    <2>4. HandlerKeeps(h)
        BY DEF BlockInv
    <2>5. HandlerKeeps(r)'
        BY <2>1, <2>2, <2>4 DEF HandlerKeeps, LiveBlocks
    <2>6. \A o \in Threads \ {p} : thread[o].pc \in {"blocks", "link"} => thread[o].v # h.v
        BY <2>1 DEF BlockInv
    <2>7. \A o \in Threads \ {p} : thread[o].pc \in {"blocks", "link"} =>
                  asked'[thread[o].v].blocks = asked[thread[o].v].blocks
        BY <1>0, <2>2, <2>6 DEF HandlerOK, Made
    <2>. QED
        BY <1>0, <2>1, <2>3, <2>5, <2>6, <2>7, BlocksMoved
<1>8. ASSUME NEW p \in Threads, NEW r, Links(p, r)
      PROVE  BlockInv'
    <2>0. PICK h : h = thread[p]
        OBVIOUS
    <2>1. /\ UNCHANGED <<block, asked, answered>> /\ To(p, r) /\ h.v \in Versions /\ h.pc = "link"
          /\ h.blocks \subseteq LiveBlocks
          /\ version' = [version EXCEPT ![h.v].blocks = h.blocks]
          /\ r.pc = "auto" /\ r.v = h.v
        BY <1>8, <2>0 DEF Links, LiveVersions
    <2>2. /\ version'[h.v].blocks = h.blocks
          /\ \A u \in Versions \ {h.v} : version'[u] = version[u]
        BY <1>0, <2>1 DEF Version
    <2>3. HandlerKeeps(h)
        BY <2>0 DEF BlockInv
    <2>4. Kept(h.v)'
        BY <2>1, <2>2, <2>3 DEF HandlerKeeps, Kept, LiveBlocks
    <2>5. \A v \in Versions : Kept(v) => Kept(v)'
        BY <2>1, <2>2, <2>4 DEF Kept, LiveBlocks
    <2>6. HandlerKeeps(r)'
        <3>1. Kept(r.v)'
            BY <2>1, <2>4
        <3>. QED
            BY <2>1, <3>1 DEF HandlerKeeps
    <2>. QED
        BY <1>0, <2>1, <2>5, <2>6, BlocksMoved
<1>9. ASSUME NEW p \in Threads, NEW r, Turns(p, r)
      PROVE  BlockInv'
    <2>0. PICK h : h = thread[p]
        OBVIOUS
    <2>1. /\ UNCHANGED <<version, block, asked>> /\ To(p, r) /\ h.v \in Versions
          /\ answered' \subseteq answered \cup {h.v}
          /\ h.v \in answered' \ answered => h.pc = "auto" \/ h.op = "prompt"
          /\ h.pc \in {"auto", "activate"}
          /\ r = Idle \/ (h.pc = "auto" /\ r.pc = "activate" /\ r.v = h.v)
        BY <1>9, <2>0 DEF Turns
    <2>2. \A v \in Versions : Kept(v) => Kept(v)'
        BY <2>1 DEF Kept, LiveBlocks
    <2>3. HandlerKeeps(h)
        BY <2>0 DEF BlockInv
    <2>4. h.pc = "auto" \/ h.op = "prompt" => Kept(h.v) /\ Kept(h.v)'
        BY <2>1, <2>2, <2>3 DEF HandlerKeeps
    <2>5. HandlerKeeps(r)' /\ r.pc \notin {"blocks", "link"}
        <3>1. CASE r = Idle
            BY <3>1, IdleOK DEF HandlerKeeps
        <3>2. CASE h.pc = "auto" /\ r.pc = "activate" /\ r.v = h.v
            <4>1. Kept(r.v)'
                BY <2>4, <3>2
            <4>. QED
                BY <3>2, <4>1 DEF HandlerKeeps
        <3>. QED
            BY <2>1, <3>1, <3>2
    <2>6. \A v \in answered' \ answered : Kept(v)'
        BY <2>1, <2>4
    <2>. QED
        BY <1>0, <2>1, <2>2, <2>5, <2>6, BlocksMoved
<1>. QED
    BY <1>1, <1>2, <1>3, <1>4, <1>5, <1>6, <1>7, <1>8, <1>9, VersionSteps

LEMMA BlockInvInit == Init => BlockInv
<1>. SUFFICES ASSUME Init PROVE BlockInv
    OBVIOUS
<1>1. PICK s \in Starts : version = s.version /\ asked = s.version /\ block = s.block
                          /\ answered = {v \in Versions : s.version[v].live = "live"}
    BY DEF Init
<1>2. \A v \in Versions : version[v].live = "live" => \A b \in version[v].blocks : block[b] = "live"
    BY <1>1, StartsAssumption
<1>3. \A v \in Versions : version[v].blocks \subseteq Blocks
    BY TypeInvInit DEF TypeInv, TypeOK, Version
<1>4. \A v \in Versions : Kept(v)
    BY <1>1, <1>2, <1>3 DEF Kept, LiveBlocks
<1>5. \A p \in Threads : thread[p].pc = "idle"
    BY IdleOK DEF Init
<1>. QED
    BY <1>1, <1>4, <1>5 DEF BlockInv, HandlerKeeps

LEMMA WholeAlways == Spec => [](TypeInv /\ ServeInv /\ BlockInv)
<1>. DEFINE I == TypeInv /\ ServeInv /\ BlockInv
<1>1. Init => I
    BY TypeInvInit, ServeInvInit, BlockInvInit
<1>2. I /\ TypeInv' /\ [Next]_vars => I'
    BY ServeInvStep, BlockInvStep
<1>. QED
    BY <1>1, <1>2, TypeInvAlways, PTL DEF Spec

\* However many versions are created at once, they are numbered 1, 2, 3... by the unique
\* constraint that create_endpoint_version_record meets; one that was answered has the blocks
\* asked for that still exist, and the endpoint has then a version that is live.
THEOREM VersionsAlwaysWhole == Spec => []VersionsAreWhole
<1>1. TypeInv /\ ServeInv /\ BlockInv => VersionsAreWhole
    BY DEF TypeInv, ServeInv, BlockInv, Kept, VersionsAreWhole, BlocksAreKept, LiveVersions
<1>. QED
    BY <1>1, WholeAlways, PTL

-----------------------------------------------------------------------------
(* The target, the persona and the pin of a version.                       *)

\* A version that names what is being deleted has been committed meanwhile.
DropKnown(h) ==
    \A v \in LiveVersions :
        /\ h.pc = "dropTarget" /\ version[v].target = h.t => h.t \in late
        /\ h.pc = "dropPersona" /\ version[v].persona = h.persona => h.persona \in late

RaceInv ==
    /\ UnboundOnlyByRace
    /\ \A v \in LiveVersions : version[v].pin = asked[v].pin
    /\ \A p \in Threads : DropKnown(thread[p])

\* The versions keep what they are bound to.
LEMMA BoundKept ==
    ASSUME TypeInv, RaceInv, NEW p \in Threads, NEW r, To(p, r), DropKnown(r)', UNCHANGED late,
           LiveVersions' = LiveVersions,
           \A v \in Versions :
              /\ version'[v].target = version[v].target /\ version'[v].persona = version[v].persona
              /\ version'[v].pin = version[v].pin
              /\ asked'[v].target = asked[v].target /\ asked'[v].persona = asked[v].persona
              /\ asked'[v].pin = asked[v].pin
    PROVE  RaceInv'
<1>1. thread' = [thread EXCEPT ![p] = r] /\ thread \in [Threads -> Thread]
    BY DEF To, TypeInv, TypeOK
<1>2. thread'[p] = r /\ \A o \in Threads \ {p} : thread'[o] = thread[o]
    BY <1>1
<1>3. \A v \in LiveVersions : v \in Versions
    BY DEF LiveVersions
<1>4. \A o \in Threads : DropKnown(thread[o])'
    BY <1>2, <1>3 DEF RaceInv, DropKnown
<1>5. UnboundOnlyByRace' /\ \A v \in LiveVersions' : version'[v].pin = asked'[v].pin
    BY <1>3 DEF RaceInv, UnboundOnlyByRace
<1>. QED
    BY <1>4, <1>5 DEF RaceInv

LEMMA RaceInvStep ==
    ASSUME TypeInv, RaceInv, [Next]_vars
    PROVE  RaceInv'
<1>0. /\ thread \in [Threads -> Thread] /\ version \in [Versions -> Version]
      /\ asked \in [Versions -> Version] /\ \A o \in Threads : HandlerOK(thread[o])
      /\ \A v \in Versions : version[v] \in Version /\ asked[v] \in Version
      /\ \A v \in LiveVersions : v \in Versions
    BY DEF TypeInv, TypeOK, LiveVersions
<1>1. CASE Still /\ UNCHANGED thread
    BY <1>1 DEF Still, RaceInv, UnboundOnlyByRace, DropKnown, LiveVersions
<1>2. ASSUME NEW p \in Threads, Quiet(p)
      PROVE  RaceInv'
    <2>1. PICK r : Fresh(p, r) /\ To(p, r)
        BY <1>2 DEF Quiet
    <2>2. UNCHANGED <<version, asked, late>> /\ LiveVersions' = LiveVersions
        BY <1>2 DEF Quiet, Still, LiveVersions
    <2>3. DropKnown(r)'
        BY <2>1, <2>2 DEF DropKnown, Fresh, InUse, PersonaInUse
    <2>. QED
        BY <2>1, <2>2, <2>3, BoundKept
<1>3. ASSUME NEW p \in Threads, DropTarget(p)
      PROVE  RaceInv'
    <2>0. PICK t : t = thread[p].t
        OBVIOUS
    <2>1. /\ t \in Targets /\ UNCHANGED <<asked, late>> /\ To(p, Idle)
          /\ thread[p].pc = "dropTarget"
          /\ version' = [v \in Versions |-> IF version[v].target = t
                                            THEN [version[v] EXCEPT !.target = NoTarget]
                                            ELSE version[v]]
        BY <1>0, <1>3, <2>0 DEF DropTarget, At, End, HandlerOK, history
    <2>2. \A v \in Versions :
             /\ version'[v].target = IF version[v].target = t THEN NoTarget ELSE version[v].target
             /\ version'[v].live = version[v].live /\ version'[v].persona = version[v].persona
             /\ version'[v].pin = version[v].pin
        BY <1>0, <2>1 DEF Version
    <2>3. LiveVersions' = LiveVersions
        BY <2>2 DEF LiveVersions
    <2>4. DropKnown(thread[p])
        BY DEF RaceInv
    <2>5. \A v \in LiveVersions : version[v].target = t => t \in late
        BY <2>0, <2>1, <2>4 DEF DropKnown
    <2>6. UnboundOnlyByRace'
        BY <1>0, <2>1, <2>2, <2>3, <2>5 DEF RaceInv, UnboundOnlyByRace
    <2>7. thread'[p] = Idle /\ \A o \in Threads \ {p} : thread'[o] = thread[o]
        BY <1>0, <2>1 DEF To
    <2>8. \A o \in Threads : DropKnown(thread[o])'
        <3>. SUFFICES ASSUME NEW o \in Threads \ {p} PROVE DropKnown(thread[o])'
            BY <2>7, IdleOK DEF DropKnown
        <3>1. DropKnown(thread[o]) /\ HandlerOK(thread[o]) /\ thread'[o] = thread[o]
            BY <1>0, <2>7 DEF RaceInv
        <3>2. thread[o].pc = "dropTarget" => thread[o].t # NoTarget
            BY <3>1, DeploymentsAssumption DEF HandlerOK
        <3>. QED
            BY <1>0, <2>1, <2>2, <2>3, <3>1, <3>2 DEF DropKnown
    <2>9. \A v \in LiveVersions' : version'[v].pin = asked'[v].pin
        BY <1>0, <2>1, <2>2, <2>3 DEF RaceInv
    <2>. QED
        BY <2>6, <2>8, <2>9 DEF RaceInv
<1>4. ASSUME NEW p \in Threads, DropPersona(p)
      PROVE  RaceInv'
    <2>0. PICK a : a = thread[p].persona
        OBVIOUS
    <2>1. /\ a \in Personas /\ UNCHANGED <<asked, late>> /\ To(p, Idle)
          /\ thread[p].pc = "dropPersona"
          /\ version' = [v \in Versions |-> IF version[v].persona = a
                                            THEN [version[v] EXCEPT !.persona = NoPersona]
                                            ELSE version[v]]
        BY <1>0, <1>4, <2>0 DEF DropPersona, At, End, HandlerOK, history
    <2>2. \A v \in Versions :
             /\ version'[v].persona = IF version[v].persona = a THEN NoPersona ELSE version[v].persona
             /\ version'[v].live = version[v].live /\ version'[v].target = version[v].target
             /\ version'[v].pin = version[v].pin
        BY <1>0, <2>1 DEF Version
    <2>3. LiveVersions' = LiveVersions
        BY <2>2 DEF LiveVersions
    <2>4. DropKnown(thread[p])
        BY DEF RaceInv
    <2>5. \A v \in LiveVersions : version[v].persona = a => a \in late
        BY <2>0, <2>1, <2>4 DEF DropKnown
    <2>6. UnboundOnlyByRace'
        BY <1>0, <2>1, <2>2, <2>3, <2>5 DEF RaceInv, UnboundOnlyByRace
    <2>7. thread'[p] = Idle /\ \A o \in Threads \ {p} : thread'[o] = thread[o]
        BY <1>0, <2>1 DEF To
    <2>8. \A o \in Threads : DropKnown(thread[o])'
        <3>. SUFFICES ASSUME NEW o \in Threads \ {p} PROVE DropKnown(thread[o])'
            BY <2>7, IdleOK DEF DropKnown
        <3>1. DropKnown(thread[o]) /\ HandlerOK(thread[o]) /\ thread'[o] = thread[o]
            BY <1>0, <2>7 DEF RaceInv
        <3>2. thread[o].pc = "dropPersona" => thread[o].persona # NoPersona
            BY <3>1, DeploymentsAssumption DEF HandlerOK
        <3>. QED
            BY <1>0, <2>1, <2>2, <2>3, <3>1, <3>2 DEF DropKnown
    <2>9. \A v \in LiveVersions' : version'[v].pin = asked'[v].pin
        BY <1>0, <2>1, <2>2, <2>3 DEF RaceInv
    <2>. QED
        BY <2>6, <2>8, <2>9 DEF RaceInv
<1>5. ASSUME NEW p \in Threads, DeleteEndpoint(p)
      PROVE  RaceInv'
    <2>1. version' = [v \in Versions |-> IF version[v].live = "live"
                                         THEN [FreeVersion EXCEPT !.live = "gone"]
                                         ELSE version[v]]
        BY <1>5 DEF DeleteEndpoint
    <2>2. [FreeVersion EXCEPT !.live = "gone"].live = "gone"
        BY DEF FreeVersion
    <2>3. LiveVersions' = {}
        BY <2>1, <2>2 DEF LiveVersions
    <2>. QED
        BY <2>3 DEF RaceInv, UnboundOnlyByRace, DropKnown
<1>6. ASSUME NEW p \in Threads, ApiDeleteBlock(p) \/ ApiCreateBlock(p)
      PROVE  RaceInv'
    <2>1. UNCHANGED <<thread, asked, late>>
        BY <1>6 DEF ApiDeleteBlock, ApiCreateBlock, Request, history
    <2>2. \A v \in Versions :
              /\ version'[v].target = version[v].target /\ version'[v].persona = version[v].persona
              /\ version'[v].pin = version[v].pin /\ version'[v].live = version[v].live
        BY <1>0, <1>6 DEF ApiDeleteBlock, ApiCreateBlock, Version
    <2>3. LiveVersions' = LiveVersions
        BY <2>2 DEF LiveVersions
    <2>4. PICK r : r = thread[p]
        OBVIOUS
    <2>5. To(p, r) /\ thread'[p] = r
        BY <1>0, <2>1, <2>4 DEF To
    <2>6. DropKnown(r)'
        BY <1>0, <2>1, <2>2, <2>3, <2>4 DEF RaceInv, DropKnown
    <2>. QED
        BY <2>1, <2>2, <2>3, <2>5, <2>6, BoundKept
<1>7. ASSUME NEW p \in Threads, NEW v \in Versions, NEW r, Creates(p, v, r)
      PROVE  RaceInv'
    <2>. DEFINE h == thread[p]
    <2>1. /\ version[v].live = "free" /\ version'[v].live = "live"
          /\ version'[v].target = h.t /\ version'[v].persona = h.persona /\ version'[v].pin = h.pin
          /\ asked'[v].target = h.t /\ asked'[v].persona = h.persona /\ asked'[v].pin = h.pin
          /\ \A u \in Versions \ {v} : version'[u] = version[u] /\ asked'[u] = asked[u]
          /\ late' = late \cup ({h.t, h.persona} \cap Dropping)
          /\ r.pc \in Made
          /\ thread'[p] = r /\ \A o \in Threads \ {p} : thread'[o] = thread[o]
        BY <1>0, <1>7 DEF Creates, NewVersion, To, Made
    <2>2. LiveVersions' = LiveVersions \cup {v} /\ v \notin LiveVersions
        BY <2>1 DEF LiveVersions
    <2>3. UnboundOnlyByRace' /\ \A u \in LiveVersions' : version'[u].pin = asked'[u].pin
        BY <1>0, <2>1, <2>2 DEF RaceInv, UnboundOnlyByRace
    <2>4. \A o \in Threads : DropKnown(thread[o])'
        <3>. SUFFICES ASSUME NEW o \in Threads \ {p} PROVE DropKnown(thread[o])'
            BY <2>1 DEF DropKnown, Made
        <3>1. DropKnown(thread[o]) /\ thread'[o] = thread[o]
            BY <2>1 DEF RaceInv
        <3>2. /\ thread[o].pc = "dropTarget" /\ h.t = thread[o].t => h.t \in late'
              /\ thread[o].pc = "dropPersona" /\ h.persona = thread[o].persona => h.persona \in late'
            BY <2>1 DEF Dropping
        <3>. QED
            BY <1>0, <2>1, <2>2, <3>1, <3>2 DEF DropKnown
    <2>. QED
        BY <2>3, <2>4 DEF RaceInv
<1>8. ASSUME NEW p \in Threads, NEW r, Reads(p, r) \/ Links(p, r) \/ Turns(p, r)
      PROVE  RaceInv'
    <2>1. To(p, r) /\ UNCHANGED late /\ r.pc \in Made \cup {"activate", "idle"}
        BY <1>8, IdleOK DEF Reads, ReadBlocks, Links, Turns, Made
    <2>2. \A v \in Versions :
              /\ version'[v].target = version[v].target /\ version'[v].persona = version[v].persona
              /\ version'[v].pin = version[v].pin /\ version'[v].live = version[v].live
              /\ asked'[v].target = asked[v].target /\ asked'[v].persona = asked[v].persona
              /\ asked'[v].pin = asked[v].pin
        <3>1. CASE Reads(p, r)
            BY <1>0, <3>1 DEF Reads, ReadBlocks, tables, Version
        <3>2. CASE Links(p, r)
            BY <1>0, <3>2 DEF Links, Version
        <3>3. CASE Turns(p, r)
            BY <3>3 DEF Turns
        <3>. QED
            BY <1>8, <3>1, <3>2, <3>3
    <2>3. LiveVersions' = LiveVersions
        BY <2>2 DEF LiveVersions
    <2>4. DropKnown(r)'
        BY <2>1 DEF DropKnown, Made
    <2>. QED
        BY <2>1, <2>2, <2>3, <2>4, BoundKept
<1>. QED
    BY <1>1, <1>2, <1>3, <1>4, <1>5, <1>6, <1>7, <1>8, VersionSteps

LEMMA RaceInvAlways == Spec => []RaceInv
<1>1. Init => RaceInv
    <2>. SUFFICES ASSUME Init PROVE RaceInv
        OBVIOUS
    <2>1. version = asked /\ \A p \in Threads : thread[p].pc = "idle"
        BY IdleOK DEF Init
    <2>. QED
        BY <2>1 DEF RaceInv, UnboundOnlyByRace, DropKnown
<1>2. TypeInv /\ RaceInv /\ [Next]_vars => RaceInv'
    BY RaceInvStep
<1>. QED
    BY <1>1, <1>2, TypeInvAlways, PTL DEF Spec

\* A version loses the deployment or the persona it was created with only when it was committed
\* after the deletion had counted the versions that use them (delete_target, delete_persona).
THEOREM UnboundOnlyWhenLate == Spec => []UnboundOnlyByRace
<1>1. RaceInv => UnboundOnlyByRace
    BY DEF RaceInv
<1>. QED
    BY <1>1, RaceInvAlways, PTL

\* The draft run of a form that its checks admit calls the connection and the model that a run
\* of a version created from the form would (the worker's route, the form's pin).
THEOREM DraftsRunAlike == Spec => []DraftRunsLikeTheVersion
<1>1. TypeInv /\ RaceInv => DraftRunsLikeTheVersion
    <2>. SUFFICES ASSUME TypeInv, RaceInv, NEW f \in Forms, NEW v \in LiveVersions,
                         version[v].target = f.target,
                         version[v].model = (IF f.target # NoTarget THEN target[f.target].model ELSE f.model),
                         asked[v].pin = PinOf(f)
                  PROVE  DraftRoute(f) = Route(v)
        BY DEF DraftRunsLikeTheVersion
    <2>1. version[v].pin = asked[v].pin
        BY DEF RaceInv
    <2>. QED
        BY <2>1 DEF DraftRoute, Route, PinOf
<1>. QED
    BY <1>1, TypeInvAlways, RaceInvAlways, PTL

-----------------------------------------------------------------------------
(* The verification of a deployment.                                       *)

LEMMA ProbeInvStep ==
    ASSUME TypeInv, VerifiedMeansProbed, [Next]_vars
    PROVE  VerifiedMeansProbed'
<1>0. /\ target \in [Targets -> Target] /\ \A o \in Threads : HandlerOK(thread[o])
      /\ probed \in [Targets -> (Conns \cup {NoConn}) \X Models]
      /\ \A t \in Targets : target[t] \in Target
    BY DEF TypeInv, TypeOK
\* One row is written, with a verdict that is true of it.
<1>1. ASSUME NEW t \in Targets, NEW row, target' = [target EXCEPT ![t] = row],
             raced \subseteq raced', \A u \in Targets \ {t} : probed'[u] = probed[u],
             row.live = "live" /\ t \notin raced' /\ row.verified
               => probed'[t] = <<row.conn, row.model>>
      PROVE  VerifiedMeansProbed'
    <2>1. target'[t] = row /\ \A u \in Targets \ {t} : target'[u] = target[u]
        BY <1>0, <1>1
    <2>. QED
        BY <1>1, <2>1 DEF VerifiedMeansProbed, LiveTargets
<1>2. CASE UNCHANGED <<target, probed, raced>>
    BY <1>2 DEF VerifiedMeansProbed, LiveTargets
<1>3. ASSUME NEW p \in Threads, InsertTarget(p)
      PROVE  VerifiedMeansProbed'
    <2>1. /\ thread[p].pc = "addTarget" /\ UNCHANGED <<probed, raced>>
          /\ UNCHANGED target \/ target' = [target EXCEPT ![thread[p].t] = thread[p].new]
        BY <1>3 DEF InsertTarget, At, history
    <2>2. thread[p].t \in Targets /\ ~thread[p].new.verified
        BY <1>0, <2>1 DEF HandlerOK
    <2>. QED
        BY <1>1, <1>2, <2>1, <2>2
<1>4. ASSUME NEW p \in Threads, SaveTarget(p)
      PROVE  VerifiedMeansProbed'
    <2>. DEFINE h == thread[p]  new == Flush(Saved(h.new, h.old), h.old, target[h.t])
    <2>1. h.pc = "saveTarget" /\ UNCHANGED probed
        BY <1>4 DEF SaveTarget, At
    <2>2. h.t \in Targets /\ h.new \in Target /\ h.old \in Target
        BY <1>0, <2>1 DEF HandlerOK, Thread
    <2>3. CASE UNCHANGED <<target, raced>>
        BY <1>2, <2>1, <2>3
    <2>4. CASE /\ target' = [target EXCEPT ![h.t] = new]
               /\ raced' = IF target[h.t] # h.old THEN raced \cup {h.t} ELSE raced
        <3>1. Saved(h.new, h.old) \in Target /\ ~Saved(h.new, h.old).verified
            BY <2>2, FlushType
        <3>2. PICK s \in Target : s = Saved(h.new, h.old) /\ ~s.verified
            BY <3>1
        <3>3. target[h.t] = h.old => ~Flush(s, h.old, target[h.t]).verified
            <4>1. Flush(s, h.old, h.old).verified = s.verified
                BY <2>2, FlushType, Zenon
            <4>. QED
                BY <3>2, <4>1
        <3>4. target[h.t] = h.old => ~new.verified
            BY <3>2, <3>3
        <3>. HIDE DEF new
        <3>. QED
            BY <1>1, <2>1, <2>2, <2>4, <3>4
    <2>. QED
        BY <1>4, <2>3, <2>4 DEF SaveTarget
<1>5. ASSUME NEW p \in Threads, Verdict(p)
      PROVE  VerifiedMeansProbed'
    <2>. DEFINE h == thread[p]  new == Flush(h.new, h.old, target[h.t])
    <2>1. h.pc = "verdict"
        BY <1>5 DEF Verdict, At
    <2>2. /\ h.t \in Targets /\ h.new \in Target /\ h.old \in Target
          /\ h.new.conn = h.old.conn /\ h.new.model = h.old.model
        BY <1>0, <2>1 DEF HandlerOK, Thread
    <2>3. CASE UNCHANGED <<target, raced, probed>>
        BY <1>2, <2>3
    <2>4. CASE /\ target' = [target EXCEPT ![h.t] = new]
               /\ raced' = IF target[h.t] # h.old THEN raced \cup {h.t} ELSE raced
               /\ probed' = IF h.new.verified
                            THEN [probed EXCEPT ![h.t] = <<h.old.conn, h.old.model>>]
                            ELSE probed
        <3>1. target[h.t] = h.old =>
                /\ new.conn = h.new.conn /\ new.model = h.new.model /\ new.verified = h.new.verified
            BY <1>0, <2>2, FlushType, ZenonT(40)
        <3>2. h.new.verified => probed'[h.t] = <<h.old.conn, h.old.model>>
            BY <1>0, <2>2, <2>4
        <3>3. \A u \in Targets \ {h.t} : probed'[u] = probed[u]
            BY <1>0, <2>4
        <3>. HIDE DEF new
        <3>. QED
            BY <1>1, <2>2, <2>4, <3>1, <3>2, <3>3, ZenonT(40)
    <2>. QED
        BY <1>5, <2>3, <2>4 DEF Verdict
<1>6. ASSUME NEW p \in Threads, DropTarget(p)
      PROVE  VerifiedMeansProbed'
    <2>1. /\ thread[p].t \in Targets /\ UNCHANGED <<probed, raced>>
          /\ target' = [target EXCEPT ![thread[p].t] = [FreeTarget EXCEPT !.live = "gone"]]
        BY <1>0, <1>6 DEF DropTarget, At, HandlerOK, history
    <2>2. [FreeTarget EXCEPT !.live = "gone"].live = "gone"
        BY DEF FreeTarget
    <2>. QED
        BY <1>1, <2>1, <2>2
<1>7. ASSUME NEW p \in Threads, Disconnect(p)
      PROVE  VerifiedMeansProbed'
    <2>1. PICK c \in Conns :
            /\ target' = [t \in Targets |-> IF target[t].conn = c
                                            THEN [target[t] EXCEPT !.conn = NoConn]
                                            ELSE target[t]]
            /\ raced' = raced \cup {t \in Targets : target[t].conn = c} /\ UNCHANGED probed
        BY <1>7 DEF Disconnect
    <2>2. \A t \in Targets \ raced' : target'[t] = target[t]
        BY <2>1
    <2>. QED
        BY <2>1, <2>2 DEF VerifiedMeansProbed, LiveTargets
<1>8. CASE Next
    <2>1. PICK p \in Threads : Asked(p) \/ HandlerStep(p) \/ Transaction(p)
        BY <1>8, StepsOfNext
    <2>2. CASE Asked(p)
        BY <1>2, <2>2 DEF Asked, Begin, tables, history
    <2>3. CASE Transaction(p)
        BY <1>2, <1>7, <2>3 DEF Transaction, DeleteEndpoint, ApiCreatePersona, ApiCreateBlock,
           ApiDeleteBlock, history
    <2>4. CASE HandlerStep(p)
        <3>1. CASE ResolveTarget(p) \/ Number(p) \/ InsertVersion(p) \/ ReadBlocks(p) \/ LinkBlocks(p)
                   \/ AutoActivate(p) \/ Activate(p) \/ DropPersona(p) \/ Crash(p)
            BY <1>2, <3>1 DEF ResolveTarget, Number, InsertVersion, ReadBlocks, LinkBlocks,
               AutoActivate, Activate, DropPersona, Crash, tables, history
        <3>. QED
            BY <1>3, <1>4, <1>5, <1>6, <2>4, <3>1 DEF HandlerStep
    <2>. QED
        BY <2>1, <2>2, <2>3, <2>4
<1>9. CASE UNCHANGED vars
    BY <1>2, <1>9 DEF vars, tables, history
<1>. QED
    BY <1>8, <1>9

\* A deployment whose flag says verified answered with the connection and the model it has now,
\* unless two handlers wrote it over one another or its connection was deleted.
THEOREM VerifiedAlwaysProbed == Spec => []VerifiedMeansProbed
<1>1. Init => VerifiedMeansProbed
    BY DEF Init, VerifiedMeansProbed, LiveTargets
<1>2. TypeInv /\ VerifiedMeansProbed /\ [Next]_vars => VerifiedMeansProbed'
    BY ProbeInvStep
<1>. QED
    BY <1>1, <1>2, TypeInvAlways, PTL DEF Spec

-----------------------------------------------------------------------------
(* The deployment of a promotion.                                          *)

\* What a promotion has committed names the deployment it picked, as long as there is one,
\* and the model that deployment had.
Names(h) ==
    h.op = "promote" /\ h.pc \in Made /\ version[h.v].live = "live" =>
      /\ version[h.v].target = h.t \/ target[h.t].live = "gone"
      /\ version[h.v].model = h.old.model

PromoteInv == \A p \in Threads : Picked(thread[p], raced) /\ Names(thread[p])

LEMMA TargetsKeep ==
    ASSUME TypeInv, [Next]_vars
    PROVE  /\ raced \subseteq raced'
           /\ \A t \in Targets : target[t].live = "gone" => target'[t].live = "gone"
<1>0. \A t \in Targets : target[t] \in Target
    BY DEF TypeInv, TypeOK
<1>. DEFINE Goal == /\ raced \subseteq raced'
                    /\ \A t \in Targets : target[t].live = "gone" => target'[t].live = "gone"
<1>1. CASE UNCHANGED <<target, raced>>
    BY <1>1
\* One row is written, and a row that is gone stays it.
<1>2. ASSUME NEW t \in Targets, NEW row, target' = [target EXCEPT ![t] = row], raced \subseteq raced',
             target[t].live = "gone" => row.live = "gone"
      PROVE  Goal
    <2>1. target'[t] = row /\ \A u \in Targets \ {t} : target'[u] = target[u]
        BY <1>2 DEF TypeInv, TypeOK
    <2>. QED
        BY <1>2, <2>1
<1>3. ASSUME NEW p \in Threads, InsertTarget(p) \/ SaveTarget(p) \/ Verdict(p) \/ DropTarget(p)
      PROVE  Goal
    <2>. DEFINE h == thread[p]
    <2>1. h \in Thread /\ HandlerOK(h)
        BY DEF TypeInv, HandlerOK
    <2>2. h.t \in Targets /\ h.new \in Target /\ h.old \in Target /\ raced \subseteq raced'
        BY <1>3, <2>1 DEF InsertTarget, SaveTarget, Verdict, DropTarget, At, HandlerOK, Thread, history
    <2>3. CASE InsertTarget(p)
        <3>1. UNCHANGED target \/ (target[h.t].live = "free" /\ target' = [target EXCEPT ![h.t] = h.new])
            BY <2>3 DEF InsertTarget
        <3>. QED
            BY <1>2, <2>2, <3>1
    <2>4. CASE SaveTarget(p)
        <3>. DEFINE s == Saved(h.new, h.old)  row == Flush(s, h.old, target[h.t])
        <3>1. UNCHANGED target \/ target' = [target EXCEPT ![h.t] = row]
            BY <2>4 DEF SaveTarget
        <3>2. s \in Target
            BY <2>2, FlushType
        <3>. HIDE DEF s
        <3>3. row.live = target[h.t].live
            BY DEF Flush
        <3>. HIDE DEF row
        <3>. QED
            BY <1>2, <2>2, <3>1, <3>3
    <2>5. CASE Verdict(p)
        <3>. DEFINE row == Flush(h.new, h.old, target[h.t])
        <3>1. UNCHANGED target \/ target' = [target EXCEPT ![h.t] = row]
            BY <2>5 DEF Verdict
        <3>2. row.live = target[h.t].live
            BY DEF Flush
        <3>. HIDE DEF row
        <3>. QED
            BY <1>2, <2>2, <3>1, <3>2
    <2>6. CASE DropTarget(p)
        <3>1. /\ target' = [target EXCEPT ![h.t] = [FreeTarget EXCEPT !.live = "gone"]]
              /\ [FreeTarget EXCEPT !.live = "gone"].live = "gone"
            BY <2>6 DEF DropTarget, FreeTarget
        <3>. QED
            BY <1>2, <2>2, <3>1
    <2>. QED
        BY <1>3, <2>3, <2>4, <2>5, <2>6
<1>4. ASSUME NEW p \in Threads, Disconnect(p)
      PROVE  Goal
    BY <1>0, <1>4 DEF Disconnect, Target
<1>5. CASE UNCHANGED vars
    BY <1>1, <1>5 DEF vars, tables, history
<1>6. CASE Next
    <2>1. PICK p \in Threads : Asked(p) \/ HandlerStep(p) \/ Transaction(p)
        BY <1>6, StepsOfNext
    <2>2. CASE Asked(p)
        BY <1>1, <2>2 DEF Asked, Begin, tables, history
    <2>3. CASE Transaction(p)
        BY <1>1, <1>4, <2>3 DEF Transaction, DeleteEndpoint, ApiCreatePersona, ApiCreateBlock,
           ApiDeleteBlock, history
    <2>4. CASE ResolveTarget(p) \/ Number(p) \/ InsertVersion(p) \/ ReadBlocks(p) \/ LinkBlocks(p)
               \/ AutoActivate(p) \/ Activate(p) \/ DropPersona(p) \/ Crash(p)
        BY <1>1, <2>4 DEF ResolveTarget, Number, InsertVersion, ReadBlocks, LinkBlocks,
           AutoActivate, Activate, DropPersona, Crash, tables, history
    <2>. QED
        BY <1>3, <2>1, <2>2, <2>3, <2>4 DEF HandlerStep
<1>. QED
    BY <1>5, <1>6

\* A version that was live keeps its model, and its target while there is one.
LEMMA VersionsKeep ==
    ASSUME TypeInv, [Next]_vars, NEW v \in Versions, version[v].live # "free", version'[v].live = "live"
    PROVE  /\ version[v].live = "live" /\ version'[v].model = version[v].model
           /\ \/ version'[v].target = version[v].target
              \/ version[v].target \in Targets /\ target'[version[v].target].live = "gone"
<1>0. /\ version \in [Versions -> Version] /\ version[v] \in Version
      /\ \A o \in Threads : HandlerOK(thread[o])
    BY DEF TypeInv, TypeOK
<1>1. CASE UNCHANGED version
    BY <1>1
<1>2. ASSUME NEW p \in Threads, DropTarget(p)
      PROVE  /\ version[v].live = "live" /\ version'[v].model = version[v].model
             /\ \/ version'[v].target = version[v].target
                \/ version[v].target \in Targets /\ target'[version[v].target].live = "gone"
    <2>0. PICK t : t = thread[p].t
        OBVIOUS
    <2>1. /\ t \in Targets
          /\ target' = [target EXCEPT ![t] = [FreeTarget EXCEPT !.live = "gone"]]
          /\ version'[v] = IF version[v].target = t THEN [version[v] EXCEPT !.target = NoTarget]
                           ELSE version[v]
        BY <1>0, <1>2, <2>0 DEF DropTarget, At, HandlerOK
    <2>2. target'[t].live = "gone"
        <3>1. [FreeTarget EXCEPT !.live = "gone"].live = "gone"
            BY DEF FreeTarget
        <3>. QED
            BY <2>1, <3>1 DEF TypeInv, TypeOK
    <2>3. /\ version'[v].live = version[v].live /\ version'[v].model = version[v].model
          /\ version[v].target # t => version'[v].target = version[v].target
        BY <1>0, <2>1 DEF Version
    <2>. QED
        BY <2>1, <2>2, <2>3
<1>3. ASSUME NEW p \in Threads, DropPersona(p) \/ ApiDeleteBlock(p)
      PROVE  version'[v].live = version[v].live /\ version'[v].model = version[v].model
             /\ version'[v].target = version[v].target
    BY <1>0, <1>3 DEF DropPersona, ApiDeleteBlock, Version
<1>4. ASSUME NEW p \in Threads, DeleteEndpoint(p)
      PROVE  UNCHANGED version[v]
    <2>1. version'[v] = IF version[v].live = "live" THEN [FreeVersion EXCEPT !.live = "gone"]
                        ELSE version[v]
        BY <1>4 DEF DeleteEndpoint
    <2>2. [FreeVersion EXCEPT !.live = "gone"].live = "gone"
        BY DEF FreeVersion
    <2>. QED
        BY <2>1, <2>2
<1>5. ASSUME NEW p \in Threads, NEW r, (\E u \in Versions : Creates(p, u, r)) \/ Links(p, r)
      PROVE  version'[v].live = version[v].live /\ version'[v].model = version[v].model
             /\ version'[v].target = version[v].target
    BY <1>0, <1>5 DEF Creates, Links, Version
<1>. QED
    BY <1>1, <1>2, <1>3, <1>4, <1>5, VersionSteps, ZenonT(40)
    DEF Still, Quiet, ApiCreateBlock, Reads, ReadBlocks, Turns, tables

LEMMA PromoteInvStep ==
    ASSUME TypeInv, ServeInv, PromoteInv, [Next]_vars
    PROVE  PromoteInv'
<1>0. /\ thread \in [Threads -> Thread] /\ version \in [Versions -> Version]
      /\ \A o \in Threads : HandlerOK(thread[o]) /\ HandlerServes(thread[o])
      /\ \A v \in Versions : version[v] \in Version
    BY DEF TypeInv, TypeOK, ServeInv
\* The handlers that do not move.
<1>1. ASSUME NEW o \in Threads, thread'[o] = thread[o]
      PROVE  Picked(thread'[o], raced') /\ Names(thread[o])'
    <2>0. Picked(thread[o], raced) /\ Names(thread[o]) /\ HandlerOK(thread[o]) /\ HandlerServes(thread[o])
        BY <1>0 DEF PromoteInv
    <2>1. Picked(thread'[o], raced')
        BY <1>1, <2>0, TargetsKeep DEF Picked
    <2>2. PICK h : h = thread[o]
        OBVIOUS
    <2>3. ASSUME h.op = "promote", h.pc \in Made, version'[h.v].live = "live"
          PROVE  /\ version'[h.v].target = h.t \/ target'[h.t].live = "gone"
                 /\ version'[h.v].model = h.old.model
        <3>1. h.v \in Versions /\ h.t \in Targets /\ version[h.v].live # "free"
            BY <2>0, <2>2, <2>3 DEF HandlerOK, HandlerServes
        <3>2. /\ version[h.v].live = "live" /\ version'[h.v].model = version[h.v].model
              /\ \/ version'[h.v].target = version[h.v].target
                 \/ version[h.v].target \in Targets /\ target'[version[h.v].target].live = "gone"
            BY <2>3, <3>1, VersionsKeep
        <3>3. /\ version[h.v].target = h.t \/ target[h.t].live = "gone"
              /\ version[h.v].model = h.old.model
            BY <2>0, <2>2, <2>3, <3>2 DEF Names
        <3>. QED
            BY <3>1, <3>2, <3>3, TargetsKeep
    <2>. QED
        BY <1>1, <2>1, <2>2, <2>3 DEF Names
<1>2. ASSUME NEW p \in Threads, NEW r, To(p, r), Picked(r, raced'), Names(r)'
      PROVE  PromoteInv'
    <2>1. thread'[p] = r /\ \A o \in Threads \ {p} : thread'[o] = thread[o]
        BY <1>0, <1>2 DEF To
    <2>. QED
        BY <1>1, <1>2, <2>1 DEF PromoteInv, Names
<1>3. CASE UNCHANGED thread
    BY <1>1, <1>3 DEF PromoteInv
<1>4. ASSUME NEW p \in Threads, Quiet(p)
      PROVE  PromoteInv'
    <2>1. PICK r : Fresh(p, r) /\ To(p, r)
        BY <1>4 DEF Quiet
    <2>2. Picked(r, raced') /\ Names(r)'
        BY <2>1 DEF PromoteInv, Fresh, Names
    <2>. QED
        BY <1>2, <2>1, <2>2
<1>5. ASSUME NEW p \in Threads, DropTarget(p) \/ DropPersona(p)
      PROVE  PromoteInv'
    <2>1. To(p, Idle) /\ Picked(Idle, raced') /\ Names(Idle)'
        BY <1>5, IdleOK DEF DropTarget, DropPersona, End, Picked, Names
    <2>. QED
        BY <1>2, <2>1
<1>6. ASSUME NEW p \in Threads, NEW v \in Versions, NEW r, Creates(p, v, r)
      PROVE  PromoteInv'
    <2>0. PICK h : h = thread[p]
        OBVIOUS
    <2>1. /\ version'[v].target = h.t /\ version'[v].model = h.model
          /\ h.pc = "insert" /\ r.pc \in Made /\ r.v = v /\ r.op = h.op /\ r.t = h.t /\ r.old = h.old
          /\ r.new = h.new /\ raced' = raced /\ To(p, r)
        BY <1>0, <1>6, <2>0 DEF Creates, NewVersion, Made
    <2>2. Picked(h, raced)
        BY <2>0 DEF PromoteInv
    <2>3. Picked(r, raced')
        BY <2>1, <2>2 DEF Picked, Made
    <2>4. Names(r)'
        BY <2>1, <2>2 DEF Picked, Names
    <2>. QED
        BY <1>2, <2>1, <2>3, <2>4
<1>7. ASSUME NEW p \in Threads, NEW r, Reads(p, r) \/ Links(p, r)
      PROVE  PromoteInv'
    <2>0. PICK h : h = thread[p]
        OBVIOUS
    <2>1. /\ h.pc \in Made /\ h.v \in Versions /\ r.pc \in Made /\ r.v = h.v /\ r.op = h.op /\ r.t = h.t
          /\ r.old = h.old /\ r.new = h.new /\ UNCHANGED <<target, raced>> /\ To(p, r)
        BY <1>0, <1>7, <2>0 DEF Reads, ReadBlocks, Links, HandlerOK, Made, tables
    <2>2. /\ version'[h.v].live = version[h.v].live /\ version'[h.v].target = version[h.v].target
          /\ version'[h.v].model = version[h.v].model
        BY <1>0, <1>7, <2>0, <2>1 DEF Reads, ReadBlocks, Links, tables, Version
    <2>3. Picked(h, raced) /\ Names(h)
        BY <2>0 DEF PromoteInv
    <2>4. r.pc # "insert"
        BY <2>1 DEF Made
    <2>5. Picked(r, raced') /\ Names(r)'
        BY <2>1, <2>2, <2>3, <2>4 DEF Picked, Names
    <2>. QED
        BY <1>2, <2>1, <2>5
<1>8. ASSUME NEW p \in Threads, NEW r, Turns(p, r)
      PROVE  PromoteInv'
    <2>1. To(p, r) /\ r.op # "promote"
        BY <1>8, IdleOK DEF Turns
    <2>2. Picked(r, raced') /\ Names(r)'
        BY <2>1 DEF Picked, Names
    <2>. QED
        BY <1>2, <2>1, <2>2
<1>9. ASSUME NEW p \in Threads, DeleteEndpoint(p) \/ ApiDeleteBlock(p) \/ ApiCreateBlock(p)
      PROVE  PromoteInv'
    BY <1>3, <1>9 DEF DeleteEndpoint, ApiDeleteBlock, ApiCreateBlock, Request
<1>. QED
    BY <1>3, <1>4, <1>5, <1>6, <1>7, <1>8, <1>9, VersionSteps

\* An endpoint that is deleted does not come back.
LEMMA EndpointGoes ==
    ASSUME TypeInv, [Next]_vars, endpoint'.live
    PROVE  endpoint.live
<1>1. endpoint \in [live: BOOLEAN, active: Versions \cup {NoVersion}]
    BY DEF TypeInv, TypeOK
<1>2. ASSUME NEW p \in Threads, NEW r, Turns(p, r)
      PROVE  endpoint'.live = endpoint.live
    BY <1>1, <1>2 DEF Turns
<1>3. ASSUME NEW p \in Threads, DeleteEndpoint(p)
      PROVE  FALSE
    BY <1>3 DEF DeleteEndpoint
<1>4. ASSUME NEW p \in Threads, Quiet(p) \/ DropTarget(p) \/ DropPersona(p) \/ ApiDeleteBlock(p)
                                \/ ApiCreateBlock(p)
      PROVE  endpoint' = endpoint
    BY <1>4 DEF Quiet, Still, DropTarget, DropPersona, ApiDeleteBlock, ApiCreateBlock
<1>5. ASSUME NEW p \in Threads, NEW r, (\E v \in Versions : Creates(p, v, r)) \/ Reads(p, r) \/ Links(p, r)
      PROVE  endpoint' = endpoint
    BY <1>5 DEF Creates, Reads, ReadBlocks, Links, tables
<1>6. CASE Still
    BY <1>6 DEF Still
<1>. QED
    BY <1>2, <1>3, <1>4, <1>5, <1>6, VersionSteps

\* A version promoted from a comparison runs with the connection and the model compared
\* (test_lab_promote), when its deployment has not been changed until it goes live.
THEOREM PromotedAsCompared == Spec => PromotedRunsWhatWasCompared
<1>. DEFINE A == \A p \in Threads :
         LET q == thread[p] IN
         /\ q.pc = "auto" /\ q.op = "promote" /\ endpoint'.active = q.v
         /\ q.t \in LiveTargets \ raced
         /\ target[q.t].conn = q.old.conn /\ target[q.t].model = q.old.model
         => Route(q.v) = <<q.new.conn, q.new.model>>
<1>1. Init => PromoteInv
    <2>. SUFFICES ASSUME Init PROVE PromoteInv
        OBVIOUS
    <2>1. \A p \in Threads : thread[p].op = "none"
        BY IdleOK DEF Init
    <2>. QED
        BY <2>1 DEF PromoteInv, Picked, Names
<1>2. TypeInv /\ ServeInv /\ PromoteInv /\ [Next]_vars => PromoteInv'
    BY PromoteInvStep
<1>3. TypeInv /\ ServeInv /\ ServeInv' /\ PromoteInv /\ [Next]_vars => A
    <2>. SUFFICES ASSUME TypeInv, ServeInv, ServeInv', PromoteInv, [Next]_vars, NEW p \in Threads,
                         thread[p].pc = "auto", thread[p].op = "promote",
                         endpoint'.active = thread[p].v, thread[p].t \in LiveTargets \ raced,
                         target[thread[p].t].conn = thread[p].old.conn,
                         target[thread[p].t].model = thread[p].old.model
                  PROVE  Route(thread[p].v) = <<thread[p].new.conn, thread[p].new.model>>
        OBVIOUS
    <2>. DEFINE h == thread[p]
    <2>1. /\ HandlerServes(h) /\ Picked(h, raced) /\ Names(h) /\ h.v \in Versions /\ h.t \in Targets
        BY DEF TypeInv, HandlerOK, ServeInv, PromoteInv, Made
    <2>2. endpoint.live
        <3>1. endpoint'.active # NoVersion
            BY <2>1, DeploymentsAssumption
        <3>. QED
            BY <3>1, EndpointGoes DEF ServeInv
    <2>3. version[h.v].live = "live"
        BY <2>1, <2>2 DEF HandlerServes, Made
    <2>4. version[h.v].target = h.t /\ version[h.v].model = h.old.model
        BY <2>1, <2>3 DEF Names, Made, LiveTargets
    <2>5. h.old.conn = h.new.conn /\ h.old.model = h.new.model
        BY <2>1 DEF Picked, Made
    <2>6. h.t # NoTarget
        BY <2>1, DeploymentsAssumption
    <2>. QED
        BY <2>4, <2>5, <2>6 DEF Route
<1>4. TypeInv /\ ServeInv /\ ServeInv' /\ PromoteInv /\ [Next]_vars => [A]_vars
    BY <1>3
<1>. QED
    BY <1>1, <1>2, <1>4, WholeAlways, PTL DEF Spec, PromotedRunsWhatWasCompared
=============================================================================
